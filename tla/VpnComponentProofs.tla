------------------------- MODULE VpnComponentProofs -------------------------
(***************************************************************************)
(* What the components of the VPN process, and its lanes to the UI, keep   *)
(* for every value of the constants.                                       *)
(*                                                                         *)
(* Lane: a read returns whole frames only, whatever threads and bindings   *)
(* write beside it, and the lane of the UI is a regular register.          *)
(*                                                                         *)
(* Notify: no wake-up is lost between the UI and the live binding of the   *)
(* Extension.                                                              *)
(*                                                                         *)
(* Tun: one worker at a time, complete cleanups, failures blamed on the    *)
(* worker of the attempt, and listeners that serve as long as the session. *)
(*                                                                         *)
(* Flows: a session of the map has its reader, and no task of a stream or  *)
(* a datagram outlives the worker.                                         *)
(*                                                                         *)
(* Reload: an engine reads only the TUN of the session that the Ability    *)
(* holds, and carries that session while it is up.                         *)
(***************************************************************************)
EXTENDS Integers, Sequences, FiniteSets, FiniteSetTheorems, SequenceTheorems, TLAPS

CONSTANT None

-----------------------------------------------------------------------------
(* The lane.                                                               *)

CONSTANTS Publishers, Locked, BigFrames, Torn, MaxPublications, MaxLaneAcks,
          MaxRebinds, MaxClockBack

VARIABLES slot, next, published, lock, mem, job, laneClock, stamp, version,
          laneFrames, reader, seen, applied, laneCounts

Lane == INSTANCE PlatformLane WITH
    MaxAcks <- MaxLaneAcks, clock <- laneClock, frames <- laneFrames,
    counts <- laneCounts

Bindings == {"live", "ack"}

SlotType == slot \in [Lane!Slots -> [header : Lane!Headers \cup {None, Torn},
                                     body : [1..2 -> Lane!Envelopes]]]

JobType ==
  job \in [Lane!Threads -> [at : {"idle", "number", "body", "rest", "header", "commit"},
                            env : Lane!Envelopes, gen : Nat]]

Readers == [at : {"idle", "header", "body", "rest", "again"}, slot : 0..Lane!SlotCount,
            try : 1..Lane!Tries, first : Lane!Headers \cup {None},
            half : Lane!Envelopes, rest : Lane!Envelopes, best : Lane!Frames \cup {None},
            floor : Nat, laps : Nat]

ReaderType ==
  /\ reader \in Readers
  /\ reader.at \in {"body", "rest", "again"} => Lane!Reading /\ reader.first \in Lane!Headers

LaneType ==
  /\ SlotType /\ JobType /\ ReaderType
  /\ next \in [Bindings -> Nat]
  /\ published \in [Bindings -> Lane!Envelopes]
  /\ mem \in [Bindings -> Lane!Threads \cup {None}]
  /\ lock \in Locked \cup {None}
  /\ laneClock \in Nat /\ stamp \in Nat /\ version \in Nat
  /\ applied \in [ver : Nat, stamp : Nat]
  /\ seen \in [best : Lane!Frames \cup {None}, floor : Nat, laps : Nat, asOf : Nat]
  /\ laneCounts \in [pub : Nat, ack : Nat, rebind : Nat, back : Nat]

-----------------------------------------------------------------------------
(* Operators *)

LEMMA MaxOfTwo ==
  ASSUME NEW a \in Nat, NEW b \in Nat
  PROVE  Lane!Max({a, b}) \in Nat /\ Lane!Max({a, b}) >= a /\ Lane!Max({a, b}) >= b
  <1>1. \E x \in {a, b} : \A y \in {a, b} : x >= y
    OBVIOUS
  <1> QED
    BY <1>1 DEF Lane!Max

(* The greatest generation of the headers, 0 if there is none.             *)
LEMMA LatestIs ==
  ASSUME SlotType
  PROVE  /\ Lane!LatestGeneration \in Nat
         /\ \A i \in Lane!Slots : Lane!Valid(slot[i].header)
                               => slot[i].header.gen <= Lane!LatestGeneration
         /\ \/ Lane!LatestGeneration = 0
            \/ \E i \in Lane!Slots : /\ Lane!Valid(slot[i].header)
                                     /\ slot[i].header.gen = Lane!LatestGeneration
  <1> DEFINE V == {j \in Lane!Slots : Lane!Valid(slot[j].header)}
             S == {0} \cup {slot[i].header.gen : i \in V}
  <1>0. Lane!Slots = {0, 1}
    BY DEF Lane!Slots, Lane!SlotCount
  <1>1. \A i \in V : slot[i].header \in Lane!Headers /\ slot[i].header.gen \in Nat
    BY DEF SlotType, Lane!Valid, Lane!Headers
  <1>2. \E x \in S : \A y \in S : x >= y
    <2>1. CASE V = {}
      BY <2>1
    <2>2. CASE V = {0}
      BY <1>1, <2>2
    <2>3. CASE V = {1}
      BY <1>1, <2>3
    <2>4. CASE V = {0, 1}
      <3>1. S = {0, slot[0].header.gen, slot[1].header.gen}
        BY <2>4
      <3> QED
        BY <1>1, <2>4, <3>1
    <2> QED
      BY <1>0, <2>1, <2>2, <2>3, <2>4
  <1>3. Lane!LatestGeneration = CHOOSE x \in S : \A y \in S : x >= y
    BY DEF Lane!LatestGeneration, Lane!Max
  <1>4. Lane!LatestGeneration \in S /\ \A y \in S : Lane!LatestGeneration >= y
    BY <1>2, <1>3
  <1> HIDE DEF S
  <1>5. S \subseteq Nat
    BY <1>1 DEF S
  <1>6. \A i \in V : slot[i].header.gen \in S
    BY DEF S
  <1>7. \A y \in S : y = 0 \/ \E i \in V : slot[i].header.gen = y
    BY DEF S
  <1> QED
    BY <1>1, <1>4, <1>5, <1>6, <1>7

LEMMA LatestThen ==
  ASSUME SlotType'
  PROVE  /\ Lane!LatestGeneration' \in Nat
         /\ \A i \in Lane!Slots : Lane!Valid(slot'[i].header)
                               => slot'[i].header.gen <= Lane!LatestGeneration'
         /\ \/ Lane!LatestGeneration' = 0
            \/ \E i \in Lane!Slots : /\ Lane!Valid(slot'[i].header)
                                     /\ slot'[i].header.gen = Lane!LatestGeneration'
  <1> DEFINE V == {j \in Lane!Slots : Lane!Valid(slot'[j].header)}
             S == {0} \cup {slot'[i].header.gen : i \in V}
  <1>0. Lane!Slots = {0, 1}
    BY DEF Lane!Slots, Lane!SlotCount
  <1>1. \A i \in V : slot'[i].header \in Lane!Headers /\ slot'[i].header.gen \in Nat
    BY DEF SlotType, Lane!Valid, Lane!Headers
  <1>2. \E x \in S : \A y \in S : x >= y
    <2>1. CASE V = {}
      BY <2>1
    <2>2. CASE V = {0}
      BY <1>1, <2>2
    <2>3. CASE V = {1}
      BY <1>1, <2>3
    <2>4. CASE V = {0, 1}
      <3>1. S = {0, slot'[0].header.gen, slot'[1].header.gen}
        BY <2>4
      <3> QED
        BY <1>1, <2>4, <3>1
    <2> QED
      BY <1>0, <2>1, <2>2, <2>3, <2>4
  <1>3. Lane!LatestGeneration' = CHOOSE x \in S : \A y \in S : x >= y
    BY DEF Lane!LatestGeneration, Lane!Max
  <1>4. Lane!LatestGeneration' \in S /\ \A y \in S : Lane!LatestGeneration' >= y
    BY <1>2, <1>3
  <1> HIDE DEF S
  <1>5. S \subseteq Nat
    BY <1>1 DEF S
  <1>6. \A i \in V : slot'[i].header.gen \in S
    BY DEF S
  <1>7. \A y \in S : y = 0 \/ \E i \in V : slot'[i].header.gen = y
    BY DEF S
  <1> QED
    BY <1>1, <1>4, <1>5, <1>6, <1>7

-----------------------------------------------------------------------------
(* Types *)

LEMMA EmptyType == Lane!Empty \in Lane!Envelopes /\ Lane!NoState \in [ver : Nat, stamp : Nat]
  BY DEF Lane!Empty, Lane!NoState, Lane!Envelopes

LEMMA LaneInitType == ASSUME Lane!ConstantsOK, Lane!Init PROVE LaneType
  <1>1. SlotType
    BY EmptyType DEF Lane!Init, SlotType
  <1>2. JobType
    BY EmptyType DEF Lane!Init, JobType, Lane!Idle
  <1>3. ReaderType
    BY EmptyType DEF Lane!Init, ReaderType, Readers, Lane!Reading,
                     Lane!Resting, Lane!SlotCount, Lane!Tries
  <1>4. /\ next \in [Bindings -> Nat] /\ published \in [Bindings -> Lane!Envelopes]
        /\ mem \in [Bindings -> Lane!Threads \cup {None}]
    BY EmptyType DEF Lane!Init, Bindings
  <1> QED
    BY <1>1, <1>2, <1>3, <1>4, EmptyType DEF Lane!Init, LaneType, Lane!NoState

LEMMA BindingType == \A t : Lane!Binding(t) \in Bindings
  BY DEF Lane!Binding, Bindings

LEMMA UpdateType ==
  ASSUME Lane!ConstantsOK, LaneType, NEW t \in Publishers, Lane!Update(t)
  PROVE  LaneType'
  <1> USE DEF LaneType
  <1>1. Lane!NextStamp \in Nat
    BY MaxOfTwo DEF Lane!NextStamp
  <1> DEFINE n == laneCounts.pub + 1
             new == IF t = "state"
                    THEN [published["live"] EXCEPT !.state = [ver |-> n, stamp |-> Lane!NextStamp]]
                    ELSE [published["live"] EXCEPT !.other = n]
  <1>2. new \in Lane!Envelopes
    BY <1>1 DEF Lane!Envelopes, Bindings
  <1>3. /\ lock' = IF t \in Locked THEN t ELSE lock
        /\ stamp' = IF t = "state" THEN Lane!NextStamp ELSE stamp
        /\ laneClock' = laneClock + 1
        /\ published' = [published EXCEPT !["live"] = new]
        /\ job' = [job EXCEPT ![t] = [at |-> "number", env |-> new, gen |-> 0]]
        /\ laneCounts' = [laneCounts EXCEPT !.pub = n]
        /\ UNCHANGED <<slot, next, mem, version, laneFrames, reader, seen, applied>>
    BY DEF Lane!Update
  <1> HIDE DEF new
  <1>4. JobType'
    BY <1>2, <1>3 DEF JobType
  <1>5. published' \in [Bindings -> Lane!Envelopes]
    BY <1>2, <1>3
  <1> QED
    BY <1>1, <1>3, <1>4, <1>5 DEF SlotType, ReaderType, Readers, Lane!Reading

LEMMA AckType ==
  ASSUME Lane!ConstantsOK, LaneType, Lane!AttachAck PROVE LaneType'
  <1> USE DEF LaneType
  <1> DEFINE new == [state |-> [ver |-> applied.ver, stamp |-> laneClock], other |-> 0]
  <1>1. new \in Lane!Envelopes
    BY DEF Lane!Envelopes
  <1>2. Lane!LatestGeneration + 1 \in Nat
    BY LatestIs
  <1>3. /\ laneCounts' = [laneCounts EXCEPT !.ack = @ + 1]
        /\ laneClock' = laneClock + 1
        /\ next' = [next EXCEPT !["ack"] = Lane!LatestGeneration + 1]
        /\ published' = [published EXCEPT !["ack"] = new]
        /\ job' = [job EXCEPT !["ack"] = [at |-> "number", env |-> new, gen |-> 0]]
        /\ UNCHANGED <<slot, lock, mem, stamp, version, laneFrames, reader, seen, applied>>
    BY DEF Lane!AttachAck
  <1> HIDE DEF new
  <1>4. JobType'
    BY <1>1, <1>3 DEF JobType
  <1>5. published' \in [Bindings -> Lane!Envelopes] /\ next' \in [Bindings -> Nat]
    BY <1>1, <1>2, <1>3
  <1> QED
    BY <1>3, <1>4, <1>5 DEF SlotType, ReaderType, Readers, Lane!Reading

LEMMA SlotOfType ==
  ASSUME JobType, NEW t \in Lane!Threads
  PROVE  Lane!SlotOf(t) \in Lane!Slots /\ job[t].env \in Lane!Envelopes /\ job[t].gen \in Nat
  <1>1. job[t].env \in Lane!Envelopes /\ job[t].gen \in Nat
    BY DEF JobType
  <1>2. \A n \in Nat : n % 2 \in 0..1
    OBVIOUS
  <1> QED
    BY <1>1, <1>2 DEF Lane!SlotOf, Lane!Slots, Lane!SlotCount

LEMMA WriteType ==
  ASSUME Lane!ConstantsOK, LaneType, NEW t \in Lane!Threads,
         Lane!Number(t) \/ Lane!BodyFirst(t) \/ Lane!BodyRest(t) \/ Lane!HeaderFirst(t) \/ Lane!HeaderRest(t)
  PROVE  LaneType'
  <1> USE DEF LaneType
  <1>0. Lane!Binding(t) \in Bindings /\ Lane!Unlocked(t) \in Locked \cup {None}
    BY BindingType DEF Lane!Unlocked
  <1>i. Lane!SlotOf(t) \in Lane!Slots /\ job[t].env \in Lane!Envelopes /\ job[t].gen \in Nat
    BY SlotOfType
  <1>s. \A e \in Lane!Envelopes :
          /\ slot' = [slot EXCEPT ![Lane!SlotOf(t)].body[1] = e] => SlotType'
          /\ slot' = [slot EXCEPT ![Lane!SlotOf(t)].body[2] = e] => SlotType'
    <2> SUFFICES ASSUME NEW e \in Lane!Envelopes, NEW k \in 1..2,
                        slot' = [slot EXCEPT ![Lane!SlotOf(t)].body[k] = e]
                 PROVE  SlotType'
      OBVIOUS
    <2> DEFINE body == [slot[Lane!SlotOf(t)].body EXCEPT ![k] = e]
               new == [slot[Lane!SlotOf(t)] EXCEPT !.body = body]
    <2>1. slot' = [slot EXCEPT ![Lane!SlotOf(t)] = new]
      OBVIOUS
    <2>2. body \in [1..2 -> Lane!Envelopes]
      BY <1>i DEF SlotType
    <2> HIDE DEF body
    <2>3. new \in [header : Lane!Headers \cup {None, Torn}, body : [1..2 -> Lane!Envelopes]]
      BY <1>i, <2>2 DEF SlotType
    <2> HIDE DEF new
    <2> QED
      BY <1>i, <2>1, <2>3 DEF SlotType
  <1>1. CASE Lane!Number(t)
    <2>1. next[Lane!Binding(t)] \in Nat
      BY <1>0
    <2>2. JobType'
      BY <1>1, <2>1, EmptyType DEF Lane!Number, JobType, Lane!Idle
    <2>3. next' \in [Bindings -> Nat]
      BY <1>0, <1>1, <2>1 DEF Lane!Number
    <2> QED
      BY <1>0, <1>1, <2>2, <2>3 DEF Lane!Number, SlotType, ReaderType, Readers,
                                    Lane!Reading
  <1>2. CASE Lane!BodyFirst(t)
    <2>1. SlotType'
      BY <1>2, <1>i, <1>s DEF Lane!BodyFirst
    <2>2. JobType'
      BY <1>2 DEF Lane!BodyFirst, JobType
    <2>3. ReaderType'
      BY <1>2 DEF Lane!BodyFirst, ReaderType, Readers, Lane!Reading
    <2>4. mem' \in [Bindings -> Lane!Threads \cup {None}]
      BY <1>0, <1>2 DEF Lane!BodyFirst, Lane!EnterMemory
    <2> QED
      BY <1>2, <2>1, <2>2, <2>3, <2>4 DEF Lane!BodyFirst
  <1>3. CASE Lane!BodyRest(t)
    <2>1. SlotType'
      BY <1>3, <1>i, <1>s DEF Lane!BodyRest
    <2>2. JobType'
      BY <1>3 DEF Lane!BodyRest, JobType
    <2>4. mem' \in [Bindings -> Lane!Threads \cup {None}]
      BY <1>0, <1>3 DEF Lane!BodyRest, Lane!LeaveMemory
    <2> QED
      BY <1>3, <2>1, <2>2, <2>4 DEF Lane!BodyRest, ReaderType, Readers,
                                    Lane!Reading
  <1>4. CASE Lane!HeaderFirst(t)
    <2>1. SlotType'
      BY <1>i, <1>4 DEF Lane!HeaderFirst, SlotType
    <2>2. JobType'
      BY <1>4 DEF Lane!HeaderFirst, JobType
    <2>4. mem' \in [Bindings -> Lane!Threads \cup {None}]
      BY <1>0, <1>4 DEF Lane!HeaderFirst, Lane!EnterMemory
    <2> QED
      BY <1>4, <2>1, <2>2, <2>4 DEF Lane!HeaderFirst, ReaderType, Readers,
                                    Lane!Reading
  <1>5. CASE Lane!HeaderRest(t)
    <2>1. SlotType'
      <3>1. [gen |-> job[t].gen, sum |-> job[t].env] \in Lane!Headers
        BY <1>i DEF Lane!Headers
      <3> QED
        BY <1>i, <1>5, <3>1 DEF Lane!HeaderRest, SlotType
    <2>2. JobType'
      BY <1>5, EmptyType DEF Lane!HeaderRest, JobType, Lane!Idle
    <2>3. version' \in Nat
      BY <1>5 DEF Lane!HeaderRest, JobType, Lane!Envelopes
    <2>4. mem' \in [Bindings -> Lane!Threads \cup {None}]
      BY <1>0, <1>5 DEF Lane!HeaderRest, Lane!LeaveMemory
    <2> QED
      BY <1>0, <1>5, <2>1, <2>2, <2>3, <2>4
         DEF Lane!HeaderRest, ReaderType, Readers, Lane!Reading
  <1> QED
    BY <1>1, <1>2, <1>3, <1>4, <1>5

LEMMA RebindType ==
  ASSUME Lane!ConstantsOK, LaneType, Lane!Rebind \/ Lane!SetClockBack PROVE LaneType'
  <1> USE DEF LaneType
  <1>1. Lane!LatestGeneration + 1 \in Nat
    BY LatestIs
  <1>2. CASE Lane!Rebind
    <2>1. JobType'
      BY <1>2, EmptyType DEF Lane!Rebind, JobType, Lane!Idle
    <2>2. /\ next' \in [Bindings -> Nat] /\ published' \in [Bindings -> Lane!Envelopes]
          /\ mem' \in [Bindings -> Lane!Threads \cup {None}]
      BY <1>1, <1>2, EmptyType DEF Lane!Rebind, Bindings
    <2> QED
      BY <1>2, <2>1, <2>2 DEF Lane!Rebind, SlotType, ReaderType, Readers,
                              Lane!Reading
  <1>3. CASE Lane!SetClockBack
    BY <1>3 DEF Lane!SetClockBack, SlotType, JobType, ReaderType, Readers,
                Lane!Reading
  <1> QED
    BY <1>2, <1>3

LEMMA NextSlotType ==
  ASSUME NEW r \in Readers, r.slot \in Lane!Slots
  PROVE  /\ Lane!NextSlot(r) \in Readers /\ Lane!NextSlot(r).at = "header"
         /\ Lane!Retry(r) \in Readers /\ Lane!Retry(r).at = "header"
  <1>1. r.slot + 1 \in 0..Lane!SlotCount
    BY DEF Lane!Slots, Lane!SlotCount
  <1>2. r.try # Lane!Tries => r.try + 1 \in 1..Lane!Tries
    BY DEF Readers, Lane!Tries
  <1>3. 1 \in 1..Lane!Tries
    BY DEF Lane!Tries
  <1>4. Lane!NextSlot(r) \in Readers /\ Lane!NextSlot(r).at = "header"
    BY <1>1, <1>3 DEF Lane!NextSlot, Readers
  <1> QED
    BY <1>2, <1>4 DEF Lane!Retry, Readers

LEMMA WritingFinite == ASSUME Lane!ConstantsOK PROVE IsFiniteSet(Lane!Writing)
  <1>1. Lane!Threads \subseteq {"state", "control", "telemetry", "ack"}
    BY DEF Lane!Threads, Lane!ConstantsOK
  <1> DEFINE A == {} \cup {"state"}
             B == A \cup {"control"}
             C == B \cup {"telemetry"}
             D == C \cup {"ack"}
  <1>2. IsFiniteSet(A)
    BY FS_EmptySet, FS_AddElement
  <1>3. IsFiniteSet(B)
    BY <1>2, FS_AddElement
  <1>4. IsFiniteSet(C)
    BY <1>3, FS_AddElement
  <1>5. IsFiniteSet(D)
    BY <1>4, FS_AddElement
  <1>6. Lane!Writing \subseteq D
    BY <1>1 DEF Lane!Writing
  <1> QED
    BY <1>5, <1>6, FS_Subset

(* A read changes the reader, and what it returns, and nothing else.       *)
LEMMA ReadType ==
  ASSUME Lane!ConstantsOK, LaneType,
         Lane!StartRead \/ Lane!ReadHeader \/ Lane!ReadBody \/ Lane!ReadAgain \/ Lane!FinishRead
  PROVE  LaneType'
  <1> USE DEF LaneType
  <1>1. UNCHANGED Lane!Unread
    BY DEF Lane!StartRead, Lane!ReadHeader, Lane!ReadBody, Lane!ReadAgain,
           Lane!FinishRead
  <1>2. /\ SlotType' /\ JobType'
        /\ UNCHANGED <<next, published, mem, lock, laneClock, stamp, version, laneCounts>>
    BY <1>1 DEF Lane!Unread, SlotType, JobType
  <1>3. CASE Lane!StartRead
    <2>1. Lane!Cardinality(Lane!Writing) \in Nat
      BY WritingFinite, FS_CardinalityType DEF Cardinality, Lane!Cardinality
    <2>a. Lane!LatestGeneration \in Nat
      BY LatestIs
    <2>b. reader' = [Lane!Resting EXCEPT !.at = "header", !.floor = Lane!LatestGeneration,
                                         !.laps = Lane!Cardinality(Lane!Writing)]
      BY <1>3 DEF Lane!StartRead
    <2>c. Lane!Resting \in Readers
      BY EmptyType DEF Lane!Resting, Readers, Lane!SlotCount, Lane!Tries
    <2>2. ReaderType'
      <3>1. reader' \in Readers /\ reader'.at = "header"
        BY <2>1, <2>a, <2>b, <2>c DEF Readers
      <3> QED
        BY <3>1 DEF ReaderType
    <2> QED
      BY <1>2, <1>3, <2>2 DEF Lane!StartRead
  <1>4. CASE Lane!ReadHeader
    <2>1. ReaderType'
      BY <1>4, NextSlotType DEF Lane!ReadHeader, ReaderType, Readers,
                                Lane!Reading, SlotType, Lane!Valid
    <2> QED
      BY <1>2, <1>4, <2>1 DEF Lane!ReadHeader
  <1>5. CASE Lane!ReadBody
    <2>a. /\ slot[reader.slot].body[1] \in Lane!Envelopes
          /\ slot[reader.slot].body[2] \in Lane!Envelopes
      BY <1>5 DEF Lane!ReadBody, Lane!Reading, SlotType
    <2>1. ReaderType'
      BY <1>5, <2>a DEF Lane!ReadBody, ReaderType, Readers, Lane!Reading
    <2> QED
      BY <1>2, <1>5, <2>1 DEF Lane!ReadBody
  <1>7. CASE Lane!FinishRead
    <2>1. ReaderType'
      BY <1>7, EmptyType DEF Lane!FinishRead, Lane!Resting, ReaderType,
                             Readers, Lane!Reading, Lane!SlotCount, Lane!Tries
    <2>2. applied' \in [ver : Nat, stamp : Nat]
      BY <1>7 DEF Lane!FinishRead, ReaderType, Readers, Lane!Reading,
                  Lane!Frames, Lane!Envelopes
    <2>3. seen' \in [best : Lane!Frames \cup {None}, floor : Nat, laps : Nat, asOf : Nat]
      BY <1>7 DEF Lane!FinishRead, ReaderType, Readers, Lane!Reading
    <2> QED
      BY <1>2, <1>7, <2>1, <2>2, <2>3
  <1>6. CASE Lane!ReadAgain
    <2> DEFINE taken == [gen |-> reader.first.gen, env |-> reader.half]
               best == IF reader.best = None \/ reader.first.gen > reader.best.gen
                       THEN taken ELSE reader.best
               r == [reader EXCEPT !.best = best]
    <2>0. /\ reader \in Readers /\ reader.slot \in Lane!Slots /\ reader.first \in Lane!Headers
          /\ reader' = Lane!NextSlot(r) \/ reader' = Lane!Retry(reader)
      BY <1>6 DEF Lane!ReadAgain, ReaderType, Lane!Reading
    <2>a. taken \in Lane!Frames
      BY <2>0 DEF Lane!Frames, Lane!Headers, Readers
    <2> HIDE DEF taken
    <2>b. best \in Lane!Frames \cup {None}
      BY <2>0, <2>a DEF Readers
    <2> HIDE DEF best
    <2>c. r \in Readers /\ r.slot \in Lane!Slots
      BY <2>0, <2>b DEF Readers
    <2> HIDE DEF r
    <2>1. ReaderType'
      <3>1. reader' \in Readers /\ reader'.at = "header"
        BY <2>0, <2>c, NextSlotType
      <3> QED
        BY <3>1 DEF ReaderType
    <2> QED
      BY <1>2, <1>6, <2>1 DEF Lane!ReadAgain
  <1> QED
    BY <1>3, <1>4, <1>5, <1>6, <1>7

LEMMA StutterType == ASSUME LaneType, UNCHANGED Lane!vars PROVE LaneType'
  BY DEF Lane!vars, LaneType, SlotType, JobType, ReaderType, Readers,
         Lane!Reading

LEMMA LaneNextType == ASSUME Lane!ConstantsOK, LaneType, [Lane!Next]_Lane!vars PROVE LaneType'
  BY UpdateType, AckType, WriteType, RebindType, ReadType, StutterType
     DEF Lane!Next

-----------------------------------------------------------------------------
(* Whole frames *)

(* A header and the body with its checksum are a frame that was written.   *)
Stored(h) == [gen |-> h.gen, env |-> h.sum] \in laneFrames

WholeInv ==
  /\ \A i \in Lane!Slots : Lane!Valid(slot[i].header)
                        => Stored(slot[i].header) /\ slot[i].header.gen % Lane!SlotCount = i
  /\ reader.at \in {"body", "rest", "again"} => Stored(reader.first)
  /\ reader.best # None => reader.best \in laneFrames
  /\ Lane!NoTornFrame

LEMMA WholeInit == ASSUME Lane!Init PROVE WholeInv
  BY DEF Lane!Init, WholeInv, Lane!Valid, Lane!Resting, Lane!NoTornFrame

(* Every action but the last write of a header leaves headers as they are, *)
(* or makes them invalid, and adds no frame.                               *)
LEMMA WholeWrite ==
  ASSUME Lane!ConstantsOK, LaneType, WholeInv, NEW t \in Lane!Threads,
         Lane!Number(t) \/ Lane!BodyFirst(t) \/ Lane!BodyRest(t) \/ Lane!HeaderFirst(t) \/ Lane!HeaderRest(t)
  PROVE  WholeInv'
  <1>i. Lane!SlotOf(t) \in Lane!Slots /\ job[t].gen \in Nat /\ job[t].env \in Lane!Envelopes
    BY SlotOfType DEF LaneType
  <1>1. CASE Lane!Number(t)
    BY <1>1 DEF Lane!Number, WholeInv, Stored, Lane!NoTornFrame
  <1>2. CASE Lane!BodyFirst(t)
    <2>1. \A i \in Lane!Slots : slot'[i].header = slot[i].header
      BY <1>2, <1>i DEF Lane!BodyFirst, LaneType, SlotType
    <2>2. /\ UNCHANGED <<laneFrames, seen>> /\ reader'.at = reader.at
          /\ reader'.first = reader.first /\ reader'.best = reader.best
      BY <1>2 DEF Lane!BodyFirst, LaneType, ReaderType, Readers
    <2> QED
      BY <2>1, <2>2 DEF WholeInv, Stored, Lane!NoTornFrame
  <1>3. CASE Lane!BodyRest(t)
    <2>1. \A i \in Lane!Slots : slot'[i].header = slot[i].header
      BY <1>3, <1>i DEF Lane!BodyRest, LaneType, SlotType
    <2> QED
      BY <1>3, <2>1 DEF Lane!BodyRest, WholeInv, Stored, Lane!NoTornFrame
  <1>4. CASE Lane!HeaderFirst(t)
    <2>1. \A i \in Lane!Slots : slot'[i].header = Torn \/ slot'[i].header = slot[i].header
      BY <1>4, <1>i DEF Lane!HeaderFirst, LaneType, SlotType
    <2> QED
      BY <1>4, <2>1 DEF Lane!HeaderFirst, WholeInv, Stored, Lane!NoTornFrame,
                        Lane!Valid
  <1>5. CASE Lane!HeaderRest(t)
    <2> DEFINE h == [gen |-> job[t].gen, sum |-> job[t].env]
               f == [gen |-> job[t].gen, env |-> job[t].env]
    <2>1. \A i \in Lane!Slots : slot'[i].header = IF i = Lane!SlotOf(t) THEN h ELSE slot[i].header
      BY <1>5, <1>i DEF Lane!HeaderRest, LaneType, SlotType
    <2>2. laneFrames' = laneFrames \cup {f} /\ UNCHANGED <<reader, seen>>
      BY <1>5 DEF Lane!HeaderRest
    <2>3. h.gen % Lane!SlotCount = Lane!SlotOf(t) /\ [gen |-> h.gen, env |-> h.sum] \in laneFrames'
      BY <2>2 DEF Lane!SlotOf
    <2> HIDE DEF h, f
    <2> QED
      BY <2>1, <2>2, <2>3 DEF WholeInv, Stored, Lane!NoTornFrame
  <1> QED
    BY <1>1, <1>2, <1>3, <1>4, <1>5

LEMMA WholeRead ==
  ASSUME Lane!ConstantsOK, LaneType, WholeInv,
         Lane!StartRead \/ Lane!ReadHeader \/ Lane!ReadBody \/ Lane!ReadAgain \/ Lane!FinishRead
  PROVE  WholeInv'
  <1>1. UNCHANGED <<slot, laneFrames>>
    BY DEF Lane!StartRead, Lane!ReadHeader, Lane!ReadBody, Lane!ReadAgain,
           Lane!FinishRead, Lane!Unread
  <1>r. reader \in Readers
    BY DEF LaneType, ReaderType
  <1>b. /\ Lane!Retry(reader).at = "header" /\ Lane!Retry(reader).best = reader.best
        /\ Lane!NextSlot(reader).best = reader.best
    BY <1>r DEF Lane!Retry, Lane!NextSlot, Readers
  <1>2. CASE Lane!StartRead
    BY <1>1, <1>2 DEF Lane!StartRead, Lane!Resting, WholeInv, Stored,
                      Lane!NoTornFrame
  <1>3. CASE Lane!ReadHeader
    BY <1>1, <1>3, <1>b, <1>r DEF Lane!ReadHeader, Lane!Reading, WholeInv,
                                  Stored, Lane!NoTornFrame, Readers
  <1>4. CASE Lane!ReadBody
    BY <1>1, <1>4, <1>r DEF Lane!ReadBody, WholeInv, Stored, Lane!NoTornFrame,
                            Readers
  <1>5. CASE Lane!ReadAgain
    <2> DEFINE taken == [gen |-> reader.first.gen, env |-> reader.half]
    <2>1. CASE slot[reader.slot].header = reader.first /\ Lane!ChecksumHolds(reader)
      <3>1. taken \in laneFrames
        BY <1>5, <2>1 DEF Lane!ReadAgain, WholeInv, Stored, Lane!ChecksumHolds
      <3>2. reader'.at = "header" /\ reader'.best \in {taken, reader.best}
        BY <1>5, <2>1, <1>r DEF Lane!ReadAgain, Lane!NextSlot, Readers
      <3> QED
        BY <1>1, <1>5, <3>1, <3>2 DEF Lane!ReadAgain, WholeInv, Stored,
                                      Lane!NoTornFrame
    <2>2. CASE ~(slot[reader.slot].header = reader.first /\ Lane!ChecksumHolds(reader))
      BY <1>1, <1>5, <1>b, <2>2 DEF Lane!ReadAgain, WholeInv, Stored,
                                    Lane!NoTornFrame
    <2> QED
      BY <2>1, <2>2
  <1>6. CASE Lane!FinishRead
    BY <1>1, <1>6 DEF Lane!FinishRead, Lane!Resting, WholeInv, Stored,
                      Lane!NoTornFrame
  <1> QED
    BY <1>2, <1>3, <1>4, <1>5, <1>6

LEMMA WholeNext ==
  ASSUME Lane!ConstantsOK, LaneType, WholeInv, [Lane!Next]_Lane!vars PROVE WholeInv'
  <1>1. CASE \E t \in Publishers : Lane!Update(t)
    BY <1>1 DEF Lane!Update, WholeInv, Stored, Lane!NoTornFrame
  <1>2. CASE Lane!AttachAck \/ Lane!Rebind \/ Lane!SetClockBack \/ UNCHANGED Lane!vars
    BY <1>2 DEF Lane!AttachAck, Lane!Rebind, Lane!SetClockBack, Lane!vars,
                WholeInv, Stored, Lane!NoTornFrame
  <1> QED
    BY <1>1, <1>2, WholeWrite, WholeRead DEF Lane!Next

(* The lane's state keeps its type, and slot i holds only generations of   *)
(* its own parity: write_frame's choice of a slot never mixes them.        *)
THEOREM LaneTypeCorrect == ASSUME Lane!ConstantsOK PROVE Lane!Spec => []Lane!TypeOK
  <1>1. LaneType /\ WholeInv => Lane!TypeOK
    BY DEF LaneType, WholeInv, Lane!TypeOK, ReaderType, Readers, Lane!Valid,
           Bindings
  <1> QED
    BY <1>1, LaneInitType, LaneNextType, WholeInit, WholeNext, PTL
       DEF Lane!Spec

(* What read_lane returns was published, as a whole and under that         *)
(* generation, for any threads, bindings, deaths of the writer and numbers *)
(* of publications: the checksum and the second look at the header are     *)
(* enough without a lock.                                                  *)
THEOREM FramesAreWhole == ASSUME Lane!ConstantsOK PROVE Lane!Spec => []Lane!NoTornFrame
  <1>1. WholeInv => Lane!NoTornFrame
    BY DEF WholeInv
  <1> QED
    BY <1>1, LaneInitType, LaneNextType, WholeInit, WholeNext, PTL
       DEF Lane!Spec

-----------------------------------------------------------------------------
(* A regular register *)

(* The lane of the UI: publish_state and publish_control run under the     *)
(* state lock, through one binding of one process, and an envelope without *)
(* telemetry fits its slot.                                                *)
UiLane == Locked = Publishers /\ BigFrames = {} /\ MaxLaneAcks = 0 /\ MaxRebinds = 0

Started == {"body", "rest", "header", "commit"}

(* One publication at a time, with the newest generation.                  *)
LaneAlone == \A t \in Lane!Threads : job[t].at # "idle" => t # "ack" /\ lock = t
Numbered ==
  /\ next["live"] >= 1
  /\ \A t \in Lane!Threads : job[t].at \in Started
                           => job[t].gen = next["live"] - 1 /\ job[t].gen >= 1

(* The generation of the newest complete frame.                            *)
Busy == \E t \in Lane!Threads : job[t].at \in Started
Done == next["live"] - (IF Busy THEN 2 ELSE 1)

(* Slot g % 2 holds frame g, header and body.                              *)
WholeAt(g) ==
  /\ Lane!Valid(slot[g % Lane!SlotCount].header) /\ slot[g % Lane!SlotCount].header.gen = g
  /\ slot[g % Lane!SlotCount].body[1] = slot[g % Lane!SlotCount].header.sum
  /\ slot[g % Lane!SlotCount].body[2] = slot[g % Lane!SlotCount].header.sum

(* The newest frame is whole, and the one before it until the slot is      *)
(* taken for the next.                                                     *)
TwoFrames ==
  /\ \A i \in Lane!Slots : Lane!Valid(slot[i].header) => slot[i].header.gen <= Done
  /\ Done > 0 => WholeAt(Done)
  /\ Lane!Writing = {} /\ Done > 1 => WholeAt(Done - 1)

(* How much of its body a writer has written.                              *)
Progress ==
  \A t \in Lane!Threads :
    /\ job[t].at \in {"rest", "header", "commit"} => slot[Lane!SlotOf(t)].body[1] = job[t].env
    /\ job[t].at \in {"header", "commit"} => slot[Lane!SlotOf(t)].body[2] = job[t].env

(* A reader that one write at most has overlapped: the frame that was the  *)
(* newest when it began is still there, and it has found it or will.       *)
Overlap ==
  /\ reader.laps = 0 => Done = reader.floor /\ Lane!Writing = {}
  /\ reader.laps = 1 => \/ Done = reader.floor
                        \/ Done = reader.floor + 1 /\ Lane!Writing = {}
FloorSlot == reader.floor % Lane!SlotCount
LaneFound ==
  /\ reader.slot = FloorSlot =>
       /\ reader.try = 1
       /\ reader.at \in {"body", "rest", "again"} => reader.first = slot[FloorSlot].header
       /\ reader.at \in {"rest", "again"} => reader.half = slot[FloorSlot].header.sum
       /\ reader.at = "again" => reader.rest = slot[FloorSlot].header.sum
  /\ reader.slot > FloorSlot => reader.best # None /\ reader.best.gen >= reader.floor
Tracked ==
  reader.at # "idle" /\ reader.floor > 0 /\ reader.laps <= 1 => Overlap /\ LaneFound

(* The binding's envelope is what is written, or what was written last.    *)
Current ==
  /\ \A t \in Lane!Threads : job[t].at # "idle" => job[t].env = published["live"]
  /\ (\A t \in Lane!Threads : job[t].at = "idle") /\ Done > 0
       => slot[Done % Lane!SlotCount].header.sum = published["live"]
  /\ published["live"].state.ver >= version
  /\ published["live"].state.ver <= laneCounts.pub

RegisterInv ==
  /\ LaneAlone /\ Numbered /\ TwoFrames /\ Progress
  /\ Tracked /\ Current /\ Lane!ReadIsRegular

LEMMA Parity ==
  ASSUME NEW g \in Nat
  PROVE  /\ g % Lane!SlotCount \in Lane!Slots /\ (g + 1) % Lane!SlotCount \in Lane!Slots
         /\ (g + 1) % Lane!SlotCount # g % Lane!SlotCount
  BY DEF Lane!SlotCount, Lane!Slots

LEMMA Solo ==
  ASSUME Lane!ConstantsOK, LaneAlone, NEW t \in Lane!Threads, job[t].at # "idle"
  PROVE  /\ t # "ack" /\ Lane!Binding(t) = "live" /\ lock = t
         /\ \A u \in Lane!Threads : u # t => job[u].at = "idle"
         /\ Busy <=> job[t].at \in Started
         /\ Lane!Writing = {} <=> job[t].at \notin {"rest", "header", "commit"}
  BY DEF LaneAlone, Lane!Binding, Busy, Started, Lane!Writing

LEMMA Nobody ==
  ASSUME Lane!ConstantsOK, LaneAlone, lock = None
  PROVE  \A u \in Lane!Threads : job[u].at = "idle"
  BY DEF LaneAlone, Lane!ConstantsOK

LEMMA RegisterInit == ASSUME Lane!ConstantsOK, Lane!Init PROVE RegisterInv
  <1>0. /\ job = [t \in Lane!Threads |-> Lane!Idle] /\ next["live"] = 1
        /\ \A t \in Lane!Threads : job[t].at = "idle"
    BY DEF Lane!Init, Lane!Idle
  <1>1. LaneAlone /\ Numbered /\ Progress
    BY <1>0 DEF LaneAlone, Numbered, Progress, Started
  <1>2. Done = 0 /\ \A i \in Lane!Slots : ~Lane!Valid(slot[i].header)
    BY <1>0 DEF Done, Busy, Started, Lane!Init, Lane!Valid
  <1>3. TwoFrames
    BY <1>2 DEF TwoFrames
  <1>4. Tracked /\ Lane!ReadIsRegular
    BY DEF Lane!Init, Lane!Resting, Tracked, Lane!ReadIsRegular
  <1>5. Current
    BY <1>0, <1>2 DEF Lane!Init, Current, Lane!Empty, Lane!NoState
  <1> QED
    BY <1>1, <1>3, <1>4, <1>5 DEF RegisterInv

LEMMA RegisterUpdate ==
  ASSUME Lane!ConstantsOK, UiLane, LaneType, RegisterInv, NEW t \in Publishers, Lane!Update(t)
  PROVE  RegisterInv'
  <1> USE DEF RegisterInv
  <1> DEFINE n == laneCounts.pub + 1
             new == IF t = "state"
                    THEN [published["live"] EXCEPT !.state = [ver |-> n, stamp |-> Lane!NextStamp]]
                    ELSE [published["live"] EXCEPT !.other = n]
  <1>1. /\ t # "ack" /\ t \in Lane!Threads /\ lock = None /\ lock' = t
        /\ published' = [published EXCEPT !["live"] = new]
        /\ job' = [job EXCEPT ![t] = [at |-> "number", env |-> new, gen |-> 0]]
        /\ laneCounts' = [laneCounts EXCEPT !.pub = n]
        /\ UNCHANGED <<slot, next, version, reader, seen>>
    BY DEF Lane!Update, UiLane, Lane!Threads
  <1>2. \A u \in Lane!Threads : job[u].at = "idle"
    BY <1>1, Nobody
  <1>3. /\ job'[t].at = "number" /\ job'[t].env = new
        /\ \A u \in Lane!Threads \ {t} : job'[u].at = "idle"
    BY <1>1, <1>2 DEF LaneType, JobType
  <1>4. published'["live"] = new /\ published["live"] \in Lane!Envelopes
    BY <1>1 DEF LaneType, Bindings
  <1>5. /\ laneCounts'.pub = n /\ laneCounts.pub \in Nat
        /\ new.state.ver = IF t = "state" THEN n ELSE published["live"].state.ver
    BY <1>1, <1>4 DEF LaneType, Lane!Envelopes
  <1> HIDE DEF new
  <1>6. Busy = FALSE /\ Busy' = FALSE /\ Lane!Writing = {} /\ Lane!Writing' = {}
    BY <1>2, <1>3 DEF Busy, Started, Lane!Writing
  <1>7. Done' = Done
    BY <1>1, <1>6 DEF Done
  <1>8. LaneAlone' /\ Numbered'
    BY <1>1, <1>3 DEF LaneAlone, Numbered, Started
  <1>9. TwoFrames'
    BY <1>1, <1>6, <1>7 DEF TwoFrames, WholeAt
  <1>10. Progress'
    BY <1>3 DEF Progress
  <1>11. Tracked' /\ Lane!ReadIsRegular'
    BY <1>1, <1>6, <1>7 DEF Tracked, Overlap, LaneFound, FloorSlot,
                            Lane!ReadIsRegular
  <1>12. Current'
    <2>1. \A u \in Lane!Threads : job'[u].at # "idle" => job'[u].env = published'["live"]
      BY <1>3, <1>4
    <2>2. ~(\A u \in Lane!Threads : job'[u].at = "idle")
      BY <1>1, <1>3
    <2>3. published["live"].state.ver \in Nat /\ version \in Nat /\ version' = version
      BY <1>1, <1>4 DEF Lane!Envelopes, LaneType
    <2>4. new.state.ver >= version /\ new.state.ver <= n
      BY <1>5, <2>3 DEF Current
    <2> QED
      BY <1>4, <1>5, <2>1, <2>2, <2>3, <2>4 DEF Current
  <1> QED
    BY <1>8, <1>9, <1>10, <1>11, <1>12

LEMMA RegisterNumber ==
  ASSUME Lane!ConstantsOK, UiLane, LaneType, RegisterInv, NEW t \in Lane!Threads, Lane!Number(t)
  PROVE  RegisterInv'
  <1> USE DEF RegisterInv
  <1>0. /\ job[t].at = "number" /\ Lane!Binding(t) = "live" /\ t # "ack" /\ lock = t
        /\ \A u \in Lane!Threads : u # t => job[u].at = "idle"
        /\ Busy = FALSE /\ Lane!Writing = {}
    BY Solo DEF Lane!Number, Started, Busy
  <1>1. /\ next' = [next EXCEPT !["live"] = @ + 1] /\ next["live"] \in Nat
        /\ job' = [job EXCEPT ![t].at = "body", ![t].gen = next["live"]]
        /\ UNCHANGED <<lock, slot, published, version, reader, seen, laneCounts>>
    BY <1>0 DEF Lane!Number, UiLane, LaneType, Bindings
  <1>2. next'["live"] = next["live"] + 1
    BY <1>1 DEF LaneType, Bindings
  <1>3. /\ job'[t].at = "body" /\ job'[t].gen = next["live"] /\ job'[t].env = job[t].env
        /\ \A u \in Lane!Threads \ {t} : job'[u].at = "idle"
    BY <1>0, <1>1 DEF LaneType, JobType
  <1>4. Busy' = TRUE /\ Lane!Writing' = {}
    BY <1>3 DEF Busy, Started, Lane!Writing
  <1>5. Done' = Done
    BY <1>0, <1>1, <1>2, <1>4 DEF Done
  <1>6. LaneAlone'
    BY <1>0, <1>1, <1>3 DEF LaneAlone
  <1>a. Numbered'
    <2>1. \A u \in Lane!Threads : job'[u].at \in Started => u = t
      BY <1>3 DEF Started
    <2>2. next["live"] >= 1
      BY DEF Numbered
    <2>3. /\ job'[t].gen = next'["live"] - 1 /\ job'[t].gen >= 1
          /\ next'["live"] >= 1
      BY <1>1, <1>2, <1>3, <2>2
    <2> QED
      BY <2>1, <2>3 DEF Numbered
  <1>7. TwoFrames'
    BY <1>0, <1>1, <1>4, <1>5 DEF TwoFrames, WholeAt
  <1>8. Progress'
    BY <1>3 DEF Progress
  <1>9. Tracked' /\ Lane!ReadIsRegular'
    BY <1>0, <1>1, <1>4, <1>5 DEF Tracked, Overlap, LaneFound, FloorSlot,
                                  Lane!ReadIsRegular
  <1>10. Current'
    BY <1>0, <1>1, <1>3 DEF Current
  <1> QED
    BY <1>6, <1>a, <1>7, <1>8, <1>9, <1>10

(* A writer's place in the lane: its slot is not that of the newest frame. *)
LEMMA Writer ==
  ASSUME Lane!ConstantsOK, LaneType, RegisterInv, NEW t \in Lane!Threads, job[t].at \in Started
  PROVE  /\ t # "ack" /\ Lane!Binding(t) = "live" /\ lock = t
         /\ \A u \in Lane!Threads : u # t => job[u].at = "idle"
         /\ Busy = TRUE
         /\ Lane!Writing = {} <=> job[t].at = "body"
         /\ Done \in Nat /\ job[t].gen = Done + 1 /\ next["live"] = Done + 2
         /\ Lane!SlotOf(t) \in Lane!Slots /\ Done % Lane!SlotCount \in Lane!Slots
         /\ Lane!SlotOf(t) = (Done + 1) % Lane!SlotCount /\ Lane!SlotOf(t) # Done % Lane!SlotCount
         /\ job[t].env = published["live"]
  <1>1. job[t].at # "idle" /\ LaneAlone
    BY DEF RegisterInv, Started
  <1>2. /\ t # "ack" /\ Lane!Binding(t) = "live" /\ lock = t
        /\ \A u \in Lane!Threads : u # t => job[u].at = "idle"
        /\ Busy = TRUE
        /\ Lane!Writing = {} <=> job[t].at = "body"
    BY <1>1, Solo DEF Started, Busy
  <1>3. /\ job[t].gen = next["live"] - 1 /\ job[t].gen >= 1
        /\ next["live"] \in Nat
    BY DEF RegisterInv, Numbered, LaneType, Bindings
  <1>4. Done \in Nat /\ job[t].gen = Done + 1 /\ next["live"] = Done + 2
    BY <1>2, <1>3 DEF Done
  <1>5. Lane!SlotOf(t) = (Done + 1) % Lane!SlotCount
    BY <1>4 DEF Lane!SlotOf
  <1>6. job[t].env = published["live"]
    BY <1>1 DEF RegisterInv, Current
  <1> QED
    BY <1>2, <1>4, <1>5, <1>6, Parity

(* The frame that was the newest when the read began is still in its slot. *)
LEMMA FloorWhole ==
  ASSUME LaneType, RegisterInv, reader.at # "idle", reader.floor > 0, reader.laps <= 1
  PROVE  WholeAt(reader.floor) /\ FloorSlot \in Lane!Slots
  <1>1. reader.floor \in Nat /\ reader.laps \in {0, 1}
    BY DEF LaneType, ReaderType, Readers
  <1>2. Overlap
    BY DEF RegisterInv, Tracked
  <1>3. CASE Done = reader.floor
    BY <1>1, <1>3, Parity DEF RegisterInv, TwoFrames, FloorSlot
  <1>4. CASE Done = reader.floor + 1 /\ Lane!Writing = {}
    <2>1. Done - 1 = reader.floor /\ Done > 1
      BY <1>1, <1>4
    <2> QED
      BY <1>1, <1>4, <2>1, Parity DEF RegisterInv, TwoFrames, FloorSlot
  <1> QED
    BY <1>1, <1>2, <1>3, <1>4 DEF Overlap

LEMMA RegisterBodyFirst ==
  ASSUME Lane!ConstantsOK, UiLane, LaneType, RegisterInv, NEW t \in Lane!Threads, Lane!BodyFirst(t)
  PROVE  RegisterInv'
  <1> USE DEF RegisterInv
  <1>0. job[t].at = "body" /\ job[t].at \in Started
    BY DEF Lane!BodyFirst, Started
  <1>w. /\ t # "ack" /\ lock = t
        /\ \A u \in Lane!Threads : u # t => job[u].at = "idle"
        /\ Busy = TRUE /\ Lane!Writing = {}
        /\ Done \in Nat /\ job[t].gen = Done + 1 /\ next["live"] = Done + 2
        /\ Lane!SlotOf(t) \in Lane!Slots /\ Done % Lane!SlotCount \in Lane!Slots
        /\ Lane!SlotOf(t) # Done % Lane!SlotCount
    BY <1>0, Writer
  <1>1. /\ \A i \in Lane!Slots : slot'[i].header = slot[i].header
        /\ \A i \in Lane!Slots : i # Lane!SlotOf(t) => slot'[i] = slot[i]
        /\ slot'[Lane!SlotOf(t)].body[1] = job[t].env
    BY <1>w DEF Lane!BodyFirst, LaneType, SlotType
  <1>2. /\ job'[t].at = "rest" /\ job'[t].gen = job[t].gen /\ job'[t].env = job[t].env
        /\ \A u \in Lane!Threads \ {t} : job'[u].at = "idle"
    BY <1>w DEF Lane!BodyFirst, LaneType, JobType
  <1>3. UNCHANGED <<lock, next, published, version, seen, laneCounts>>
    BY DEF Lane!BodyFirst
  <1>4. Busy' = TRUE /\ Lane!Writing' # {}
    BY <1>2 DEF Busy, Started, Lane!Writing
  <1>5. Done' = Done
    BY <1>w, <1>3, <1>4 DEF Done
  <1>6. LaneAlone'
    BY <1>w, <1>2, <1>3 DEF LaneAlone
  <1>7. Numbered'
    <2>1. \A u \in Lane!Threads : job'[u].at \in Started => u = t
      BY <1>2 DEF Started
    <2> QED
      BY <1>0, <1>2, <1>3, <2>1 DEF Numbered
  <1>8. TwoFrames'
    BY <1>w, <1>1, <1>4, <1>5 DEF TwoFrames, WholeAt
  <1>9. Progress'
    <2>1. Lane!SlotOf(t)' = Lane!SlotOf(t)
      BY <1>2 DEF Lane!SlotOf
    <2> QED
      BY <1>1, <1>2, <2>1 DEF Progress
  <1>10. Tracked' /\ Lane!ReadIsRegular'
    <2>0. reader \in Readers
      BY DEF LaneType, ReaderType
    <2>1. reader' = [reader EXCEPT !.laps = IF reader.at = "idle" THEN @ ELSE @ + 1]
      BY DEF Lane!BodyFirst
    <2>2. /\ reader'.at = reader.at /\ reader'.floor = reader.floor
          /\ reader'.slot = reader.slot /\ reader'.try = reader.try
          /\ reader'.first = reader.first /\ reader'.half = reader.half
          /\ reader'.rest = reader.rest /\ reader'.best = reader.best
          /\ reader.at # "idle" => reader'.laps = reader.laps + 1
          /\ reader.laps \in Nat
      BY <2>0, <2>1 DEF Readers
    <2>3. ASSUME reader'.at # "idle", reader'.floor > 0, reader'.laps <= 1
          PROVE  Overlap' /\ LaneFound'
      <3>1. reader.laps = 0 /\ reader'.laps = 1
        BY <2>2, <2>3
      <3>2. Overlap /\ LaneFound
        BY <2>2, <2>3, <3>1 DEF Tracked
      <3>3. Done = reader.floor
        BY <3>1, <3>2 DEF Overlap
      <3>4. FloorSlot' = FloorSlot /\ slot'[FloorSlot] = slot[FloorSlot]
        BY <1>w, <1>1, <2>2, <3>3 DEF FloorSlot
      <3>5. Overlap'
        BY <1>5, <2>2, <3>1, <3>3 DEF Overlap
      <3>6. LaneFound'
        BY <2>2, <3>2, <3>4 DEF LaneFound
      <3> QED
        BY <3>5, <3>6
    <2> QED
      BY <1>3, <2>3 DEF Tracked, Lane!ReadIsRegular
  <1>11. Current'
    BY <1>0, <1>2, <1>3 DEF Current
  <1> QED
    BY <1>6, <1>7, <1>8, <1>9, <1>10, <1>11

(* The rest of the body, and the header taken apart: both leave the other  *)
(* slot alone.                                                             *)
LEMMA RegisterBetween ==
  ASSUME Lane!ConstantsOK, UiLane, LaneType, RegisterInv, NEW t \in Lane!Threads,
         Lane!BodyRest(t) \/ Lane!HeaderFirst(t)
  PROVE  RegisterInv'
  <1> USE DEF RegisterInv
  <1>0. job[t].at \in {"rest", "header"} /\ job[t].at \in Started
    BY DEF Lane!BodyRest, Lane!HeaderFirst, Started
  <1>w. /\ t # "ack" /\ lock = t
        /\ \A u \in Lane!Threads : u # t => job[u].at = "idle"
        /\ Busy = TRUE /\ Lane!Writing # {}
        /\ Done \in Nat /\ job[t].gen = Done + 1 /\ next["live"] = Done + 2
        /\ Lane!SlotOf(t) \in Lane!Slots /\ Done % Lane!SlotCount \in Lane!Slots
        /\ Lane!SlotOf(t) # Done % Lane!SlotCount
    BY <1>0, Writer
  <1>1. /\ \A i \in Lane!Slots : slot'[i].header = Torn \/ slot'[i].header = slot[i].header
        /\ \A i \in Lane!Slots : i # Lane!SlotOf(t) => slot'[i] = slot[i]
    BY <1>w DEF Lane!BodyRest, Lane!HeaderFirst, LaneType, SlotType
  <1>b. slot'[Lane!SlotOf(t)].body[1] = job[t].env /\ slot'[Lane!SlotOf(t)].body[2] = job[t].env
    <2>1. CASE Lane!BodyRest(t)
      BY <1>w, <2>1 DEF Lane!BodyRest, LaneType, SlotType, Progress
    <2>2. CASE Lane!HeaderFirst(t)
      BY <1>w, <2>2 DEF Lane!HeaderFirst, LaneType, SlotType, Progress
    <2> QED
      BY <2>1, <2>2
  <1>2. /\ job'[t].at \in {"header", "commit"}
        /\ job'[t].gen = job[t].gen /\ job'[t].env = job[t].env
        /\ \A u \in Lane!Threads \ {t} : job'[u].at = "idle"
    BY <1>w DEF Lane!BodyRest, Lane!HeaderFirst, LaneType, JobType
  <1>3. UNCHANGED <<lock, next, published, version, reader, seen, laneCounts>>
    BY DEF Lane!BodyRest, Lane!HeaderFirst
  <1>4. Busy' = TRUE /\ Lane!Writing' # {}
    BY <1>2 DEF Busy, Started, Lane!Writing
  <1>5. Done' = Done
    BY <1>w, <1>3, <1>4 DEF Done
  <1>6. LaneAlone'
    BY <1>w, <1>2, <1>3 DEF LaneAlone
  <1>7. Numbered'
    <2>1. \A u \in Lane!Threads : job'[u].at \in Started => u = t
      BY <1>2 DEF Started
    <2> QED
      BY <1>0, <1>2, <1>3, <2>1 DEF Numbered
  <1>8. TwoFrames'
    BY <1>w, <1>1, <1>4, <1>5 DEF TwoFrames, WholeAt, Lane!Valid
  <1>9. Progress'
    <2>1. Lane!SlotOf(t)' = Lane!SlotOf(t)
      BY <1>2 DEF Lane!SlotOf
    <2> QED
      BY <1>b, <1>2, <2>1 DEF Progress
  <1>10. Tracked' /\ Lane!ReadIsRegular'
    <2>3. ASSUME reader.at # "idle", reader.floor > 0, reader.laps <= 1
          PROVE  Overlap' /\ LaneFound'
      <3>1. reader.laps \in {0, 1}
        BY <2>3 DEF LaneType, ReaderType, Readers
      <3>2. Overlap /\ LaneFound
        BY <2>3 DEF Tracked
      <3>3. Done = reader.floor /\ reader.laps = 1
        BY <1>w, <3>1, <3>2 DEF Overlap
      <3>4. FloorSlot' = FloorSlot /\ slot'[FloorSlot] = slot[FloorSlot]
        BY <1>w, <1>1, <1>3, <3>3 DEF FloorSlot
      <3>5. Overlap'
        BY <1>3, <1>5, <3>3 DEF Overlap
      <3>6. LaneFound'
        BY <1>3, <3>2, <3>4 DEF LaneFound
      <3> QED
        BY <3>5, <3>6
    <2> QED
      BY <1>3, <2>3 DEF Tracked, Lane!ReadIsRegular
  <1>11. Current'
    BY <1>0, <1>2, <1>3 DEF Current
  <1> QED
    BY <1>6, <1>7, <1>8, <1>9, <1>10, <1>11

LEMMA RegisterHeaderRest ==
  ASSUME Lane!ConstantsOK, UiLane, LaneType, RegisterInv, NEW t \in Lane!Threads, Lane!HeaderRest(t)
  PROVE  RegisterInv'
  <1> USE DEF RegisterInv
  <1>0. job[t].at = "commit" /\ job[t].at \in Started
    BY DEF Lane!HeaderRest, Started
  <1>w. /\ t # "ack" /\ lock = t
        /\ \A u \in Lane!Threads : u # t => job[u].at = "idle"
        /\ Busy = TRUE /\ Lane!Writing # {}
        /\ Done \in Nat /\ job[t].gen = Done + 1 /\ next["live"] = Done + 2
        /\ Lane!SlotOf(t) \in Lane!Slots /\ Done % Lane!SlotCount \in Lane!Slots
        /\ Lane!SlotOf(t) = (Done + 1) % Lane!SlotCount /\ Lane!SlotOf(t) # Done % Lane!SlotCount
        /\ job[t].env = published["live"]
    BY <1>0, Writer
  <1>g. job[t].env \in Lane!Envelopes /\ job[t].gen \in Nat
    BY SlotOfType DEF LaneType
  <1>1. /\ slot'[Lane!SlotOf(t)].header = [gen |-> job[t].gen, sum |-> job[t].env]
        /\ slot'[Lane!SlotOf(t)].body = slot[Lane!SlotOf(t)].body
        /\ \A i \in Lane!Slots : i # Lane!SlotOf(t) => slot'[i] = slot[i]
    BY <1>w DEF Lane!HeaderRest, LaneType, SlotType
  <1>2. \A u \in Lane!Threads : job'[u].at = "idle"
    BY <1>w DEF Lane!HeaderRest, LaneType, JobType, Lane!Idle
  <1>3. /\ UNCHANGED <<next, published, reader, seen, laneCounts>>
        /\ version' = IF t = "state" THEN job[t].env.state.ver ELSE version
    BY DEF Lane!HeaderRest
  <1>4. Busy' = FALSE /\ Lane!Writing' = {}
    BY <1>2 DEF Busy, Started, Lane!Writing
  <1>5. Done' = Done + 1
    BY <1>w, <1>3, <1>4 DEF Done
  <1>v. Lane!Valid([gen |-> job[t].gen, sum |-> job[t].env])
    BY <1>g DEF Lane!Valid, Lane!ConstantsOK, Lane!Headers
  <1>6. WholeAt(Done)'
    <2>1. /\ slot[Lane!SlotOf(t)].body[1] = job[t].env
          /\ slot[Lane!SlotOf(t)].body[2] = job[t].env
      BY <1>0 DEF Progress
    <2> QED
      BY <1>w, <1>1, <1>5, <1>v, <2>1 DEF WholeAt
  <1>7. LaneAlone' /\ Numbered' /\ Progress'
    BY <1>2, <1>3 DEF LaneAlone, Numbered, Progress, Started
  <1>8. TwoFrames'
    <2>1. \A i \in Lane!Slots : Lane!Valid(slot'[i].header) => slot'[i].header.gen <= Done'
      <3>1. slot'[Lane!SlotOf(t)].header.gen = Done + 1
        BY <1>w, <1>1
      <3>2. \A i \in Lane!Slots : i # Lane!SlotOf(t) /\ Lane!Valid(slot[i].header)
                                  => slot[i].header.gen <= Done /\ slot[i].header.gen \in Nat
        BY DEF TwoFrames, LaneType, SlotType, Lane!Headers, Lane!Valid
      <3> QED
        BY <1>w, <1>1, <1>5, <3>1, <3>2
    <2>2. Done' > 1 => WholeAt(Done - 1)'
      <3>1. SUFFICES ASSUME Done > 0 PROVE WholeAt(Done - 1)'
        BY <1>w, <1>5
      <3>2. WholeAt(Done) /\ Done' - 1 = Done
        BY <1>w, <1>5, <3>1 DEF TwoFrames
      <3>3. slot'[Done % Lane!SlotCount] = slot[Done % Lane!SlotCount]
        BY <1>w, <1>1
      <3> QED
        BY <3>2, <3>3 DEF WholeAt
    <2> QED
      BY <1>6, <2>1, <2>2 DEF TwoFrames, Lane!Valid
  <1>10. Tracked' /\ Lane!ReadIsRegular'
    <2>3. ASSUME reader.at # "idle", reader.floor > 0, reader.laps <= 1
          PROVE  Overlap' /\ LaneFound'
      <3>1. reader.laps \in {0, 1}
        BY <2>3 DEF LaneType, ReaderType, Readers
      <3>2. Overlap /\ LaneFound
        BY <2>3 DEF Tracked
      <3>3. Done = reader.floor /\ reader.laps = 1
        BY <1>w, <3>1, <3>2 DEF Overlap
      <3>4. FloorSlot' = FloorSlot /\ slot'[FloorSlot] = slot[FloorSlot]
        BY <1>w, <1>1, <1>3, <3>3 DEF FloorSlot
      <3>5. Overlap'
        BY <1>3, <1>4, <1>5, <3>3 DEF Overlap
      <3>6. LaneFound'
        BY <1>3, <3>2, <3>4 DEF LaneFound
      <3> QED
        BY <3>5, <3>6
    <2> QED
      BY <1>3, <2>3 DEF Tracked, Lane!ReadIsRegular
  <1>11. Current'
    <2>1. slot'[Done' % Lane!SlotCount].header.sum = published'["live"]
      BY <1>w, <1>1, <1>3, <1>5
    <2>2. published["live"].state.ver \in Nat
      BY <1>w, <1>g DEF Lane!Envelopes
    <2> QED
      BY <1>w, <1>2, <1>3, <2>1, <2>2 DEF Current
  <1> QED
    BY <1>7, <1>8, <1>10, <1>11

(* A read changes nothing of the lane.                                     *)
LEMMA RegisterReadFrame ==
  ASSUME RegisterInv, UNCHANGED Lane!Unread
  PROVE  /\ LaneAlone' /\ Numbered' /\ TwoFrames' /\ Progress' /\ Current'
         /\ Done' = Done /\ Lane!Writing' = Lane!Writing /\ UNCHANGED slot
  BY DEF RegisterInv, Lane!Unread, LaneAlone, Numbered, TwoFrames, Progress,
         Current, Done, Busy, Started, Lane!Writing, WholeAt, Lane!SlotOf

LEMMA RegisterStartRead ==
  ASSUME Lane!ConstantsOK, UiLane, LaneType, RegisterInv, Lane!StartRead
  PROVE  RegisterInv'
  <1>1. UNCHANGED Lane!Unread /\ UNCHANGED seen
    BY DEF Lane!StartRead
  <1>2. /\ LaneAlone' /\ Numbered' /\ TwoFrames' /\ Progress' /\ Current'
        /\ Done' = Done /\ Lane!Writing' = Lane!Writing /\ UNCHANGED slot
    BY <1>1, RegisterReadFrame
  <1>3. /\ reader'.at = "header" /\ reader'.slot = 0 /\ reader'.try = 1
        /\ reader'.floor = Lane!LatestGeneration /\ reader'.laps = Lane!Cardinality(Lane!Writing)
    BY DEF Lane!StartRead, Lane!Resting
  <1>4. Lane!LatestGeneration > 0 => Lane!LatestGeneration = Done
    <2>0. Lane!LatestGeneration \in Nat /\ next["live"] \in Nat
      BY LatestIs DEF LaneType, Bindings
    <2>1. SUFFICES ASSUME Lane!LatestGeneration > 0 PROVE Lane!LatestGeneration = Done
      OBVIOUS
    <2>2. Lane!LatestGeneration <= Done
      BY <2>0, <2>1, LatestIs DEF LaneType, RegisterInv, TwoFrames
    <2>3. Done \in Nat /\ Done > 0
      BY <2>0, <2>1, <2>2 DEF Done
    <2>4. Done % Lane!SlotCount \in Lane!Slots
      BY <2>3, Parity
    <2>5. Done <= Lane!LatestGeneration
      BY <2>3, <2>4, LatestIs DEF LaneType, RegisterInv, TwoFrames, WholeAt
    <2> QED
      BY <2>0, <2>2, <2>3, <2>5
  <1>5. Lane!Cardinality(Lane!Writing) = 0 => Lane!Writing = {}
    BY WritingFinite, FS_EmptySet DEF Cardinality, Lane!Cardinality
  <1>6. Tracked'
    <2>1. SUFFICES ASSUME reader'.floor > 0 PROVE Overlap' /\ LaneFound'
      BY DEF Tracked
    <2>2. Done' = reader'.floor
      BY <1>2, <1>3, <1>4, <2>1
    <2>3. Overlap'
      BY <1>2, <1>3, <1>5, <2>2 DEF Overlap
    <2>4. Lane!LatestGeneration % Lane!SlotCount \in Lane!Slots
      BY LatestIs, Parity DEF LaneType
    <2>5. LaneFound'
      BY <1>3, <2>4 DEF LaneFound, FloorSlot, Lane!Slots, Lane!SlotCount
    <2> QED
      BY <2>3, <2>5
  <1> QED
    BY <1>1, <1>2, <1>6 DEF RegisterInv, Lane!ReadIsRegular

(* The steps of read_frame, for a reader that Tracked is about.            *)
LEMMA FoundRead ==
  ASSUME Lane!ConstantsOK, LaneType, RegisterInv, UNCHANGED slot,
         reader.at # "idle", reader.floor > 0, reader.laps <= 1,
         Lane!ReadHeader \/ Lane!ReadBody \/ Lane!ReadAgain
  PROVE  LaneFound'
  <1>r. reader \in Readers /\ reader.slot \in Lane!Slots /\ reader.floor \in Nat
    BY DEF LaneType, ReaderType, Readers, Lane!ReadHeader, Lane!ReadBody,
           Lane!ReadAgain, Lane!Reading
  <1>w. WholeAt(reader.floor) /\ FloorSlot \in {0, 1}
    BY FloorWhole DEF Lane!Slots, Lane!SlotCount
  <1>f. LaneFound
    BY DEF RegisterInv, Tracked
  <1>n. /\ Lane!NextSlot(reader).at = "header" /\ Lane!NextSlot(reader).slot = reader.slot + 1
        /\ Lane!NextSlot(reader).try = 1 /\ Lane!NextSlot(reader).floor = reader.floor
        /\ Lane!NextSlot(reader).best = reader.best
    BY <1>r DEF Lane!NextSlot, Readers
  <1>t. /\ Lane!Retry(reader).at = "header" /\ Lane!Retry(reader).floor = reader.floor
        /\ Lane!Retry(reader).best = reader.best
        /\ \/ Lane!Retry(reader).slot = reader.slot
           \/ Lane!Retry(reader).slot = reader.slot + 1 /\ Lane!Retry(reader).try = 1
    BY <1>r, <1>n DEF Lane!Retry, Readers
  <1>s. reader.slot \in {0, 1}
    BY <1>r DEF Lane!Slots, Lane!SlotCount
  (* A retry happens in another slot only. *)
  <1>a. ASSUME reader' = Lane!Retry(reader), reader.slot # FloorSlot PROVE LaneFound'
    <2>1. FloorSlot' = FloorSlot
      BY <1>a, <1>t DEF FloorSlot
    <2>2. CASE reader.slot > FloorSlot
      <3>1. reader'.slot > FloorSlot
        BY <1>a, <1>t, <1>s, <1>w, <2>2
      <3> QED
        BY <1>a, <1>t, <1>f, <1>w, <1>s, <2>1, <2>2, <3>1 DEF LaneFound
    <2>3. CASE reader.slot < FloorSlot
      <3>1. reader'.slot <= FloorSlot /\ (reader'.slot = FloorSlot => reader'.try = 1)
        BY <1>a, <1>t, <1>s, <1>w, <2>3
      <3>2. reader'.at = "header"
        BY <1>a, <1>t
      <3>3. ~(reader'.slot > FloorSlot)
        BY <1>a, <1>t, <1>s, <1>w, <2>3
      <3> QED
        BY <2>1, <3>1, <3>2, <3>3 DEF LaneFound
    <2> QED
      BY <1>a, <1>s, <1>w, <2>2, <2>3
  <1>1. CASE Lane!ReadHeader
    <2> DEFINE h == slot[reader.slot].header
    <2>1. CASE Lane!Valid(h)
      <3>1. /\ reader'.at = "body" /\ reader'.first = h /\ reader'.slot = reader.slot
            /\ reader'.try = reader.try /\ reader'.floor = reader.floor
            /\ reader'.best = reader.best
        BY <1>1, <1>r, <2>1 DEF Lane!ReadHeader, Readers
      <3> QED
        BY <1>f, <3>1 DEF LaneFound, FloorSlot
    <2>2. CASE ~Lane!Valid(h)
      <3>1. reader' = Lane!Retry(reader)
        BY <1>1, <2>2 DEF Lane!ReadHeader
      <3>2. reader.slot # FloorSlot
        BY <1>w, <2>2 DEF WholeAt, FloorSlot
      <3> QED
        BY <1>a, <3>1, <3>2
    <2> QED
      BY <2>1, <2>2
  <1>2. CASE Lane!ReadBody
    <2>1. /\ reader'.first = reader.first /\ reader'.slot = reader.slot
          /\ reader'.try = reader.try /\ reader'.floor = reader.floor
          /\ reader'.best = reader.best
          /\ \/ /\ reader.at = "body" /\ reader'.at = "rest"
                /\ reader'.half = slot[reader.slot].body[1]
             \/ /\ reader.at = "rest" /\ reader'.at = "again"
                /\ reader'.half = reader.half
                /\ reader'.rest = slot[reader.slot].body[2]
      BY <1>2, <1>r DEF Lane!ReadBody, Readers
    <2>2. reader.slot = FloorSlot => /\ slot[reader.slot].body[1] = slot[FloorSlot].header.sum
                                     /\ slot[reader.slot].body[2] = slot[FloorSlot].header.sum
      BY <1>w DEF WholeAt, FloorSlot
    <2>3. FloorSlot' = FloorSlot
      BY <2>1 DEF FloorSlot
    <2> QED
      BY <1>f, <2>1, <2>2, <2>3 DEF LaneFound
  <1>3. CASE Lane!ReadAgain
    <2> DEFINE ok == slot[reader.slot].header = reader.first /\ Lane!ChecksumHolds(reader)
               best == IF reader.best = None \/ reader.first.gen > reader.best.gen
                       THEN [gen |-> reader.first.gen, env |-> reader.half]
                       ELSE reader.best
    <2>0. reader.at = "again" /\ reader.first \in Lane!Headers /\ reader.first.gen \in Nat
      BY <1>3 DEF Lane!ReadAgain, LaneType, ReaderType, Lane!Headers
    <2>1. CASE ok
      <3>1. /\ reader'.at = "header" /\ reader'.slot = reader.slot + 1
            /\ reader'.try = 1 /\ reader'.floor = reader.floor /\ reader'.best = best
        BY <1>3, <1>r, <2>1 DEF Lane!ReadAgain, Lane!NextSlot, Readers
      <3>2. FloorSlot' = FloorSlot
        BY <3>1 DEF FloorSlot
      <3>3. reader'.slot > FloorSlot => best # None /\ best.gen >= reader.floor
        <4>0. SUFFICES ASSUME reader'.slot > FloorSlot
                       PROVE  best # None /\ best.gen >= reader.floor
          OBVIOUS
        <4>f. [gen |-> reader.first.gen, env |-> reader.half] \in Lane!Frames
          BY <2>0, <1>r DEF Lane!Frames, Readers
        <4>n. [gen |-> reader.first.gen, env |-> reader.half] # None
          BY <4>f DEF Lane!ConstantsOK
        <4>b. reader.best # None => reader.best.gen \in Nat
          BY <1>r DEF Readers, Lane!Frames
        <4>1. CASE reader.slot = FloorSlot
          <5>1. reader.first.gen = reader.floor
            BY <1>f, <1>w, <2>0, <4>1 DEF LaneFound, WholeAt, FloorSlot
          <5> QED
            BY <1>r, <2>0, <4>n, <4>b, <5>1
        <4>2. CASE reader.slot > FloorSlot
          <5>1. reader.best # None /\ reader.best.gen >= reader.floor
            BY <1>f, <4>2 DEF LaneFound
          <5> QED
            BY <1>r, <2>0, <4>n, <4>b, <5>1
        <4> QED
          BY <1>s, <1>w, <3>1, <4>0, <4>1, <4>2
      <3> QED
        BY <3>1, <3>2, <3>3 DEF LaneFound
    <2>2. CASE ~ok
      <3>1. reader' = Lane!Retry(reader)
        BY <1>3, <2>2 DEF Lane!ReadAgain
      <3>2. reader.slot # FloorSlot
        BY <1>f, <1>w, <2>0, <2>2 DEF LaneFound, WholeAt, FloorSlot,
                                      Lane!ChecksumHolds
      <3> QED
        BY <1>a, <3>1, <3>2
    <2> QED
      BY <2>1, <2>2
  <1> QED
    BY <1>1, <1>2, <1>3

LEMMA RegisterRead ==
  ASSUME Lane!ConstantsOK, UiLane, LaneType, RegisterInv, Lane!ReadHeader \/ Lane!ReadBody \/ Lane!ReadAgain
  PROVE  RegisterInv'
  <1>1. UNCHANGED Lane!Unread /\ UNCHANGED seen
    BY DEF Lane!ReadHeader, Lane!ReadBody, Lane!ReadAgain
  <1>2. /\ LaneAlone' /\ Numbered' /\ TwoFrames' /\ Progress' /\ Current'
        /\ Done' = Done /\ Lane!Writing' = Lane!Writing /\ UNCHANGED slot
    BY <1>1, RegisterReadFrame
  <1>r. reader \in Readers /\ reader.at # "idle"
    BY DEF LaneType, ReaderType, Lane!ReadHeader, Lane!ReadBody, Lane!ReadAgain
  <1>3. reader'.floor = reader.floor /\ reader'.laps = reader.laps
    BY <1>r DEF Lane!ReadHeader, Lane!ReadBody, Lane!ReadAgain, Lane!Retry,
                Lane!NextSlot, Readers
  <1>4. Tracked'
    <2>1. SUFFICES ASSUME reader.floor > 0, reader.laps <= 1 PROVE Overlap' /\ LaneFound'
      BY <1>3 DEF Tracked
    <2>2. Overlap'
      BY <1>2, <1>3, <1>r, <2>1 DEF RegisterInv, Tracked, Overlap
    <2> QED
      BY <1>2, <1>r, <2>1, <2>2, FoundRead
  <1> QED
    BY <1>1, <1>2, <1>4 DEF RegisterInv, Lane!ReadIsRegular

LEMMA RegisterFinish ==
  ASSUME Lane!ConstantsOK, UiLane, LaneType, RegisterInv, Lane!FinishRead PROVE RegisterInv'
  <1>1. UNCHANGED Lane!Unread
    BY DEF Lane!FinishRead
  <1>2. LaneAlone' /\ Numbered' /\ TwoFrames' /\ Progress' /\ Current'
    BY <1>1, RegisterReadFrame
  <1>3. Tracked'
    BY DEF Lane!FinishRead, Lane!Resting, Tracked
  <1>4. Lane!ReadIsRegular'
    <2>1. SUFFICES ASSUME reader.laps <= 1, reader.floor > 0
                   PROVE  reader.best # None /\ reader.best.gen >= reader.floor
      BY DEF Lane!FinishRead, Lane!ReadIsRegular
    <2>2. reader.at # "idle" /\ reader.slot \in 0..2 /\ reader.slot \notin {0, 1}
      BY DEF Lane!FinishRead, LaneType, ReaderType, Readers, Lane!Reading,
             Lane!Slots, Lane!SlotCount
    <2>3. FloorSlot \in {0, 1}
      BY <2>1, <2>2, FloorWhole DEF Lane!Slots, Lane!SlotCount
    <2>4. reader.slot > FloorSlot
      BY <2>2, <2>3
    <2> QED
      BY <2>1, <2>2, <2>4 DEF RegisterInv, Tracked, LaneFound
  <1> QED
    BY <1>2, <1>3, <1>4 DEF RegisterInv

LEMMA RegisterNext ==
  ASSUME Lane!ConstantsOK, UiLane, LaneType, RegisterInv, [Lane!Next]_Lane!vars PROVE RegisterInv'
  <1>1. CASE Lane!AttachAck \/ Lane!Rebind
    BY <1>1 DEF Lane!AttachAck, Lane!Rebind, UiLane, LaneType
  <1>2. CASE Lane!SetClockBack \/ UNCHANGED Lane!vars
    <2>1. /\ UNCHANGED <<slot, next, published, lock, job, version, reader, seen>>
          /\ laneCounts'.pub = laneCounts.pub
      BY <1>2 DEF Lane!SetClockBack, Lane!vars, LaneType
    <2>2. Done' = Done /\ Lane!Writing' = Lane!Writing
      BY <2>1 DEF Done, Busy, Started, Lane!Writing
    <2>3. LaneAlone' /\ Numbered' /\ TwoFrames' /\ Progress'
      BY <2>1, <2>2 DEF RegisterInv, LaneAlone, Numbered, TwoFrames, Progress,
                        WholeAt, Started, Lane!SlotOf
    <2>4. Tracked' /\ Current' /\ Lane!ReadIsRegular'
      BY <2>1, <2>2 DEF RegisterInv, Tracked, Current, Lane!ReadIsRegular,
                        Overlap, LaneFound, FloorSlot
    <2> QED
      BY <2>3, <2>4 DEF RegisterInv
  <1> QED
    BY <1>1, <1>2, RegisterUpdate, RegisterNumber, RegisterBodyFirst,
       RegisterBetween, RegisterHeaderRest, RegisterStartRead, RegisterRead,
       RegisterFinish DEF Lane!Next

(* The second slot is enough: a read_lane of the UI's lane that at most    *)
(* one write overlaps returns a frame no older than the newest of when it  *)
(* began, after any number of publications.                                *)
THEOREM UiLaneIsRegular == ASSUME Lane!ConstantsOK, UiLane PROVE Lane!Spec => []Lane!ReadIsRegular
  <1>1. RegisterInv => Lane!ReadIsRegular
    BY DEF RegisterInv
  <1> QED
    BY <1>1, LaneInitType, LaneNextType, RegisterInit, RegisterNext, PTL
       DEF Lane!Spec

(* With no publication under way, the frame of the greatest generation in  *)
(* the UI's lane carries the newest state: publish_control never writes a  *)
(* copy of an older one over it.                                           *)
THEOREM UiLaneIsCurrent == ASSUME Lane!ConstantsOK, UiLane PROVE Lane!Spec => []Lane!LaneIsCurrent
  <1>1. LaneType /\ WholeInv /\ RegisterInv => Lane!LaneIsCurrent
    <2>1. SUFFICES ASSUME LaneType, WholeInv, RegisterInv, Lane!Quiet, Lane!LatestGeneration > 0
                   PROVE  slot[Lane!Frame].header.sum.state.ver >= version
      BY DEF Lane!LaneIsCurrent
    <2>2. \A t \in Lane!Threads : job[t].at = "idle"
      BY <2>1 DEF Lane!Quiet, Lane!Idle
    <2>3. PICK i \in Lane!Slots : /\ Lane!Valid(slot[i].header)
                                  /\ slot[i].header.gen = Lane!LatestGeneration
      BY <2>1, LatestIs DEF LaneType
    <2>4. /\ Lane!Frame \in Lane!Slots /\ Lane!Valid(slot[Lane!Frame].header)
          /\ slot[Lane!Frame].header.gen = Lane!LatestGeneration
      BY <2>3 DEF Lane!Frame
    <2>5. Lane!LatestGeneration \in Nat /\ next["live"] \in Nat
      BY <2>1, LatestIs DEF LaneType, Bindings
    <2>6. Lane!LatestGeneration <= Done
      BY <2>1, <2>4 DEF RegisterInv, TwoFrames
    <2>7. Done \in Nat /\ Done > 0
      BY <2>1, <2>5, <2>6 DEF Done
    <2>8. Done % Lane!SlotCount \in Lane!Slots
      BY <2>7, Parity
    <2>9. Done <= Lane!LatestGeneration
      BY <2>1, <2>7, <2>8, LatestIs DEF LaneType, RegisterInv, TwoFrames,
                                        WholeAt
    <2>10. Lane!Frame = Done % Lane!SlotCount
      BY <2>1, <2>4, <2>5, <2>6, <2>7, <2>9 DEF WholeInv
    <2>11. slot[Lane!Frame].header.sum = published["live"]
      BY <2>1, <2>2, <2>7, <2>10 DEF RegisterInv, Current
    <2> QED
      BY <2>1, <2>11 DEF RegisterInv, Current
  <1> QED
    BY <1>1, LaneInitType, LaneNextType, WholeInit, WholeNext, RegisterInit,
       RegisterNext, PTL DEF Lane!Spec

(* The writer may die at any access and another process bind again.  With  *)
(* one writer that is whole after every publication: the new binding goes  *)
(* on from the greatest generation, never over the frame that holds it     *)
(* (attach_vpn_raw, seed_next_generation).                                 *)
OneWriter == Publishers = {"state"} /\ BigFrames = {} /\ MaxLaneAcks = 0

Bound ==
  /\ job["ack"].at = "idle"
  /\ next["live"] = Lane!LatestGeneration + (IF job["state"].at \in Started THEN 2 ELSE 1)
  /\ job["state"].at \in Started => job["state"].gen = Lane!LatestGeneration + 1
NewestHolds ==
  \A i \in Lane!Slots :
    Lane!Valid(slot[i].header) /\ slot[i].header.gen = Lane!LatestGeneration
      => slot[i].header.sum.state.ver = version

LEMMA LatestStays ==
  ASSUME SlotType, SlotType',
         \A i \in Lane!Slots : Lane!Valid(slot'[i].header) => slot'[i].header = slot[i].header,
         \A i \in Lane!Slots : Lane!Valid(slot[i].header)
                                 /\ slot[i].header.gen = Lane!LatestGeneration
                               => slot'[i].header = slot[i].header
  PROVE  Lane!LatestGeneration' = Lane!LatestGeneration
  <1> DEFINE old == Lane!LatestGeneration
             new == Lane!LatestGeneration'
  <1>1. /\ old \in Nat
        /\ \A i \in Lane!Slots : Lane!Valid(slot[i].header) => slot[i].header.gen <= old
        /\ old = 0 \/ \E i \in Lane!Slots : Lane!Valid(slot[i].header) /\ slot[i].header.gen = old
    BY LatestIs
  <1>2. /\ new \in Nat
        /\ \A i \in Lane!Slots : Lane!Valid(slot'[i].header) => slot'[i].header.gen <= new
        /\ new = 0 \/ \E i \in Lane!Slots : Lane!Valid(slot'[i].header) /\ slot'[i].header.gen = new
    BY LatestThen
  <1>3. new <= old
    BY <1>1, <1>2
  <1>4. old <= new
    BY <1>1, <1>2
  <1> QED
    BY <1>1, <1>2, <1>3, <1>4

LEMMA BoundInit == ASSUME Lane!ConstantsOK, OneWriter, LaneType, Lane!Init PROVE Bound /\ NewestHolds
  <1>1. /\ \A i \in Lane!Slots : ~Lane!Valid(slot[i].header)
        /\ next["live"] = 1 /\ \A t \in Lane!Threads : job[t].at = "idle"
        /\ {"ack", "state"} \subseteq Lane!Threads
    BY DEF Lane!Init, Lane!Valid, Lane!Idle, Lane!Threads, OneWriter
  <1>2. Lane!LatestGeneration = 0
    BY <1>1, LatestIs DEF LaneType
  <1> QED
    BY <1>1, <1>2 DEF Bound, NewestHolds, Started

LEMMA BoundNext ==
  ASSUME Lane!ConstantsOK, OneWriter, LaneType, LaneType', WholeInv, WholeInv',
         Bound, NewestHolds, [Lane!Next]_Lane!vars
  PROVE  Bound' /\ NewestHolds'
  <1> DEFINE g == Lane!LatestGeneration
  <1>t. Lane!Threads = {"state", "ack"} /\ Lane!Binding("state") = "live"
    BY DEF Lane!Threads, OneWriter, Lane!Binding
  <1>g. g \in Nat /\ SlotType /\ SlotType'
    BY LatestIs DEF LaneType
  <1>j. job \in [Lane!Threads -> [at : {"idle", "number", "body", "rest", "header", "commit"},
                                  env : Lane!Envelopes, gen : Nat]]
    BY DEF LaneType, JobType
  <1>n. next \in [Bindings -> Nat]
    BY DEF LaneType
  <1>a. ASSUME UNCHANGED slot PROVE Lane!LatestGeneration' = g
    BY <1>a DEF Lane!LatestGeneration
  <1>1. CASE \E t \in Publishers : Lane!Update(t)
    <2>1. /\ UNCHANGED <<slot, next, version>> /\ job'["state"].at = "number"
          /\ job["state"].at = "idle" /\ job'["ack"] = job["ack"]
      BY <1>1, <1>t, <1>j DEF Lane!Update, OneWriter, Lane!Idle
    <2> QED
      BY <1>a, <2>1 DEF Bound, NewestHolds, Started
  <1>2. ~Lane!AttachAck
    BY <1>g DEF Lane!AttachAck, OneWriter, LaneType
  <1>3. ASSUME NEW t \in Lane!Threads,
               \/ Lane!Number(t) \/ Lane!BodyFirst(t) \/ Lane!BodyRest(t)
               \/ Lane!HeaderFirst(t) \/ Lane!HeaderRest(t)
        PROVE  Bound' /\ NewestHolds'
    <2>0. t = "state"
      BY <1>3, <1>t DEF Bound, Lane!Number, Lane!BodyFirst, Lane!BodyRest,
                        Lane!HeaderFirst, Lane!HeaderRest
    <2>1. CASE Lane!Number(t)
      <3>1. /\ UNCHANGED <<slot, version>> /\ job["state"].at = "number"
            /\ next'["live"] = next["live"] + 1
        BY <2>0, <2>1, <1>n, <1>t DEF Lane!Number, Bindings
      <3>2. /\ job'["state"].at = "body" /\ job'["state"].gen = next["live"]
            /\ job'["ack"] = job["ack"]
        BY <2>0, <2>1, <1>j, <1>t DEF Lane!Number, OneWriter
      <3> QED
        BY <1>a, <1>g, <3>1, <3>2 DEF Bound, NewestHolds, Started
    <2>w. /\ Lane!SlotOf(t) \in Lane!Slots /\ job[t].gen \in Nat /\ job[t].env \in Lane!Envelopes
          /\ Lane!SlotOf(t) = job[t].gen % Lane!SlotCount
      BY SlotOfType DEF LaneType, Lane!SlotOf
    <2>2. CASE Lane!BodyFirst(t) \/ Lane!BodyRest(t) \/ Lane!HeaderFirst(t)
      <3>1. /\ UNCHANGED <<next, version>> /\ job["state"].at \in Started
            /\ job'["state"].at \in Started /\ job'["state"].gen = job["state"].gen
            /\ job'["ack"] = job["ack"]
        BY <2>0, <2>2, <1>j, <1>t DEF Lane!BodyFirst, Lane!BodyRest,
                                      Lane!HeaderFirst, Started
      <3>2. \A i \in Lane!Slots : slot'[i].header \in {slot[i].header, Torn}
        BY <2>2, <2>w, <1>g DEF Lane!BodyFirst, Lane!BodyRest,
                                Lane!HeaderFirst, SlotType
      <3>3. \A i \in Lane!Slots : i # Lane!SlotOf(t) => slot'[i].header = slot[i].header
        BY <2>2, <2>w, <1>g DEF Lane!BodyFirst, Lane!BodyRest,
                                Lane!HeaderFirst, SlotType
      <3>4. job[t].gen = g + 1
        BY <2>0, <3>1 DEF Bound
      <3>5. g % Lane!SlotCount # (g + 1) % Lane!SlotCount
        BY <1>g, Parity
      <3>6. \A i \in Lane!Slots : Lane!Valid(slot[i].header) /\ slot[i].header.gen = g
                                  => i # Lane!SlotOf(t)
        BY <2>w, <3>4, <3>5 DEF WholeInv
      <3>7. \A i \in Lane!Slots : Lane!Valid(slot'[i].header) => slot'[i].header = slot[i].header
        BY <3>2 DEF Lane!Valid
      <3>8. Lane!LatestGeneration' = g
        BY <1>g, <3>3, <3>6, <3>7, LatestStays
      <3> QED
        BY <3>1, <3>7, <3>8 DEF Bound, NewestHolds
    <2>3. CASE Lane!HeaderRest(t)
      <3> DEFINE h == [gen |-> job[t].gen, sum |-> job[t].env]
      <3>1. /\ UNCHANGED next /\ job["state"].at \in Started
            /\ job'["state"].at = "idle" /\ job'["ack"] = job["ack"]
            /\ version' = job[t].env.state.ver
        BY <2>0, <2>3, <1>j, <1>t DEF Lane!HeaderRest, Started, Lane!Idle
      <3>2. \A i \in Lane!Slots :
               slot'[i].header = IF i = Lane!SlotOf(t) THEN h ELSE slot[i].header
        BY <2>3, <2>w, <1>g DEF Lane!HeaderRest, SlotType
      <3>3. job[t].gen = g + 1 /\ h.gen = g + 1 /\ h.sum.state.ver = version'
        BY <2>0, <3>1 DEF Bound
      <3>4. h \in Lane!Headers /\ Lane!Valid(h)
        BY <2>w DEF Lane!Headers, Lane!Valid, Lane!ConstantsOK
      <3> HIDE DEF h
      <3>5. \A i \in Lane!Slots : Lane!Valid(slot[i].header) => slot[i].header.gen <= g
        BY <1>g, LatestIs
      <3>6. /\ Lane!LatestGeneration' \in Nat
            /\ \A i \in Lane!Slots : Lane!Valid(slot'[i].header)
                                     => slot'[i].header.gen <= Lane!LatestGeneration'
            /\ \/ Lane!LatestGeneration' = 0
               \/ \E i \in Lane!Slots : /\ Lane!Valid(slot'[i].header)
                                        /\ slot'[i].header.gen = Lane!LatestGeneration'
        BY <1>g, LatestThen
      <3>h. slot'[Lane!SlotOf(t)].header = h
        BY <2>w, <3>2
      <3>7. Lane!LatestGeneration' >= g + 1
        BY <2>w, <3>3, <3>4, <3>6, <3>h
      <3>8. Lane!LatestGeneration' <= g + 1
        BY <1>g, <3>2, <3>3, <3>5, <3>6
      <3>9. Lane!LatestGeneration' = g + 1
        BY <1>g, <3>6, <3>7, <3>8
      <3>a. \A i \in Lane!Slots :
               Lane!Valid(slot'[i].header) /\ slot'[i].header.gen = g + 1
                 => i = Lane!SlotOf(t)
        BY <1>g, <3>2, <3>5
      <3> QED
        BY <1>g, <3>1, <3>3, <3>9, <3>a, <3>h DEF Bound, NewestHolds, Started
    <2> QED
      BY <1>3, <2>1, <2>2, <2>3
  <1>4. CASE Lane!Rebind
    <2>1. /\ UNCHANGED <<slot, version>> /\ next'["live"] = g + 1
          /\ \A t \in Lane!Threads : job'[t].at = "idle"
      BY <1>4, <1>n DEF Lane!Rebind, Lane!Idle, Bindings
    <2> QED
      BY <1>a, <1>g, <1>t, <2>1 DEF Bound, NewestHolds, Started
  <1>5. CASE UNCHANGED <<slot, next, version, job>>
    BY <1>5, <1>a DEF Bound, NewestHolds
  <1> QED
    BY <1>1, <1>2, <1>3, <1>4, <1>5
       DEF Lane!Next, Lane!vars, Lane!SetClockBack, Lane!StartRead, Lane!ReadHeader,
           Lane!ReadBody, Lane!ReadAgain, Lane!FinishRead, Lane!Unread

LEMMA BoundIsCurrent == ASSUME LaneType, NewestHolds PROVE Lane!LaneIsCurrent
  <1>1. SUFFICES ASSUME Lane!LatestGeneration > 0
                 PROVE  slot[Lane!Frame].header.sum.state.ver >= version
    BY DEF Lane!LaneIsCurrent
  <1>2. PICK i \in Lane!Slots : /\ Lane!Valid(slot[i].header)
                                /\ slot[i].header.gen = Lane!LatestGeneration
    BY <1>1, LatestIs DEF LaneType
  <1>3. /\ Lane!Frame \in Lane!Slots /\ Lane!Valid(slot[Lane!Frame].header)
        /\ slot[Lane!Frame].header.gen = Lane!LatestGeneration
    BY <1>2 DEF Lane!Frame
  <1>4. version \in Nat
    BY DEF LaneType
  <1> QED
    BY <1>3, <1>4 DEF NewestHolds

(* In a lane with one writer, whatever its processes were doing when they  *)
(* died and however often another one attached: with no publication under  *)
(* way the frame of the greatest generation carries the newest state that  *)
(* was published as a whole (seed_next_generation).                        *)
THEOREM ReboundLaneIsCurrent ==
  ASSUME Lane!ConstantsOK, OneWriter PROVE Lane!Spec => []Lane!LaneIsCurrent
  BY LaneInitType, LaneNextType, WholeInit, WholeNext, BoundInit, BoundNext,
     BoundIsCurrent, PTL DEF Lane!Spec

-----------------------------------------------------------------------------
(* The notifications of the lane.                                          *)

CONSTANTS MaxFrames, MaxAcks, MaxDeaths, MaxCancels

VARIABLES ui, backlog, made, peer, boot, notifySub, toUi, toPeer, notifyFrames,
          read, notifyTold, notifyCounts

Notify == INSTANCE ChangeNotification WITH
    sub <- notifySub, frames <- notifyFrames, told <- notifyTold,
    counts <- notifyCounts

(* No binding but the live one connects.                                   *)
OneBinding == MaxAcks = 0

UiType ==
  ui \in [alive : BOOLEAN, conn : Nat \cup {None}, wait : {"start", "parked", "woken"},
          held : Nat \cup {None}, wake : BOOLEAN, pub : {"idle", "notify", "send"},
          sending : Nat \cup {None}]
PeerType ==
  peer \in [Notify!Peers -> [conn : Nat \cup {None}, pub : {"idle", "notify", "send", "sent"},
                             frame : Nat]]
SubType ==
  notifySub \in [at : {"off", "start", "parked", "ended"}, held : Nat \cup {None},
                 cancel : BOOLEAN, wake : BOOLEAN]

NotifyType ==
  /\ UiType /\ PeerType /\ SubType
  /\ backlog \in Seq(Nat) /\ made \in Nat
  /\ boot \in {"off", "publish", "tick", "up"}
  /\ notifyFrames \in [ui : Nat, vpn : Nat] /\ read \in [ui : Nat, vpn : Nat] /\ notifyTold \in Nat
  /\ notifyCounts \in [ack : Nat, death : Nat, cancel : Nat]

Live == peer["live"]

(* The connection that the UI has, or will have once it accepts.           *)
Newest == IF backlog = <<>> THEN ui.conn ELSE Notify!Last(backlog)

(* While the UI lives, the connection of the live binding is that one: an  *)
(* older one never replaces it, and nobody drops it.                       *)
Linked ==
  /\ peer["ack"] = [conn |-> None, pub |-> "idle", frame |-> 0]
  /\ ui.alive /\ Live.conn # None => Newest = Live.conn
  /\ ui.alive /\ boot \in {"tick", "up"} => Live.conn # None
  /\ ui.alive /\ Live.pub \in {"send", "sent"} => Live.conn # None
  /\ Live.pub # "idle" => boot \in {"publish", "up"}

(* The subscription waits on that connection.                              *)
Subscribed ==
  /\ notifySub.at \in {"start", "parked", "ended"} => boot = "up"
  /\ notifySub.at = "parked" => notifySub.held # None /\ (ui.alive => notifySub.held = Live.conn)
  /\ notifySub.at # "parked" => notifySub.held = None
  /\ notifySub.cancel => notifyCounts.cancel > 0

(* A frame of the UI is read, or its byte is there or on its way.          *)
Owed ==
  ui.alive /\ notifySub.at \in {"start", "parked"} =>
    \/ read.vpn = notifyFrames.ui
    \/ Live.conn \in toPeer
    \/ ui.pub = "notify"
    \/ ui.pub = "send" /\ ui.sending = Live.conn

NotifyInv == NotifyType /\ Linked /\ Subscribed /\ Owed /\ Notify!SubscriptionLives

-----------------------------------------------------------------------------
LEMMA NotifyInit == ASSUME Notify!ConstantsOK, Notify!Init PROVE NotifyInv
  <1>1. NotifyType
    BY DEF Notify!Init, NotifyType, UiType, PeerType, SubType, Notify!Peers
  <1>2. Linked /\ Subscribed /\ Owed /\ Notify!SubscriptionLives
    BY DEF Notify!Init, Linked, Subscribed, Owed, Notify!SubscriptionLives,
           Live, Notify!Peers
  <1> QED
    BY <1>1, <1>2 DEF NotifyInv

(* The parts of the type invariant, one by one.                            *)
LEMMA Types ==
  ASSUME NotifyInv
  PROVE  /\ NotifyType /\ UiType /\ PeerType /\ SubType /\ notifyTold \in Nat
         /\ notifyFrames \in [ui : Nat, vpn : Nat] /\ read \in [ui : Nat, vpn : Nat]
         /\ notifyCounts \in [ack : Nat, death : Nat, cancel : Nat]
  BY DEF NotifyInv, NotifyType

LEMMA AcceptFacts ==
  ASSUME Notify!ConstantsOK, NotifyType
  PROVE  /\ Notify!Accept(ui).conn = Newest /\ Newest \in Nat \cup {None}
         /\ Notify!Accept(ui) \in [alive : BOOLEAN, conn : Nat \cup {None},
                                   wait : {"start", "parked", "woken"},
                                   held : Nat \cup {None}, wake : BOOLEAN,
                                   pub : {"idle", "notify", "send"}, sending : Nat \cup {None}]
         /\ Notify!Accept(ui).alive = ui.alive /\ Notify!Accept(ui).pub = ui.pub
         /\ Notify!Accept(ui).sending = ui.sending /\ Notify!Accept(ui).wait = ui.wait
  <1>1. backlog # <<>> => Notify!Last(backlog) \in Nat
    BY DEF NotifyType, Notify!Last
  <1> QED
    BY <1>1 DEF NotifyType, UiType, Notify!Accept, Newest

LEMMA AppendFacts ==
  ASSUME NEW s \in Seq(Nat), NEW n \in Nat
  PROVE  /\ Append(s, n) \in Seq(Nat) /\ Append(s, n) # <<>>
         /\ Notify!Last(Append(s, n)) = n
  BY DEF Notify!Last

(* An open connection of the live binding is open at the UI's end.         *)
LEMMA LiveIsOpen ==
  ASSUME NotifyInv, ui.alive, Live.conn # None
  PROVE  Notify!UiOpen(Live.conn) /\ Notify!PeerOpen(Live.conn)
  <1>1. Notify!PeerOpen(Live.conn)
    BY DEF Notify!PeerOpen, Live, Notify!Peers
  <1>2. CASE backlog = <<>>
    BY <1>1, <1>2 DEF NotifyInv, Linked, Newest, Notify!UiOpen
  <1>3. CASE backlog # <<>>
    <2>1. Notify!Last(backlog) = Live.conn
      BY <1>3 DEF NotifyInv, Linked, Newest
    <2>2. Len(backlog) \in DOMAIN backlog
      BY <1>3 DEF NotifyInv, NotifyType
    <2>3. Notify!Last(backlog) \in Notify!Range(backlog)
      BY <2>2 DEF Notify!Last, Notify!Range
    <2> QED
      BY <2>1, <2>3, <1>1 DEF Notify!UiOpen
  <1> QED
    BY <1>1, <1>2, <1>3

-----------------------------------------------------------------------------
(* The UI *)

LEMMA UiParkStep ==
  ASSUME Notify!ConstantsOK, NotifyInv, Notify!UiPark PROVE NotifyInv'
  <1> DEFINE u == Notify!Accept(ui)
  <1>1. /\ ui' = [u EXCEPT !.wait = "parked", !.held = u.conn] /\ backlog' = <<>>
        /\ UNCHANGED <<made, peer, boot, notifySub, toUi, toPeer, notifyFrames, read, notifyTold, notifyCounts>>
    BY DEF Notify!UiPark
  <1>2. /\ ui'.conn = Newest /\ ui'.alive = ui.alive /\ ui'.pub = ui.pub
        /\ ui'.sending = ui.sending /\ UiType'
    BY <1>1, AcceptFacts DEF NotifyInv, UiType
  <1>3. NotifyType'
    BY <1>1, <1>2 DEF NotifyInv, NotifyType, PeerType, SubType
  <1>4. Newest' = Newest
    BY <1>1, <1>2 DEF Newest
  <1> QED
    BY <1>1, <1>2, <1>3, <1>4 DEF NotifyInv, Linked, Subscribed, Owed,
                                  Notify!SubscriptionLives, Live

LEMMA UiWakeStep ==
  ASSUME Notify!ConstantsOK, NotifyInv, Notify!UiWake PROVE NotifyInv'
  <1>1. UNCHANGED <<made, peer, boot, notifySub, toPeer, notifyFrames, read, notifyTold, notifyCounts>>
    BY DEF Notify!UiWake
  <1>2. /\ ui'.alive = ui.alive /\ ui'.pub = ui.pub /\ ui'.sending = ui.sending
        /\ UiType' /\ backlog' \in Seq(Nat)
        /\ Live.conn # None /\ ui.alive => Newest' = Newest
    <2>1. CASE ui.wake
      BY <2>1 DEF Notify!UiWake, NotifyInv, NotifyType, UiType, Newest
    <2>2. CASE ~ui.wake /\ backlog # <<>>
      <3>1. ui' = [Notify!Accept(ui) EXCEPT !.wait = "woken", !.held = None] /\ backlog' = <<>>
        BY <2>2 DEF Notify!UiWake
      <3>2. NotifyType
        BY DEF NotifyInv
      <3>3. Newest' = ui'.conn /\ backlog' \in Seq(Nat)
        BY <3>1 DEF Newest
      <3>4. /\ ui'.conn = Newest /\ ui'.alive = ui.alive /\ ui'.pub = ui.pub
            /\ ui'.sending = ui.sending /\ UiType'
        BY <3>1, <3>2, AcceptFacts DEF UiType
      <3> QED
        BY <3>3, <3>4
    <2>3. CASE ~ui.wake /\ backlog = <<>>
      <3>1. /\ ui' = [ui EXCEPT !.wait = "woken", !.held = None,
                        !.conn = IF ~Notify!PeerOpen(ui.held) /\ @ = ui.held THEN None ELSE @]
            /\ UNCHANGED backlog
        BY <2>3 DEF Notify!UiWake
      <3>2. Live.conn # None /\ ui.alive => ui.conn = Live.conn /\ Notify!PeerOpen(ui.conn)
        BY <2>3, LiveIsOpen DEF NotifyInv, Linked, Newest
      <3> QED
        BY <2>3, <3>1, <3>2 DEF NotifyInv, NotifyType, UiType, Newest
    <2> QED
      BY <2>1, <2>2, <2>3 DEF NotifyInv, NotifyType, UiType
  <1>3. NotifyType'
    BY <1>1, <1>2 DEF NotifyInv, NotifyType, PeerType, SubType
  <1> QED
    BY <1>1, <1>2, <1>3 DEF NotifyInv, Linked, Subscribed, Owed,
                            Notify!SubscriptionLives, Live

LEMMA UiOtherStep ==
  ASSUME Notify!ConstantsOK, NotifyInv, Notify!UiSync \/ Notify!UiPublish \/ Notify!UiDies PROVE NotifyInv'
  <1>1. CASE Notify!UiSync
    <2>1. NotifyType'
      BY <1>1 DEF Notify!UiSync, NotifyInv, NotifyType, UiType, PeerType,
                  SubType
    <2>2. Newest' = Newest
      BY <1>1 DEF Notify!UiSync, NotifyInv, NotifyType, UiType, Newest
    <2> QED
      BY <1>1, <2>1, <2>2 DEF Notify!UiSync, NotifyInv, NotifyType, UiType,
                              Linked, Subscribed, Owed,
                              Notify!SubscriptionLives, Live
  <1>2. CASE Notify!UiPublish
    <2>1. NotifyType'
      <3>1. UiType'
        BY <1>2 DEF Notify!UiPublish, NotifyInv, NotifyType, UiType
      <3>2. notifyFrames' \in [ui : Nat, vpn : Nat]
        BY <1>2, Types DEF Notify!UiPublish
      <3> QED
        BY <1>2, <3>1, <3>2 DEF Notify!UiPublish, NotifyInv, NotifyType,
                                PeerType, SubType
    <2>2. Newest' = Newest
      BY <1>2 DEF Notify!UiPublish, NotifyInv, NotifyType, UiType, Newest
    <2> QED
      BY <1>2, <2>1, <2>2 DEF Notify!UiPublish, NotifyInv, NotifyType, UiType,
                              Linked, Subscribed, Owed,
                              Notify!SubscriptionLives, Live
  <1>3. CASE Notify!UiDies
    <2>1. NotifyType'
      <3>1. UiType'
        BY <1>3 DEF Notify!UiDies, NotifyInv, NotifyType, UiType
      <3>2. backlog' \in Seq(Nat)
        BY <1>3 DEF Notify!UiDies
      <3> QED
        BY <1>3, <3>1, <3>2 DEF Notify!UiDies, NotifyInv, NotifyType, PeerType,
                                SubType
    <2>2. ui'.alive = FALSE
      BY <1>3 DEF Notify!UiDies, NotifyInv, NotifyType, UiType
    <2> QED
      BY <1>3, <2>1, <2>2 DEF Notify!UiDies, NotifyInv, Linked, Subscribed,
                              Owed, Notify!SubscriptionLives, Live
  <1> QED
    BY <1>1, <1>2, <1>3

LEMMA UiNotifyStep ==
  ASSUME Notify!ConstantsOK, NotifyInv, Notify!UiNotify PROVE NotifyInv'
  <1> DEFINE u == Notify!Accept(ui)
  <1>1. /\ ui' = [u EXCEPT !.sending = u.conn, !.pub = IF u.conn = None THEN "idle" ELSE "send"]
        /\ backlog' = <<>>
        /\ UNCHANGED <<made, peer, boot, notifySub, toUi, toPeer, notifyFrames, read, notifyTold, notifyCounts>>
    BY DEF Notify!UiNotify
  <1>2. /\ ui'.conn = Newest /\ ui'.alive = ui.alive /\ ui'.sending = Newest /\ UiType'
        /\ ui'.pub = IF Newest = None THEN "idle" ELSE "send"
    BY <1>1, AcceptFacts DEF NotifyInv, UiType
  <1>3. NotifyType'
    BY <1>1, <1>2 DEF NotifyInv, NotifyType, PeerType, SubType
  <1>4. Newest' = Newest
    BY <1>1, <1>2 DEF Newest
  <1>5. Linked' /\ Subscribed' /\ Notify!SubscriptionLives'
    BY <1>1, <1>2, <1>4 DEF NotifyInv, Linked, Subscribed,
                            Notify!SubscriptionLives, Live
  <1>6. Owed'
    BY <1>1, <1>2 DEF NotifyInv, Linked, Subscribed, Owed, Live
  <1> QED
    BY <1>3, <1>5, <1>6 DEF NotifyInv

LEMMA UiSendStep ==
  ASSUME Notify!ConstantsOK, NotifyInv, Notify!UiSend PROVE NotifyInv'
  <1>1. UNCHANGED <<backlog, made, peer, boot, notifySub, toUi, notifyFrames, read, notifyTold, notifyCounts>>
    BY DEF Notify!UiSend
  <1>2. /\ ui'.alive = ui.alive /\ UiType'
        /\ ui'.conn = ui.conn \/ (ui.conn = ui.sending /\ ~Notify!PeerOpen(ui.sending))
        /\ toPeer \subseteq toPeer' /\ (Notify!PeerOpen(ui.sending) => ui.sending \in toPeer')
    <2>1. CASE Notify!PeerOpen(ui.sending)
      <3>1. /\ ui' = [ui EXCEPT !.pub = "idle", !.sending = None]
            /\ toPeer' = toPeer \cup {ui.sending}
        BY <2>1 DEF Notify!UiSend
      <3>2. ui'.alive = ui.alive /\ UiType' /\ ui'.conn = ui.conn
        BY <3>1, Types DEF UiType
      <3> QED
        BY <3>1, <3>2
    <2>2. CASE ~Notify!PeerOpen(ui.sending)
      <3>1. /\ ui' = [ui EXCEPT !.pub = "idle", !.sending = None,
                                !.conn = IF @ = ui.sending THEN None ELSE @]
            /\ UNCHANGED toPeer
        BY <2>2 DEF Notify!UiSend
      <3> QED
        BY <2>2, <3>1 DEF NotifyInv, NotifyType, UiType
    <2> QED
      BY <2>1, <2>2
  <1>3. ui.alive /\ Live.conn # None => Notify!PeerOpen(Live.conn) /\ Newest' = Newest
    BY <1>1, <1>2, LiveIsOpen DEF Newest, NotifyInv, Linked
  <1>4. NotifyType'
    BY <1>1, <1>2 DEF NotifyInv, NotifyType, PeerType, SubType
  <1>5. Linked' /\ Subscribed' /\ Notify!SubscriptionLives'
    BY <1>1, <1>2, <1>3 DEF NotifyInv, Linked, Subscribed,
                            Notify!SubscriptionLives, Live
  <1>6. Owed'
    BY <1>1, <1>2, <1>3 DEF NotifyInv, Linked, Subscribed, Owed, Live,
                            Notify!UiSend
  <1> QED
    BY <1>4, <1>5, <1>6 DEF NotifyInv

-----------------------------------------------------------------------------
(* The Extension *)

LEMMA NotifyBindStep ==
  ASSUME Notify!ConstantsOK, NotifyInv, Notify!Bind \/ Notify!Tick PROVE NotifyInv'
  <1>1. UNCHANGED <<ui, backlog, made, peer, toUi, toPeer, notifyFrames, notifyTold, notifyCounts>>
    BY DEF Notify!Bind, Notify!Tick
  <1>2. read' \in [ui : Nat, vpn : Nat] /\ read'.vpn = notifyFrames.ui
    BY DEF Notify!Bind, Notify!Tick, NotifyInv, NotifyType
  <1>3. SubType' /\ boot' \in {"off", "publish", "tick", "up"}
    BY DEF Notify!Bind, Notify!Tick, NotifyInv, NotifyType, SubType
  <1>4. NotifyType'
    BY <1>1, <1>2, <1>3 DEF NotifyInv, NotifyType, UiType, PeerType
  <1>5. Newest' = Newest /\ Live' = Live
    BY <1>1 DEF Newest, Live
  <1>6. CASE Notify!Bind
    <2>1. notifySub.at = "off"
      BY <1>6 DEF Notify!Bind, NotifyInv, NotifyType, SubType, Subscribed
    <2> QED
      BY <1>1, <1>2, <1>4, <1>5, <1>6, <2>1
         DEF Notify!Bind, NotifyInv, Linked, Subscribed, Owed,
             Notify!SubscriptionLives
  <1>7. CASE Notify!Tick
    <2>1. notifySub'.at = "start" /\ notifySub'.held = None /\ notifySub'.cancel = notifySub.cancel
      BY <1>7 DEF Notify!Tick, NotifyInv, NotifyType, SubType, Subscribed
    <2> QED
      BY <1>1, <1>2, <1>4, <1>5, <1>7, <2>1
         DEF Notify!Tick, NotifyInv, Linked, Subscribed, Owed,
             Notify!SubscriptionLives
  <1> QED
    BY <1>6, <1>7

LEMMA PublishStep ==
  ASSUME Notify!ConstantsOK, OneBinding, NotifyInv, NEW p \in Notify!Peers, Notify!Publish(p)
  PROVE  NotifyInv'
  <1>1. p = "live"
    BY DEF Notify!Publish, OneBinding, NotifyInv, NotifyType, Notify!Peers
  <1>2. /\ boot \in {"publish", "up"}
        /\ notifyFrames' = [notifyFrames EXCEPT !.vpn = @ + 1]
        /\ peer' = [peer EXCEPT !["live"].pub = "notify", !["live"].frame = notifyFrames.vpn + 1]
        /\ UNCHANGED <<ui, backlog, made, boot, notifySub, toUi, toPeer, read, notifyTold, notifyCounts>>
    BY <1>1 DEF Notify!Publish
  <1>f. notifyFrames' \in [ui : Nat, vpn : Nat] /\ notifyFrames'.ui = notifyFrames.ui /\ notifyFrames.vpn + 1 \in Nat
    BY <1>2, Types
  <1>3. /\ PeerType'
        /\ peer'["live"].conn = Live.conn /\ peer'["live"].pub = "notify"
        /\ peer'["ack"] = peer["ack"]
    BY <1>2, <1>f, Types DEF PeerType, Notify!Peers, Live
  <1>4. NotifyType'
    BY <1>2, <1>3, <1>f DEF NotifyInv, NotifyType, UiType, SubType
  <1>5. Newest' = Newest
    BY <1>2 DEF Newest
  <1> QED
    BY <1>2, <1>3, <1>4, <1>5, <1>f DEF NotifyInv, Linked, Subscribed, Owed,
                                        Notify!SubscriptionLives, Live

(* The acknowledgement's binding stays as it was made.                     *)
LEMMA OnlyLive ==
  ASSUME NotifyInv, NEW p \in Notify!Peers, Notify!Notify(p) \/ Notify!Send(p) \/ Notify!Return(p)
  PROVE  p = "live"
  BY DEF NotifyInv, Linked, Notify!Peers, Notify!Notify, Notify!Send,
         Notify!Return

(* A new connection is the newest.                                         *)
LEMMA ConnectFacts ==
  ASSUME Notify!ConstantsOK, NotifyInv, Notify!Connect("live")
  PROVE  /\ ui.alive /\ Live.conn = None /\ made' = made + 1 /\ made + 1 \in Nat
         /\ made + 1 # None
         /\ backlog' \in Seq(Nat) /\ backlog' # <<>> /\ Notify!Last(backlog') = made + 1
  BY AppendFacts DEF Notify!Connect, NotifyInv, NotifyType, Live,
                     Notify!ConstantsOK

LEMMA NotifyStep ==
  ASSUME Notify!ConstantsOK, NotifyInv, Notify!Notify("live") PROVE NotifyInv'
  <1>1. /\ Live.pub = "notify"
        /\ UNCHANGED <<ui, boot, notifySub, toUi, toPeer, notifyFrames, read, notifyTold, notifyCounts>>
    BY DEF Notify!Notify, Live
  <1>2. CASE Notify!Connect("live")
    <2>1. peer' = [peer EXCEPT !["live"].pub = "send", !["live"].conn = made + 1]
      BY <1>2, ConnectFacts DEF Notify!Notify, Live
    <2>2. /\ PeerType' /\ peer'["live"].conn = made + 1 /\ peer'["live"].pub = "send"
          /\ peer'["ack"] = peer["ack"]
      BY <1>2, <2>1, ConnectFacts DEF NotifyInv, NotifyType, PeerType,
                                      Notify!Peers
    <2>3. NotifyType'
      BY <1>1, <1>2, <2>2, ConnectFacts DEF NotifyInv, NotifyType, UiType,
                                            SubType
    <2>4. Newest' = made + 1
      BY <1>2, ConnectFacts DEF Newest
    <2>5. notifySub.at \notin {"start", "parked"}
      BY <1>2, ConnectFacts DEF NotifyInv, Linked, Subscribed
    <2> QED
      BY <1>1, <1>2, <2>2, <2>3, <2>4, <2>5, ConnectFacts
         DEF NotifyInv, Linked, Subscribed, Owed, Notify!SubscriptionLives,
             Live
  <1>3. CASE ~Notify!Connect("live")
    <2>1. /\ UNCHANGED <<backlog, made>>
          /\ \/ Live.conn # None /\ peer' = [peer EXCEPT !["live"].pub = "send"]
             \/ ~ui.alive /\ peer' = [peer EXCEPT !["live"].pub = "sent"]
      BY <1>3 DEF Notify!Notify, Live
    <2>2. /\ PeerType' /\ peer'["live"].conn = Live.conn
          /\ peer'["live"].pub \in {"send", "sent"} /\ peer'["ack"] = peer["ack"]
      <3>1. PICK x \in {"send", "sent"} : peer' = [peer EXCEPT !["live"].pub = x]
        BY <2>1
      <3> QED
        BY <3>1, Types DEF PeerType, Notify!Peers, Live
    <2>3. NotifyType'
      BY <1>1, <2>1, <2>2 DEF NotifyInv, NotifyType, UiType, SubType
    <2>4. Newest' = Newest
      BY <1>1, <2>1 DEF Newest
    <2> QED
      BY <1>1, <2>1, <2>2, <2>3, <2>4 DEF NotifyInv, Linked, Subscribed, Owed,
                                          Notify!SubscriptionLives, Live
  <1> QED
    BY <1>2, <1>3

LEMMA SendStep ==
  ASSUME Notify!ConstantsOK, NotifyInv, Notify!Send("live") \/ Notify!Return("live") PROVE NotifyInv'
  <1>1. UNCHANGED <<ui, backlog, made, notifySub, toPeer, notifyFrames, read, notifyCounts>>
    BY DEF Notify!Send, Notify!Return
  <1>2. ui.alive => Live.conn # None /\ Notify!UiOpen(Live.conn)
    BY LiveIsOpen DEF Notify!Send, Notify!Return, NotifyInv, Linked, Live
  <1>3. /\ PeerType' /\ peer'["ack"] = peer["ack"] /\ peer'["live"].pub \in {"sent", "idle"}
        /\ ui.alive => peer'["live"].conn = Live.conn
    <2>1. CASE Notify!Send("live")
      <3>1. CASE Live.conn # None /\ Notify!UiOpen(Live.conn)
        <4>1. peer' = [peer EXCEPT !["live"].pub = "sent"]
          BY <2>1, <3>1 DEF Notify!Send, Live
        <4> QED
          BY <4>1 DEF NotifyInv, NotifyType, PeerType, Notify!Peers, Live
      <3>2. CASE ~(Live.conn # None /\ Notify!UiOpen(Live.conn))
        <4>1. peer' = [peer EXCEPT !["live"].pub = "sent", !["live"].conn = None]
          BY <2>1, <3>2 DEF Notify!Send, Live
        <4> QED
          BY <1>2, <3>2, <4>1 DEF NotifyInv, NotifyType, PeerType,
                                  Notify!Peers, Live
      <3> QED
        BY <3>1, <3>2
    <2>2. CASE Notify!Return("live")
      <3>1. peer' = [peer EXCEPT !["live"].pub = "idle", !["live"].conn = @]
        BY <2>2 DEF Notify!Return
      <3> QED
        BY <3>1 DEF NotifyInv, NotifyType, PeerType, Notify!Peers, Live
    <2> QED
      BY <2>1, <2>2
  <1>4. /\ notifyTold' \in Nat
        /\ boot' = boot \/ (boot = "publish" /\ boot' = "tick" /\ peer'["live"].pub = "idle")
    <2>1. CASE Notify!Send("live")
      BY <2>1, Types DEF Notify!Send
    <2>2. CASE Notify!Return("live")
      <3>1. peer["live"].frame \in Nat /\ peer'["live"].pub = "idle"
        BY <2>2, Types DEF Notify!Return, PeerType, Notify!Peers
      <3>2. notifyTold' \in Nat
        BY <2>2, <3>1, Types DEF Notify!Return
      <3>3. boot' = boot \/ (boot = "publish" /\ boot' = "tick")
        BY <2>2 DEF Notify!Return
      <3> QED
        BY <3>1, <3>2, <3>3
    <2> QED
      BY <2>1, <2>2
  <1>5. NotifyType'
    BY <1>1, <1>3, <1>4 DEF NotifyInv, NotifyType, UiType, SubType
  <1>6. Newest' = Newest
    BY <1>1 DEF Newest
  <1>7. Live.pub # "idle"
    BY DEF Notify!Send, Notify!Return, Live
  <1> QED
    BY <1>1, <1>2, <1>3, <1>4, <1>5, <1>6, <1>7
       DEF NotifyInv, Linked, Subscribed, Owed, Notify!SubscriptionLives, Live

LEMMA SubParkStep ==
  ASSUME Notify!ConstantsOK, NotifyInv, Notify!SubPark PROVE NotifyInv'
  <1>1. /\ notifySub.at = "start"
        /\ UNCHANGED <<ui, boot, toUi, toPeer, notifyFrames, read, notifyTold, notifyCounts>>
    BY DEF Notify!SubPark
  <1>2. ui.alive => Live.conn # None
    BY <1>1 DEF NotifyInv, Linked, Subscribed
  <1>3. ~Notify!Connect("live")
    BY <1>2, ConnectFacts
  <1>4. /\ UNCHANGED <<backlog, made, peer>>
        /\ \/ notifySub' = Notify!Ended /\ (notifySub.cancel \/ ~ui.alive)
           \/ /\ notifySub' = [notifySub EXCEPT !.at = "parked", !.held = Live.conn]
              /\ Live.conn # None
    BY <1>3 DEF Notify!SubPark, Live
  <1>5. SubType' /\ (notifySub'.cancel => notifySub.cancel)
    <2>1. Live.conn \in Nat \cup {None} /\ SubType
      BY Types DEF PeerType, Notify!Peers, Live
    <2>2. CASE notifySub' = Notify!Ended
      BY <2>2 DEF SubType, Notify!Ended
    <2>3. CASE notifySub' = [notifySub EXCEPT !.at = "parked", !.held = Live.conn]
      BY <2>1, <2>3 DEF SubType
    <2> QED
      BY <1>4, <2>2, <2>3
  <1>6. NotifyType'
    BY <1>1, <1>4, <1>5 DEF NotifyInv, NotifyType, UiType, PeerType
  <1>7. Newest' = Newest
    BY <1>1, <1>4 DEF Newest
  <1>8. /\ notifySub'.at \in {"parked", "ended"}
        /\ notifySub'.at = "parked" => notifySub'.held = Live.conn /\ Live.conn # None
        /\ notifySub'.at = "ended" => notifySub'.held = None /\ (notifySub.cancel \/ ~ui.alive)
    <2>2. CASE notifySub' = Notify!Ended /\ (notifySub.cancel \/ ~ui.alive)
      BY <2>2 DEF Notify!Ended
    <2>3. CASE notifySub' = [notifySub EXCEPT !.at = "parked", !.held = Live.conn] /\ Live.conn # None
      <3>1. notifySub'.at = "parked" /\ notifySub'.held = Live.conn
        BY <2>3, Types DEF SubType
      <3> QED
        BY <2>3, <3>1
    <2> QED
      BY <1>4, <2>2, <2>3
  <1> QED
    BY <1>1, <1>2, <1>4, <1>5, <1>6, <1>7, <1>8
       DEF NotifyInv, Linked, Subscribed, Owed, Notify!SubscriptionLives, Live

LEMMA SubWakeStep ==
  ASSUME Notify!ConstantsOK, NotifyInv, Notify!SubWake PROVE NotifyInv'
  <1>1. /\ notifySub.at = "parked" /\ boot = "up"
        /\ UNCHANGED <<ui, backlog, made, boot, toUi, notifyFrames, notifyTold, notifyCounts>>
    BY DEF Notify!SubWake, NotifyInv, Subscribed
  <1>2. ui.alive => notifySub.held = Live.conn /\ Notify!UiOpen(notifySub.held)
    BY <1>1, LiveIsOpen DEF NotifyInv, Subscribed
  <1>3. Newest' = Newest
    BY <1>1 DEF Newest
  <1>4. CASE notifySub' = Notify!Ended
    <2>1. notifySub.cancel \/ ~ui.alive
      BY <1>2, <1>4, <1>1 DEF Notify!SubWake, Notify!Ended
    <2>2. /\ PeerType' /\ read' = read /\ peer'["ack"] = peer["ack"]
          /\ peer'["live"].pub = Live.pub
          /\ ui.alive => peer'["live"].conn = Live.conn
      <3>1. CASE UNCHANGED peer
        BY <1>1, <1>4, <3>1 DEF Notify!SubWake, NotifyInv, NotifyType,
                                PeerType, Live, Notify!Ended
      <3>2. CASE ~Notify!UiOpen(notifySub.held) /\ read' = read /\
                 peer' = [peer EXCEPT !["live"].conn = IF @ = notifySub.held THEN None ELSE @]
        BY <1>2, <3>2 DEF NotifyInv, NotifyType, PeerType, Notify!Peers, Live
      <3> QED
        BY <1>4, <3>1, <3>2 DEF Notify!SubWake
    <2>3. SubType' /\ notifySub'.at = "ended" /\ notifySub'.held = None /\ notifySub'.cancel = FALSE
      BY <1>4 DEF SubType, Notify!Ended
    <2>4. NotifyType'
      BY <1>1, <2>2, <2>3 DEF NotifyInv, NotifyType, UiType
    <2> QED
      BY <1>1, <1>3, <2>1, <2>2, <2>3, <2>4
         DEF NotifyInv, Linked, Subscribed, Owed, Notify!SubscriptionLives,
             Live
  <1>5. CASE notifySub' # Notify!Ended
    <2>1. /\ notifySub' = [notifySub EXCEPT !.at = "start", !.held = None]
          /\ read' = [read EXCEPT !.vpn = notifyFrames.ui] /\ UNCHANGED peer
      BY <1>5 DEF Notify!SubWake
    <2>2. /\ SubType' /\ notifySub'.at = "start" /\ notifySub'.held = None /\ notifySub'.cancel = notifySub.cancel
          /\ read' \in [ui : Nat, vpn : Nat] /\ read'.vpn = notifyFrames.ui
      BY <2>1 DEF NotifyInv, NotifyType, SubType
    <2>3. NotifyType'
      BY <1>1, <2>1, <2>2 DEF NotifyInv, NotifyType, UiType, PeerType
    <2> QED
      BY <1>1, <1>3, <2>1, <2>2, <2>3 DEF NotifyInv, Linked, Subscribed, Owed,
                                          Notify!SubscriptionLives, Live
  <1> QED
    BY <1>4, <1>5

LEMMA EndStep ==
  ASSUME Notify!ConstantsOK, NotifyInv, Notify!CancelWait \/ Notify!Dies \/ UNCHANGED Notify!vars PROVE NotifyInv'
  <1>1. CASE Notify!CancelWait
    <2>1. /\ SubType' /\ notifySub'.at = notifySub.at /\ notifySub'.held = notifySub.held
          /\ notifyCounts' \in [ack : Nat, death : Nat, cancel : Nat] /\ notifyCounts'.cancel > 0
          /\ UNCHANGED <<ui, backlog, made, peer, boot, toUi, toPeer, notifyFrames, read, notifyTold>>
      <3>1. SubType' /\ notifySub'.at = notifySub.at /\ notifySub'.held = notifySub.held
        BY <1>1, Types DEF Notify!CancelWait, SubType
      <3>2. notifyCounts' \in [ack : Nat, death : Nat, cancel : Nat] /\ notifyCounts'.cancel > 0
        BY <1>1, Types DEF Notify!CancelWait
      <3> QED
        BY <1>1, <3>1, <3>2 DEF Notify!CancelWait
    <2>2. NotifyType'
      BY <2>1 DEF NotifyInv, NotifyType, UiType, PeerType
    <2>3. Newest' = Newest
      BY <2>1 DEF Newest
    <2> QED
      BY <2>1, <2>2, <2>3 DEF NotifyInv, Linked, Subscribed, Owed,
                              Notify!SubscriptionLives, Live
  <1>2. CASE Notify!Dies
    <2>1. /\ SubType' /\ PeerType' /\ notifySub'.at = "off" /\ notifySub'.held = None
          /\ notifySub'.cancel = FALSE /\ boot' = "off"
          /\ peer' = [p \in Notify!Peers |-> [conn |-> None, pub |-> "idle", frame |-> 0]]
          /\ UNCHANGED <<ui, backlog, made, toUi, toPeer, notifyFrames, read, notifyTold>>
      BY <1>2 DEF Notify!Dies, SubType, PeerType, Notify!Ended
    <2>2. notifyCounts' \in [ack : Nat, death : Nat, cancel : Nat]
      BY <1>2, Types DEF Notify!Dies
    <2>3. NotifyType'
      BY <2>1, <2>2 DEF NotifyInv, NotifyType, UiType
    <2> QED
      BY <2>1, <2>3 DEF NotifyInv, Linked, Subscribed, Owed,
                        Notify!SubscriptionLives, Live, Notify!Peers
  <1>3. CASE UNCHANGED Notify!vars
    BY <1>3 DEF Notify!vars, NotifyInv, NotifyType, UiType, PeerType, SubType,
                Linked, Subscribed, Owed, Notify!SubscriptionLives, Live,
                Newest
  <1> QED
    BY <1>1, <1>2, <1>3

LEMMA NotifyNext ==
  ASSUME Notify!ConstantsOK, OneBinding, NotifyInv, [Notify!Next]_Notify!vars PROVE NotifyInv'
  <1>1. CASE \E p \in Notify!Peers : Notify!Publish(p) \/ Notify!Notify(p) \/ Notify!Send(p) \/ Notify!Return(p)
    BY <1>1, PublishStep, OnlyLive, NotifyStep, SendStep
  <1> QED
    BY <1>1, UiParkStep, UiWakeStep, UiOtherStep, UiNotifyStep, UiSendStep,
       NotifyBindStep, SubParkStep, SubWakeStep, EndStep
       DEF Notify!Next

(* A stop frame of the UI is never slept through: the subscription of an   *)
(* Extension that is parked in wait_internal has read every frame that the *)
(* UI finished publishing, or a descriptor of its poll set is ready. It    *)
(* holds whatever number of Extensions died before it.                     *)
THEOREM OwnerWakes == ASSUME Notify!ConstantsOK, OneBinding PROVE Notify!Spec => []Notify!OwnerWillWake
  <1>1. NotifyInv => Notify!OwnerWillWake
    <2>1. SUFFICES ASSUME NotifyInv, notifySub.at = "parked", ui.pub = "idle"
                   PROVE  read.vpn = notifyFrames.ui \/ notifySub.wake \/ Notify!SubReady(notifySub.held)
      BY DEF Notify!OwnerWillWake
    <2>2. notifySub.held # None
      BY <2>1 DEF NotifyInv, Subscribed
    <2>3. CASE ~ui.alive
      BY <2>2, <2>3 DEF Notify!SubReady, Notify!UiOpen
    <2>4. CASE ui.alive
      BY <2>1, <2>2, <2>4 DEF NotifyInv, Subscribed, Owed, Notify!SubReady
    <2> QED
      BY <2>3, <2>4
  <1> QED
    BY <1>1, NotifyInit, NotifyNext, PTL DEF Notify!Spec

(* The subscription of a live owner ends only if it is cancelled or the UI *)
(* dies: no connection of an earlier Extension replaces its own.           *)
THEOREM SubscriptionStays == ASSUME Notify!ConstantsOK, OneBinding PROVE Notify!Spec => []Notify!SubscriptionLives
  <1>1. NotifyInv => Notify!SubscriptionLives
    BY DEF NotifyInv
  <1> QED
    BY <1>1, NotifyInit, NotifyNext, PTL DEF Notify!Spec

-----------------------------------------------------------------------------
(* The pump of the UI, beside one Extension process *)

OneExtension == OneBinding /\ MaxDeaths = 0

(* Frame n is read, or will be: its byte is there, or the pump is up.      *)
Reaches(n) == n <= read.ui \/ Live.conn \in toUi \/ ui.wait = "woken"

PumpInv ==
  /\ notifyTold <= notifyFrames.vpn /\ Live.frame <= notifyFrames.vpn
  /\ ui.alive =>
       /\ Live.conn = None => notifyTold = 0 /\ ui.conn = None /\ backlog = <<>>
       /\ Reaches(notifyTold)
       /\ Live.pub = "sent" => Reaches(Live.frame)
       /\ ui.wait = "parked" => ui.wake \/ backlog # <<>> \/ ui.held = ui.conn

LEMMA PumpInit == ASSUME Notify!Init PROVE PumpInv
  BY DEF Notify!Init, PumpInv, Live, Notify!Peers, Reaches

LEMMA PumpUi ==
  ASSUME Notify!ConstantsOK, NotifyInv, PumpInv,
         Notify!UiPark \/ Notify!UiWake \/ Notify!UiSync \/ Notify!UiPublish \/ Notify!UiNotify \/ Notify!UiSend \/ Notify!UiDies
  PROVE  PumpInv'
  <1>0. /\ ui.alive
        /\ UNCHANGED <<peer, notifyTold>> /\ Live' = Live /\ notifyFrames'.vpn = notifyFrames.vpn
    BY Types DEF Notify!UiPark, Notify!UiWake, Notify!UiSync, Notify!UiPublish,
                 Notify!UiNotify, Notify!UiSend, Notify!UiDies, Live
  <1>t. /\ notifyTold \in Nat /\ Live.frame \in Nat /\ read.ui \in Nat /\ notifyFrames.vpn \in Nat
    BY Types DEF PeerType, Notify!Peers, Live
  <1>1. CASE Notify!UiPark
    <2>1. /\ ui'.conn = Newest /\ ui'.held = Newest /\ ui'.wait = "parked"
          /\ backlog' = <<>> /\ UNCHANGED <<toUi, read>> /\ ui.wait = "start"
      BY <1>1, Types, AcceptFacts DEF Notify!UiPark, UiType
    <2>2. Live.conn = None => Newest = None
      BY <1>0 DEF PumpInv, Newest
    <2> QED
      BY <1>0, <2>1, <2>2 DEF PumpInv, Reaches
  <1>2. CASE Notify!UiWake
    <2>1. CASE ui.wake
      <3>1. /\ ui'.conn = ui.conn /\ ui'.wait = "start" /\ ui.wait = "parked"
            /\ UNCHANGED <<backlog, toUi, read>>
        BY <1>2, <2>1, Types DEF Notify!UiWake, UiType
      <3> QED
        BY <1>0, <3>1 DEF PumpInv, Reaches
    <2>2. CASE ~ui.wake
      <3>1. /\ ui'.wait = "woken" /\ UNCHANGED read
            /\ Live.conn = None => ui'.conn = None /\ backlog' = <<>>
        <4>1. CASE backlog # <<>>
          BY <1>0, <1>2, <2>2, <4>1, Types, AcceptFacts
             DEF Notify!UiWake, UiType, PumpInv
        <4>2. CASE backlog = <<>>
          <5>1. /\ ui' = [ui EXCEPT !.wait = "woken", !.held = None,
                       !.conn = IF ~Notify!PeerOpen(ui.held) /\ @ = ui.held THEN None ELSE @]
                /\ UNCHANGED <<backlog, read>>
            BY <1>2, <2>2, <4>2 DEF Notify!UiWake
          <5> QED
            BY <1>0, <4>2, <5>1, Types DEF UiType, PumpInv
        <4> QED
          BY <4>1, <4>2
      <3> QED
        BY <1>0, <3>1 DEF PumpInv, Reaches
    <2> QED
      BY <2>1, <2>2, Types DEF UiType
  <1>3. CASE Notify!UiSync
    <2>1. /\ ui'.conn = ui.conn /\ ui'.wait = "start" /\ read'.ui = notifyFrames.vpn
          /\ UNCHANGED <<backlog, toUi>>
      BY <1>3, Types DEF Notify!UiSync, UiType
    <2> QED
      BY <1>0, <1>t, <2>1 DEF PumpInv, Reaches
  <1>4. CASE Notify!UiPublish
    <2>1. /\ ui'.conn = ui.conn /\ ui'.wait = ui.wait /\ ui'.held = ui.held
          /\ ui'.wake = ui.wake /\ UNCHANGED <<backlog, toUi, read>>
      BY <1>4, Types DEF Notify!UiPublish, UiType
    <2> QED
      BY <1>0, <2>1 DEF PumpInv, Reaches
  <1>5. CASE Notify!UiNotify
    <2>1. /\ ui'.conn = Newest /\ ui'.wait = ui.wait /\ ui'.held = ui.held
          /\ backlog = <<>> => ui'.wake = ui.wake
          /\ backlog # <<>> => ui'.wake = TRUE
          /\ backlog' = <<>> /\ UNCHANGED <<toUi, read>>
      <3>1. /\ ui'.conn = Notify!Accept(ui).conn /\ ui'.wait = Notify!Accept(ui).wait
            /\ ui'.held = Notify!Accept(ui).held /\ ui'.wake = Notify!Accept(ui).wake
            /\ backlog' = <<>> /\ UNCHANGED <<toUi, read>>
        BY <1>5, Types, AcceptFacts DEF Notify!UiNotify
      <3>2. /\ Notify!Accept(ui).held = ui.held
            /\ backlog = <<>> => Notify!Accept(ui).wake = ui.wake
            /\ backlog # <<>> => Notify!Accept(ui).wake = TRUE
        BY Types DEF Notify!Accept, UiType
      <3> QED
        BY <3>1, <3>2, Types, AcceptFacts
    <2>2. Live.conn = None => Newest = None
      BY <1>0 DEF PumpInv, Newest
    <2>3. backlog = <<>> => Newest = ui.conn
      BY DEF Newest
    <2> QED
      BY <1>0, <2>1, <2>2, <2>3 DEF PumpInv, Reaches
  <1>6. CASE Notify!UiSend
    <2>1. /\ ui'.wait = ui.wait /\ ui'.held = ui.held /\ ui'.wake = ui.wake
          /\ UNCHANGED <<backlog, toUi, read>>
          /\ ui'.conn \in {ui.conn, None}
          /\ ui'.conn = ui.conn \/ (ui.conn = ui.sending /\ ~Notify!PeerOpen(ui.sending))
      <3>1. CASE Notify!PeerOpen(ui.sending)
        <4>1. ui' = [ui EXCEPT !.pub = "idle", !.sending = None] /\ UNCHANGED <<backlog, toUi, read>>
          BY <1>6, <3>1 DEF Notify!UiSend
        <4> QED
          BY <4>1, Types DEF UiType
      <3>2. CASE ~Notify!PeerOpen(ui.sending)
        <4>1. /\ ui' = [ui EXCEPT !.pub = "idle", !.sending = None,
                                  !.conn = IF @ = ui.sending THEN None ELSE @]
              /\ UNCHANGED <<backlog, toUi, read>>
          BY <1>6, <3>2 DEF Notify!UiSend
        <4> QED
          BY <3>2, <4>1, Types DEF UiType
      <3> QED
        BY <3>1, <3>2
    <2>2. backlog = <<>> => ui'.conn = ui.conn
      <3>1. CASE Live.conn = None
        BY <1>0, <2>1, <3>1 DEF PumpInv
      <3>2. CASE Live.conn # None
        BY <1>0, <2>1, <3>2, LiveIsOpen DEF NotifyInv, Linked, Newest
      <3> QED
        BY <3>1, <3>2
    <2> QED
      BY <1>0, <2>1, <2>2 DEF PumpInv, Reaches
  <1>7. CASE Notify!UiDies
    <2>1. ui'.alive = FALSE
      BY <1>7, Types DEF Notify!UiDies, UiType
    <2> QED
      BY <1>0, <2>1 DEF PumpInv
  <1> QED
    BY <1>1, <1>2, <1>3, <1>4, <1>5, <1>6, <1>7

LEMMA PumpPeer ==
  ASSUME Notify!ConstantsOK, NotifyInv, PumpInv,
         Notify!Publish("live") \/ Notify!Notify("live") \/ Notify!Send("live") \/ Notify!Return("live")
  PROVE  PumpInv'
  <1>0. UNCHANGED <<ui, read>>
    BY DEF Notify!Publish, Notify!Notify, Notify!Send, Notify!Return
  <1>t. /\ notifyTold \in Nat /\ Live.frame \in Nat /\ read.ui \in Nat /\ notifyFrames.vpn \in Nat
        /\ Live \in [conn : Nat \cup {None}, pub : {"idle", "notify", "send", "sent"},
                     frame : Nat]
    BY Types DEF PeerType, Notify!Peers, Live
  <1>1. CASE Notify!Publish("live")
    <2>1. peer' = [peer EXCEPT !["live"].pub = "notify", !["live"].frame = notifyFrames.vpn + 1]
      BY <1>1 DEF Notify!Publish
    <2>2. /\ Live'.conn = Live.conn /\ Live'.pub = "notify" /\ Live'.frame = notifyFrames.vpn + 1
      BY <2>1, Types DEF PeerType, Notify!Peers, Live
    <2>3. notifyFrames'.vpn = notifyFrames.vpn + 1 /\ UNCHANGED <<notifyTold, toUi, backlog>>
      BY <1>1, Types DEF Notify!Publish
    <2> QED
      BY <1>0, <1>t, <2>2, <2>3 DEF PumpInv, Reaches
  <1>2. CASE Notify!Notify("live")
    <2>0. UNCHANGED <<notifyTold, notifyFrames, toUi>>
      BY <1>2 DEF Notify!Notify
    <2>1. CASE Notify!Connect("live")
      <3>1. peer' = [peer EXCEPT !["live"].pub = "send", !["live"].conn = made + 1]
        BY <1>2, <2>1, ConnectFacts DEF Notify!Notify, Live
      <3>2. Live'.conn = made + 1 /\ Live'.pub = "send" /\ Live'.frame = Live.frame
        BY <3>1, Types DEF PeerType, Notify!Peers, Live
      <3>3. notifyTold = 0 /\ Live'.conn # None /\ backlog' # <<>>
        BY <2>1, <3>2, ConnectFacts DEF PumpInv
      <3> QED
        BY <1>0, <1>t, <2>0, <3>2, <3>3 DEF PumpInv, Reaches
    <2>2. CASE ~Notify!Connect("live")
      <3>1. /\ UNCHANGED backlog
            /\ \/ peer' = [peer EXCEPT !["live"].pub = "send"]
               \/ ~ui.alive /\ peer' = [peer EXCEPT !["live"].pub = "sent"]
        BY <1>2, <2>2 DEF Notify!Notify, Live
      <3>2. /\ Live'.conn = Live.conn /\ Live'.frame = Live.frame
            /\ ui.alive => Live'.pub = "send"
        BY <3>1, Types DEF PeerType, Notify!Peers, Live
      <3> QED
        BY <1>0, <2>0, <3>1, <3>2 DEF PumpInv, Reaches
    <2> QED
      BY <2>1, <2>2
  <1>3. CASE Notify!Send("live")
    <2>0. UNCHANGED <<notifyTold, notifyFrames, backlog>>
      BY <1>3 DEF Notify!Send
    <2>1. CASE ui.alive
      <3>1. Live.conn # None /\ Notify!UiOpen(Live.conn)
        BY <1>3, <2>1, LiveIsOpen DEF Notify!Send, NotifyInv, Linked, Live
      <3>2. peer' = [peer EXCEPT !["live"].pub = "sent"] /\ toUi' = toUi \cup {Live.conn}
        BY <1>3, <3>1 DEF Notify!Send, Live
      <3>3. Live'.conn = Live.conn /\ Live'.frame = Live.frame
        BY <3>2, Types DEF PeerType, Notify!Peers, Live
      <3> QED
        BY <1>0, <2>0, <3>1, <3>2, <3>3 DEF PumpInv, Reaches
    <2>2. CASE ~ui.alive
      <3>1. Live'.frame = Live.frame
        <4>1. \/ peer' = [peer EXCEPT !["live"].pub = "sent"]
              \/ peer' = [peer EXCEPT !["live"].pub = "sent", !["live"].conn = None]
          BY <1>3 DEF Notify!Send
        <4> QED
          BY <4>1, Types DEF PeerType, Notify!Peers, Live
      <3> QED
        BY <1>0, <2>0, <2>2, <3>1 DEF PumpInv
    <2> QED
      BY <2>1, <2>2
  <1>4. CASE Notify!Return("live")
    <2>1. /\ peer' = [peer EXCEPT !["live"].pub = "idle", !["live"].conn = @]
          /\ Live.pub = "sent" /\ UNCHANGED <<notifyFrames, toUi, backlog>>
          /\ notifyTold' = IF Live.frame > notifyTold THEN Live.frame ELSE notifyTold
      BY <1>4 DEF Notify!Return, Live
    <2>2. Live'.conn = Live.conn /\ Live'.frame = Live.frame /\ Live'.pub = "idle"
      BY <2>1, Types DEF PeerType, Notify!Peers, Live
    <2>3. ui.alive => Live.conn # None
      BY <2>1 DEF NotifyInv, Linked
    <2>4. notifyTold' <= notifyFrames.vpn
      BY <1>t, <2>1 DEF PumpInv
    <2> QED
      BY <1>0, <1>t, <2>1, <2>2, <2>3, <2>4 DEF PumpInv, Reaches
  <1> QED
    BY <1>1, <1>2, <1>3, <1>4

LEMMA PumpOther ==
  ASSUME Notify!ConstantsOK, OneExtension, NotifyInv, PumpInv,
         Notify!Bind \/ Notify!Tick \/ Notify!SubPark \/ Notify!SubWake \/ Notify!CancelWait \/ Notify!Dies \/ UNCHANGED Notify!vars
  PROVE  PumpInv'
  <1>1. ~Notify!Dies
    BY Types DEF Notify!Dies, OneExtension
  <1>2. UNCHANGED <<ui, notifyFrames, notifyTold, toUi>> /\ read'.ui = read.ui
    BY <1>1, Types DEF Notify!Bind, Notify!Tick, Notify!SubPark,
                       Notify!SubWake, Notify!CancelWait, Notify!vars
  <1>3. CASE UNCHANGED <<peer, backlog>>
    BY <1>2, <1>3 DEF PumpInv, Reaches, Live
  <1>4. CASE ~UNCHANGED <<peer, backlog>>
    <2>1. Notify!SubPark \/ Notify!SubWake
      BY <1>1, <1>4 DEF Notify!Bind, Notify!Tick, Notify!CancelWait,
                        Notify!vars
    <2>2. ~ui.alive
      <3>1. CASE Notify!SubPark
        <4>1. ui.alive => Live.conn # None
          BY <3>1 DEF Notify!SubPark, NotifyInv, Linked, Subscribed
        <4>2. ~Notify!Connect("live")
          BY <4>1, ConnectFacts
        <4> QED
          BY <1>4, <3>1, <4>2 DEF Notify!SubPark
      <3>2. CASE Notify!SubWake
        <4>1. ui.alive => Notify!UiOpen(notifySub.held)
          BY <3>2, LiveIsOpen DEF Notify!SubWake, NotifyInv, Subscribed
        <4> QED
          BY <1>4, <3>2, <4>1 DEF Notify!SubWake
      <3> QED
        BY <2>1, <3>1, <3>2
    <2>3. Live'.frame = Live.frame
      <3>1. \/ \E c : peer' = [peer EXCEPT !["live"].conn = c]
            \/ UNCHANGED peer
        BY <2>1 DEF Notify!SubPark, Notify!SubWake
      <3> QED
        BY <3>1, Types DEF PeerType, Notify!Peers, Live
    <2> QED
      BY <1>2, <2>2, <2>3 DEF PumpInv
  <1> QED
    BY <1>3, <1>4

LEMMA PumpNext ==
  ASSUME Notify!ConstantsOK, OneExtension, NotifyInv, PumpInv, [Notify!Next]_Notify!vars PROVE PumpInv'
  <1>1. CASE \E p \in Notify!Peers : Notify!Publish(p) \/ Notify!Notify(p) \/ Notify!Send(p) \/ Notify!Return(p)
    <2>1. PICK p \in Notify!Peers : Notify!Publish(p) \/ Notify!Notify(p) \/ Notify!Send(p) \/ Notify!Return(p)
      BY <1>1
    <2>2. Notify!Publish(p) => p = "live"
      BY Types DEF Notify!Publish, OneExtension, OneBinding, Notify!Peers
    <2>3. p = "live"
      BY <2>1, <2>2, OnlyLive
    <2> QED
      BY <2>1, <2>3, PumpPeer
  <1> QED
    BY <1>1, PumpUi, PumpOther DEF Notify!Next

(* The UI's event pump never sleeps on a frame: while it is parked in      *)
(* wait_internal it has read every frame whose publication by the          *)
(* Extension returned, or a descriptor of its poll set is ready, although  *)
(* publishers of the UI accept connections beside it.                      *)
THEOREM PumpWakes == ASSUME Notify!ConstantsOK, OneExtension PROVE Notify!Spec => []Notify!PumpWillWake
  <1>1. NotifyInv /\ PumpInv => Notify!PumpWillWake
    <2>1. SUFFICES ASSUME NotifyInv, PumpInv, ui.alive, ui.wait = "parked", ~(read.ui >= notifyTold),
                          ~ui.wake, backlog = <<>>
                   PROVE  Notify!UiReady(ui.held)
      BY DEF Notify!PumpWillWake
    <2>2. notifyTold \in Nat /\ read.ui \in Nat
      BY <2>1, Types
    <2>3. Live.conn # None /\ Live.conn \in toUi
      BY <2>1, <2>2 DEF PumpInv, Reaches
    <2>4. ui.held = Live.conn
      BY <2>1, <2>3 DEF PumpInv, NotifyInv, Linked, Newest
    <2> QED
      BY <2>3, <2>4 DEF Notify!UiReady
  <1>2. OneBinding
    BY DEF OneExtension
  <1> QED
    BY <1>1, <1>2, NotifyInit, NotifyNext, PumpInit, PumpNext, PTL
       DEF Notify!Spec

-----------------------------------------------------------------------------
(* The native session.                                                     *)

CONSTANTS Attempts, MaxSyncs, Lwip, PortTaken, PersistFails

VARIABLES gen, life, task, worker, halted, exit, op, core, mixed, proxy,
          watchers, ability, syncs, startedFor

Tun == INSTANCE TunSession

Ops == [kind : {"none", "start", "stop", "sync", "rollback"},
        pc : {"idle", "prepare", "halt", "join", "spawn", "proxy", "check", "mixed",
              "alive", "commit", "drop", "fail", "stopped"},
        then : {"idle", "spawn", "drop", "fail", "stopped"},
        g : Nat, w : Nat]
Cores == [attempt : Nat, outcome : {"Pending", "Connected", "Failed", "Cancelled"},
          starting : BOOLEAN, running : BOOLEAN, stop : BOOLEAN, endpoint : Nat]
Lives == {Tun!Stopped} \union {Tun!Running(g) : g \in Tun!Gens} \union {Tun!Failed(g) : g \in Tun!Gens}

Typed ==
    /\ gen \in 0 .. Tun!MaxGen /\ task \in 0 .. gen /\ syncs \in 0 .. MaxSyncs
    /\ life \in Lives /\ op \in Ops /\ core \in Cores
    /\ core.attempt \in 1 .. Attempts
    /\ worker \in [Tun!Gens -> {"none", "spawned", "up", "closing", "over", "told", "gone"}]
    /\ startedFor \in [Tun!Gens -> Nat]

(* An operation of the Ability runs at its step, and one of the controller *)
(* only while there is a worker it could have found running.               *)
Shaped ==
    /\ op.kind = "none" => op = Tun!Free
    /\ op.kind = "start" => /\ op.pc \notin {"idle", "stopped"}
                            /\ op.pc \in {"halt", "join"} => op.then \in {"spawn", "drop", "fail"}
    /\ op.kind = "stop" => op.pc \in {"halt", "join", "stopped"} /\ op.then = "stopped"
    /\ op.kind \in {"sync", "rollback"} => op.pc \in {"halt", "join", "spawn"} /\ op.then = "spawn"
    /\ op.kind = "start" <=> ability = "starting"
    /\ op.kind = "stop" <=> ability = "stopping"
    /\ op.pc \in {"proxy", "check", "mixed", "alive", "commit"} => op.g # 0
    /\ ability \in {"bound", "ready", "joined", "cleaned"} =>
          op = Tun!Free /\ life = Tun!Stopped /\ task = 0

(* A worker that has not returned is the held one, or the one that is      *)
(* being joined; where a start goes on after its stop there is none.       *)
TunAlone ==
    /\ \A g \in Tun!Gens : worker[g] \in {"none", "gone"} \/ g = task
                       \/ (op.pc = "join" /\ g = op.w)
    /\ op.pc \in {"join", "spawn", "drop", "fail", "stopped"} => task = 0
    /\ op.pc \in {"spawn", "drop", "fail", "stopped"} => life = Tun!Stopped

Owned == life.kind # "Stopped" => startedFor[life.g] = core.attempt

Clean == ability \in {"joined", "cleaned"} => mixed = 0 /\ proxy = 0 /\ ~core.running

(* Generations that the current attempt has used, and that a restart may   *)
(* still use of the four it was given.                                     *)
Spent ==
    IF ability \in {"bound", "ready"} THEN 0
    ELSE IF ability = "starting"
         THEN IF op.pc = "prepare" \/ (op.pc = "halt" /\ op.then = "spawn") THEN 0
              ELSE IF op.pc = "spawn" \/ (op.pc = "join" /\ op.then = "spawn") THEN 1
              ELSE IF op.pc \in {"join", "drop", "fail"} THEN 3 ELSE 2
    ELSE IF ability \in {"returned", "ticking", "up"} THEN 2
    ELSE IF ability = "failing" \/ (ability = "stopping" /\ op.pc = "halt") THEN 3 ELSE 4
Reserved ==
    IF op.kind = "sync" THEN IF op.pc = "halt" THEN 4 ELSE 3
    ELSE IF op.kind = "rollback" THEN IF op.pc = "halt" THEN 3 ELSE 2
    ELSE 0
Budget == gen + Reserved <= 4 * (core.attempt - 1) + 4 * syncs + Spent

Serving ==
    /\ op.pc \in {"check", "mixed"} => proxy # 0
    /\ op.pc \in {"alive", "commit"} => proxy # 0 /\ mixed # 0
    /\ ability \in {"returned", "ticking", "up"}
          /\ (life.kind = "Running" \/ op.kind \in {"sync", "rollback"})
          => proxy # 0 /\ mixed # 0

TunInv == Typed /\ Shaped /\ TunAlone /\ Owned /\ Clean /\ Budget
ServingInv == ~PortTaken => Serving

-----------------------------------------------------------------------------
(* Numbers and records *)

LEMMA Numbers ==
    ASSUME Tun!ConstantsOK
    PROVE  /\ Attempts \in Nat /\ MaxSyncs \in Nat /\ Attempts >= 1
           /\ Tun!MaxGen \in Nat /\ Tun!MaxGen = 4 * Attempts + 4 * MaxSyncs
           /\ Tun!Gens = 1 .. Tun!MaxGen
  BY DEF Tun!ConstantsOK, Tun!MaxGen, Tun!Gens

LEMMA Bounded ==
    ASSUME Tun!ConstantsOK, NEW a \in 1 .. Attempts, NEW s \in 0 .. MaxSyncs, NEW g \in Nat,
           NEW spent \in 0 .. 4, NEW res \in 0 .. 4,
           g + res <= 4 * (a - 1) + 4 * s + spent
    PROVE  g <= Tun!MaxGen
  BY Numbers

LEMMA FreeFacts ==
    /\ Tun!Free \in Ops /\ Tun!Free.kind = "none" /\ Tun!Free.pc = "idle"
    /\ Tun!Free.then = "idle" /\ Tun!Free.g = 0 /\ Tun!Free.w = 0
  BY DEF Tun!Free, Ops

LEMMA ToFacts ==
    ASSUME op \in Ops, NEW pc \in {"check", "mixed", "alive", "commit"}, Tun!To(pc)
    PROVE  /\ op' \in Ops /\ op'.kind = op.kind /\ op'.pc = pc /\ op'.then = op.then
           /\ op'.g = op.g /\ op'.w = op.w
  BY DEF Ops, Tun!To

LEMMA StopThenFacts ==
    ASSUME op \in Ops, NEW pc \in {"spawn", "drop", "fail"}, Tun!StopThen(pc)
    PROVE  /\ op' \in Ops /\ op'.kind = op.kind /\ op'.pc = "halt" /\ op'.then = pc
           /\ op'.g = op.g /\ op'.w = op.w
  BY DEF Ops, Tun!StopThen

LEMMA CoreFacts ==
    ASSUME NEW c \in Cores, NEW g \in Nat
    PROVE  /\ Tun!Failure(c) \in Cores /\ Tun!Failure(c).attempt = c.attempt
           /\ Tun!Failure(c).running = FALSE
           /\ Tun!Cancelled(c) \in Cores /\ Tun!Cancelled(c).attempt = c.attempt
           /\ Tun!Cancelled(c).running = FALSE
           /\ Tun!Connected(c, g) \in Cores /\ Tun!Connected(c, g).attempt = c.attempt
           /\ [Tun!Cancelled(c) EXCEPT !.stop = TRUE] \in Cores
           /\ [Tun!Cancelled(c) EXCEPT !.stop = TRUE].attempt = c.attempt
           /\ [Tun!Cancelled(c) EXCEPT !.stop = TRUE].running = FALSE
  <1>1. Tun!Failure(c) \in Cores /\ Tun!Failure(c).attempt = c.attempt /\ Tun!Failure(c).running = FALSE
    BY DEF Tun!Failure, Cores
  <1>2. /\ Tun!Cancelled(c) \in Cores /\ Tun!Cancelled(c).attempt = c.attempt
        /\ Tun!Cancelled(c).running = FALSE
    BY DEF Tun!Cancelled, Cores
  <1>3. Tun!Connected(c, g) \in Cores /\ Tun!Connected(c, g).attempt = c.attempt
    BY DEF Tun!Connected, Cores
  <1> QED
    BY <1>1, <1>2, <1>3 DEF Cores

LEMMA LifeFacts ==
    /\ Tun!Stopped.kind = "Stopped"
    /\ \A g \in Tun!Gens : Tun!Running(g).kind = "Running" /\ Tun!Running(g).g = g
                       /\ Tun!Failed(g).kind = "Failed" /\ Tun!Failed(g).g = g
    /\ \A l \in Lives : \/ l = Tun!Stopped
                        \/ \E g \in Tun!Gens : l = Tun!Running(g) \/ l = Tun!Failed(g)
  BY DEF Tun!Stopped, Tun!Running, Tun!Failed, Lives

LEMMA TunInit == ASSUME Tun!ConstantsOK, Tun!Init PROVE TunInv
  <1>1. Tun!Bound(1) \in Cores /\ Tun!Bound(1).attempt = 1 /\ Tun!Bound(1).running = FALSE
    BY DEF Tun!Bound, Cores
  <1>2. Typed
    BY <1>1, FreeFacts, Numbers DEF Tun!Init, Typed, Lives
  <1>3. Budget
    BY <1>1, FreeFacts DEF Tun!Init, Budget, Spent, Reserved
  <1> QED
    BY <1>1, <1>2, <1>3, FreeFacts, LifeFacts
       DEF Tun!Init, TunInv, Shaped, TunAlone, Owned, Clean

-----------------------------------------------------------------------------
(* The worker *)

LEMMA TunWorkerStep ==
    ASSUME Tun!ConstantsOK, TunInv, Tun!WorkerNext
    PROVE  TunInv' /\ Tun!WorkerOnly /\ (life'.kind = "Running" => life.kind = "Running")
  <1>1. PICK g \in Tun!Gens : \/ Tun!WorkerEnters(g) \/ Tun!WorkerEnds(g) \/ Tun!WorkerCloses(g)
                              \/ Tun!PublishTaskExit(g) \/ Tun!WorkerGone(g)
    BY DEF Tun!WorkerNext
  <1>2. Tun!WorkerOnly
    BY <1>1 DEF Tun!WorkerEnters, Tun!WorkerEnds, Tun!WorkerCloses,
                Tun!PublishTaskExit, Tun!WorkerGone
  <1>3. /\ worker[g] \notin {"none", "gone"}
        /\ \E pc \in {"up", "closing", "over", "told", "gone"} : worker' = [worker EXCEPT ![g] = pc]
    BY <1>1 DEF Tun!WorkerEnters, Tun!WorkerEnds, Tun!WorkerCloses,
                Tun!PublishTaskExit, Tun!WorkerGone, Tun!Goes
  <1>4. life' = life \/ (life = Tun!Running(g) /\ life' = Tun!Failed(g))
    BY <1>1 DEF Tun!WorkerEnters, Tun!WorkerEnds, Tun!WorkerCloses,
                Tun!PublishTaskExit, Tun!WorkerGone
  <1>5. /\ life' \in Lives /\ (life = Tun!Stopped => life' = Tun!Stopped)
        /\ (life'.kind # "Stopped" => life.kind # "Stopped" /\ life'.g = life.g)
        /\ (life'.kind = "Running" => life.kind = "Running")
    <2>1. Tun!Running(g) # Tun!Stopped /\ life \in Lives /\ Tun!Failed(g) \in Lives
      BY LifeFacts DEF TunInv, Typed, Lives
    <2> QED
      BY <1>4, <2>1, LifeFacts
  <1>6. Typed'
    BY <1>2, <1>3, <1>5 DEF TunInv, Typed, Tun!WorkerOnly
  <1>7. TunAlone'
    <2>1. \A h \in Tun!Gens : worker'[h] \in {"none", "gone"} \/ worker[h] \notin {"none", "gone"}
      BY <1>3 DEF TunInv, Typed
    <2> QED
      BY <1>2, <1>5, <2>1 DEF TunInv, TunAlone, Tun!WorkerOnly
  <1>8. Shaped' /\ Owned' /\ Clean'
    BY <1>2, <1>5 DEF TunInv, Shaped, Owned, Clean, Tun!WorkerOnly
  <1>9. Budget'
    BY <1>2 DEF TunInv, Budget, Spent, Reserved, Tun!WorkerOnly
  <1> QED
    BY <1>2, <1>5, <1>6, <1>7, <1>8, <1>9 DEF TunInv

-----------------------------------------------------------------------------
(* stop_locked and start *)

LEMMA HaltStep == ASSUME Tun!ConstantsOK, TunInv, Tun!Halt PROVE TunInv'
  <1>1. /\ op.pc = "halt" /\ gen' = gen + 1 /\ task' = 0
        /\ op' = [op EXCEPT !.pc = "join", !.w = task]
        /\ UNCHANGED <<life, worker, core, mixed, proxy, ability, startedFor, syncs>>
    BY DEF Tun!Halt, Tun!OpOnly, Tun!listeners
  <1>2. /\ gen \in Nat /\ task \in Nat /\ op \in Ops /\ core.attempt \in 1 .. Attempts
        /\ syncs \in 0 .. MaxSyncs
    BY Numbers DEF TunInv, Typed
  <1>3. /\ op' \in Ops /\ op'.kind = op.kind /\ op'.pc = "join" /\ op'.then = op.then
        /\ op'.g = op.g /\ op'.w = task /\ op # Tun!Free
    BY <1>1, <1>2, FreeFacts DEF Ops
  <1>4. Shaped'
    BY <1>1, <1>3, FreeFacts DEF TunInv, Shaped
  <1>5. Budget'
    <2>1. Spent - Reserved < Spent' - Reserved'
      <3>1. CASE op.kind \in {"sync", "rollback"}
        <4>1. ability \notin {"starting", "stopping"}
          BY <3>1 DEF TunInv, Shaped
        <4>2. Spent' = Spent /\ Spent \in Int
          BY <1>1, <4>1 DEF Spent
        <4>3. Reserved' = Reserved - 1 /\ Reserved \in Int
          BY <1>1, <1>3, <3>1 DEF Reserved
        <4> QED
          BY <4>2, <4>3
      <3>2. CASE op.kind \in {"start", "stop"}
        <4>1. Reserved' = 0 /\ Reserved = 0
          BY <1>3, <3>2 DEF Reserved
        <4>2. CASE op.kind = "start"
          <5>1. ability = "starting" /\ ability' = "starting"
            BY <1>1, <4>2 DEF TunInv, Shaped
          <5> QED
            BY <1>1, <1>3, <4>1, <5>1 DEF Spent
        <4>3. CASE op.kind = "stop"
          <5>1. ability = "stopping" /\ ability' = "stopping"
            BY <1>1, <4>3 DEF TunInv, Shaped
          <5> QED
            BY <1>1, <1>3, <4>1, <5>1 DEF Spent
        <4> QED
          BY <3>2, <4>2, <4>3
      <3> QED
        BY <1>2, <1>3, <3>1, <3>2 DEF TunInv, Shaped, Ops
    <2>2. Spent \in Int /\ Spent' \in Int /\ Reserved \in Int /\ Reserved' \in Int
      BY DEF Spent, Reserved
    <2> QED
      BY <1>1, <1>2, <2>1, <2>2 DEF TunInv, Budget
  <1>6. gen' <= Tun!MaxGen
    <2>1. Spent' \in 0 .. 4 /\ Reserved' \in 0 .. 4
      BY DEF Spent, Reserved
    <2>2. gen' \in Nat /\ core'.attempt \in 1 .. Attempts /\ syncs' \in 0 .. MaxSyncs
      BY <1>1, <1>2
    <2> QED
      BY <1>5, <2>1, <2>2, Bounded DEF Budget
  <1>7. Typed'
    BY <1>1, <1>2, <1>3, <1>6, Numbers DEF TunInv, Typed
  <1>8. TunAlone'
    BY <1>1, <1>3 DEF TunInv, TunAlone
  <1> QED
    BY <1>1, <1>4, <1>5, <1>7, <1>8 DEF TunInv, Owned, Clean

LEMMA JoinStep == ASSUME Tun!ConstantsOK, TunInv, Tun!Join PROVE TunInv'
  <1>1. /\ op.pc = "join" /\ (op.w # 0 => worker[op.w] = "gone") /\ life' = Tun!Stopped
        /\ op' = [op EXCEPT !.pc = op.then]
        /\ UNCHANGED <<gen, task, worker, core, mixed, proxy, ability, startedFor, syncs>>
    BY DEF Tun!Join, Tun!To, Tun!OpOnly, Tun!listeners, Tun!workers
  <1>2. op \in Ops /\ op.then \in {"spawn", "drop", "fail", "stopped"} /\ op # Tun!Free
    <2>1. op \in Ops /\ op # Tun!Free
      BY <1>1, FreeFacts DEF TunInv, Typed
    <2> QED
      BY <1>1, <2>1 DEF TunInv, Shaped, Ops
  <1>3. /\ op' \in Ops /\ op'.kind = op.kind /\ op'.pc = op.then /\ op'.then = op.then
        /\ op'.g = op.g
    BY <1>1, <1>2 DEF Ops
  <1>4. Shaped'
    BY <1>1, <1>2, <1>3, FreeFacts DEF TunInv, Shaped
  <1>5. Budget'
    <2>1. gen \in Nat /\ core.attempt \in Nat /\ syncs \in Nat
      BY Numbers DEF TunInv, Typed
    <2> QED
      BY <1>1, <1>2, <1>3, <2>1 DEF TunInv, Shaped, Budget, Spent, Reserved
  <1>6. Typed'
    BY <1>1, <1>3 DEF TunInv, Typed, Lives
  <1>7. TunAlone'
    <2>1. \A g \in Tun!Gens : g = op.w => worker[g] = "gone"
      BY <1>1, Numbers
    <2> QED
      BY <1>1, <1>2, <1>3, <2>1 DEF TunInv, TunAlone
  <1> QED
    BY <1>1, <1>4, <1>5, <1>6, <1>7, LifeFacts DEF TunInv, Owned, Clean

LEMMA TunSpawnStep == ASSUME Tun!ConstantsOK, TunInv, Tun!Spawn PROVE TunInv'
  <1>1. /\ op.pc = "spawn" /\ gen' = gen + 1 /\ life' = Tun!Running(gen') /\ task' = gen'
        /\ worker' = [worker EXCEPT ![gen'] = "spawned"]
        /\ startedFor' = [startedFor EXCEPT ![gen'] = core.attempt]
        /\ op' = IF op.kind = "start" THEN [op EXCEPT !.pc = "proxy", !.g = gen'] ELSE Tun!Free
        /\ UNCHANGED <<core, mixed, proxy, ability, syncs>>
    BY DEF Tun!Spawn, Tun!Goes, Tun!OpOnly, Tun!listeners
  <1>2. /\ gen \in Nat /\ op \in Ops /\ core \in Cores /\ core.attempt \in 1 .. Attempts
        /\ syncs \in 0 .. MaxSyncs /\ op # Tun!Free
    BY <1>1, Numbers, FreeFacts DEF TunInv, Typed
  <1>4. op.kind = "start" \/ op.kind \in {"sync", "rollback"}
    BY <1>1, <1>2 DEF TunInv, Shaped, Ops
  <1>5. /\ op' \in Ops
        /\ op.kind = "start" => op'.kind = "start" /\ op'.pc = "proxy" /\ op'.g = gen'
        /\ op.kind # "start" => op' = Tun!Free
    <2>1. gen' \in Nat
      BY <1>1, <1>2
    <2> QED
      BY <1>1, <1>2, <2>1, FreeFacts DEF Ops
  <1>6. Shaped'
    <2>1. ability \notin {"bound", "ready", "joined", "cleaned", "stopping"}
      BY <1>1, <1>2, <1>4 DEF TunInv, Shaped
    <2>2. gen' # 0
      BY <1>1, <1>2
    <2> QED
      BY <1>1, <1>4, <1>5, <2>1, <2>2, FreeFacts DEF TunInv, Shaped
  <1>7. Budget'
    BY <1>1, <1>2, <1>4, <1>5, FreeFacts
       DEF TunInv, Shaped, Budget, Spent, Reserved
  <1>8. gen' \in Tun!Gens
    <2>1. Spent' \in 0 .. 4 /\ Reserved' \in 0 .. 4
      BY DEF Spent, Reserved
    <2>2. gen' \in Nat /\ core'.attempt \in 1 .. Attempts /\ syncs' \in 0 .. MaxSyncs
      BY <1>1, <1>2
    <2>3. gen' <= Tun!MaxGen
      BY <1>7, <2>1, <2>2, Bounded DEF Budget
    <2> QED
      BY <1>1, <1>2, <2>3, Numbers
  <1>9. Typed'
    <2>1. gen' \in 0 .. Tun!MaxGen /\ task' \in 0 .. gen' /\ life' \in Lives
      BY <1>1, <1>2, <1>8, Numbers DEF Lives
    <2>2. /\ worker' \in [Tun!Gens -> {"none", "spawned", "up", "closing", "over", "told", "gone"}]
          /\ startedFor' \in [Tun!Gens -> Nat]
      <3>1. core.attempt \in Nat
        BY <1>2
      <3> QED
        BY <1>1, <3>1 DEF TunInv, Typed
    <2> QED
      BY <1>1, <1>2, <1>5, <2>1, <2>2 DEF TunInv, Typed
  <1>10. TunAlone'
    <2>1. \A g \in Tun!Gens : worker[g] \in {"none", "gone"}
      BY <1>1, Numbers DEF TunInv, TunAlone
    <2>2. \A g \in Tun!Gens : g # gen' => worker'[g] = worker[g]
      BY <1>1 DEF TunInv, Typed
    <2>3. op'.pc \in {"proxy", "idle"}
      BY <1>5, FreeFacts
    <2> QED
      BY <1>1, <2>1, <2>2, <2>3 DEF TunAlone
  <1>11. Owned'
    <2>1. life'.g = gen' /\ startedFor'[gen'] = core.attempt
      BY <1>1, <1>8, LifeFacts DEF TunInv, Typed
    <2> QED
      BY <1>1, <2>1 DEF Owned
  <1> QED
    BY <1>1, <1>6, <1>7, <1>9, <1>10, <1>11 DEF TunInv, Clean

-----------------------------------------------------------------------------
(* The steps that leave the worker alone *)

(* An operation goes on, begins or ends.                                   *)
LEMMA OpKeeps ==
    ASSUME TunInv, UNCHANGED <<gen, task, life, worker, startedFor>>,
           syncs' \in 0 .. MaxSyncs, op.pc # "join",
           op' \in Ops, op'.pc \notin {"join", "spawn", "drop", "fail", "stopped"},
           core' \in Cores, core'.attempt = core.attempt
    PROVE  Typed' /\ TunAlone' /\ Owned'
  BY DEF TunInv, Typed, TunAlone, Owned

(* The Ability goes on by itself.                                          *)
LEMMA AbilityKeeps ==
    ASSUME TunInv, UNCHANGED <<gen, task, life, worker, startedFor, syncs, op>>,
           core' \in Cores, core'.attempt = core.attempt
    PROVE  Typed' /\ TunAlone' /\ Owned'
  BY DEF TunInv, Typed, TunAlone, Owned

LEMMA StartOnlyFacts ==
    ASSUME Tun!ConstantsOK, TunInv, Tun!StartOnly
    PROVE  /\ UNCHANGED <<gen, task, life, worker, startedFor, syncs>>
           /\ syncs' \in 0 .. MaxSyncs /\ gen \in Nat /\ syncs \in Nat
           /\ op \in Ops /\ core \in Cores /\ core.attempt \in Nat
  BY Numbers DEF Tun!StartOnly, Tun!OpOnly, Tun!session, Tun!workers, TunInv,
                 Typed

LEMMA StartBegins == ASSUME Tun!ConstantsOK, TunInv, Tun!StartVpn PROVE TunInv'
  <1> DEFINE Begun == [Tun!Free EXCEPT !.kind = "start", !.pc = "prepare"]
  <1>1. /\ op = Tun!Free /\ ability = "ready" /\ UNCHANGED <<core, mixed, proxy>> /\ Tun!StartOnly
        /\ \/ ability' = "starting" /\ op' = Begun
           \/ ability' = "failing" /\ op' = Tun!Free
    BY DEF Tun!StartVpn, Tun!listeners
  <1>2. Begun \in Ops /\ Begun.kind = "start" /\ Begun.pc = "prepare"
    BY DEF Tun!Free, Ops
  <1> HIDE DEF Begun
  <1>3. Typed' /\ TunAlone' /\ Owned'
    BY <1>1, <1>2, FreeFacts, StartOnlyFacts, OpKeeps
  <1>4. Shaped' /\ Clean'
    BY <1>1, <1>2, FreeFacts DEF Shaped, Clean
  <1>5. Budget'
    BY <1>1, <1>2, FreeFacts, StartOnlyFacts
       DEF TunInv, Budget, Spent, Reserved
  <1> QED
    BY <1>3, <1>4, <1>5 DEF TunInv

(* A step of start_vpn_inner between its stops: to another check, to a     *)
(* stop, or out of the start.                                              *)
Passes ==
    /\ op.pc \in {"proxy", "check", "mixed", "alive"}
    /\ \E pc \in {"check", "mixed", "alive", "commit"} : Tun!To(pc)
    /\ UNCHANGED ability
Stops ==
    /\ \/ op.pc = "prepare" /\ Tun!StopThen("spawn")
       \/ op.pc \in {"proxy", "check", "mixed", "commit"} /\ (Tun!StopThen("drop") \/ Tun!StopThen("fail"))
    /\ UNCHANGED ability
Leaves ==
    /\ op.pc \in {"prepare", "spawn", "alive", "drop", "fail"} /\ op' = Tun!Free
    /\ ability' = "failing"
Returns == op.pc = "commit" /\ op' = Tun!Free /\ ability' = "returned"

LEMMA StartGoesOn ==
    ASSUME Tun!ConstantsOK, TunInv, Tun!StartOnly, op.kind = "start",
           Passes \/ Stops \/ Leaves \/ Returns,
           core' \in Cores, core'.attempt = core.attempt
    PROVE  TunInv'
  <1>1. ability = "starting" /\ op.pc # "join" /\ op # Tun!Free
    BY FreeFacts DEF TunInv, Shaped, Passes, Stops, Leaves, Returns
  <1>2. op \in Ops /\ UNCHANGED <<gen, task, life, worker, startedFor, syncs>>
    BY StartOnlyFacts
  <1>3. CASE Passes
    <2>1. PICK pc \in {"check", "mixed", "alive", "commit"} : Tun!To(pc)
      BY <1>3 DEF Passes
    <2>2. /\ op' \in Ops /\ op'.kind = "start" /\ op'.pc = pc /\ op'.g = op.g
          /\ ability' = "starting"
      BY <1>1, <1>2, <1>3, <2>1, ToFacts DEF Passes
    <2>3. Typed' /\ TunAlone' /\ Owned'
      BY <1>1, <2>2, StartOnlyFacts, OpKeeps
    <2>4. Shaped' /\ Clean'
      BY <1>3, <2>2 DEF TunInv, Shaped, Clean, Passes
    <2>5. Budget'
      BY <1>1, <1>3, <2>2, StartOnlyFacts
         DEF TunInv, Budget, Spent, Reserved, Passes
    <2> QED
      BY <2>3, <2>4, <2>5 DEF TunInv
  <1>4. CASE Stops
    <2>1. PICK pc \in {"spawn", "drop", "fail"} :
              Tun!StopThen(pc) /\ (op.pc = "prepare" <=> pc = "spawn")
      BY <1>4 DEF Stops
    <2>2. /\ op' \in Ops /\ op'.kind = "start" /\ op'.pc = "halt" /\ op'.then = pc
          /\ ability' = "starting"
      BY <1>1, <1>2, <1>4, <2>1, StopThenFacts DEF Stops
    <2>3. Typed' /\ TunAlone' /\ Owned'
      BY <1>1, <2>2, StartOnlyFacts, OpKeeps
    <2>4. Shaped' /\ Clean'
      BY <2>2 DEF Shaped, Clean
    <2>5. Budget'
      BY <1>1, <1>4, <2>1, <2>2, StartOnlyFacts
         DEF TunInv, Budget, Spent, Reserved, Stops
    <2> QED
      BY <2>3, <2>4, <2>5 DEF TunInv
  <1>5. CASE Leaves \/ Returns
    <2>1. op' = Tun!Free /\ ability' \in {"failing", "returned"}
      BY <1>5 DEF Leaves, Returns
    <2>2. Typed' /\ TunAlone' /\ Owned'
      BY <1>1, <2>1, FreeFacts, StartOnlyFacts, OpKeeps
    <2>3. Shaped' /\ Clean'
      BY <2>1, FreeFacts DEF Shaped, Clean
    <2>4. Budget'
      BY <1>1, <1>5, <2>1, FreeFacts, StartOnlyFacts
         DEF TunInv, Budget, Spent, Reserved, Leaves, Returns
    <2> QED
      BY <2>2, <2>3, <2>4 DEF TunInv
  <1> QED
    BY <1>3, <1>4, <1>5

LEMMA StartStep ==
    ASSUME Tun!ConstantsOK, TunInv,
           \/ Tun!Prepare \/ Tun!StartRefused \/ Tun!StartProxy \/ Tun!CheckAfterProxy
           \/ Tun!RestartMixedListener \/ Tun!CheckAlive \/ Tun!Commit \/ Tun!DropListeners \/ Tun!Fail
    PROVE  TunInv'
  <1>1. Tun!StartOnly
    BY DEF Tun!Prepare, Tun!StartRefused, Tun!StartProxy, Tun!CheckAfterProxy,
           Tun!RestartMixedListener, Tun!CheckAlive, Tun!Commit,
           Tun!DropListeners, Tun!Fail
  <1>2. Passes \/ Stops \/ Leaves \/ Returns
    BY DEF Tun!Prepare, Tun!StartRefused, Tun!StartProxy, Tun!CheckAfterProxy,
           Tun!RestartMixedListener, Tun!CheckAlive, Tun!Commit,
           Tun!DropListeners, Tun!Fail, Tun!StartFails, Passes, Stops, Leaves,
           Returns
  <1>3. op.kind = "start"
    <2>1. op.pc \in {"prepare", "proxy", "check", "mixed", "alive", "commit", "drop", "fail"}
          \/ op.kind = "start"
      BY DEF Tun!Prepare, Tun!StartRefused, Tun!StartProxy,
             Tun!CheckAfterProxy, Tun!RestartMixedListener, Tun!CheckAlive,
             Tun!Commit, Tun!DropListeners, Tun!Fail
    <2> QED
      BY <1>1, <2>1, FreeFacts, StartOnlyFacts DEF TunInv, Shaped, Ops
  <1>4. core' = core \/ core' = Tun!Connected(core, op.g)
    BY DEF Tun!Prepare, Tun!StartRefused, Tun!StartProxy, Tun!CheckAfterProxy,
           Tun!RestartMixedListener, Tun!CheckAlive, Tun!Commit,
           Tun!DropListeners, Tun!Fail
  <1>5. core' \in Cores /\ core'.attempt = core.attempt
    <2>1. op.g \in Nat
      BY <1>1, StartOnlyFacts DEF Ops
    <2> QED
      BY <1>1, <1>4, <2>1, CoreFacts, StartOnlyFacts
  <1> QED
    BY <1>1, <1>2, <1>3, <1>5, StartGoesOn

LEMMA StopStep == ASSUME Tun!ConstantsOK, TunInv, Tun!StopVpn \/ Tun!StopReturns PROVE TunInv'
  <1>1. Tun!StartOnly
    BY DEF Tun!StopVpn, Tun!StopReturns
  <1>2. CASE Tun!StopVpn
    <2> DEFINE Begun == [Tun!Free EXCEPT !.kind = "stop", !.pc = "halt", !.then = "stopped"]
    <2>1. /\ op = Tun!Free /\ ability = "failing" /\ core' = [Tun!Cancelled(core) EXCEPT !.stop = TRUE]
          /\ \/ op' = Begun /\ ability' = "stopping"
             \/ op' = Tun!Free /\ ability' = "unclean"
      BY <1>2 DEF Tun!StopVpn
    <2>2. Begun \in Ops /\ Begun.kind = "stop" /\ Begun.pc = "halt" /\ Begun.then = "stopped"
      BY DEF Tun!Free, Ops
    <2> HIDE DEF Begun
    <2>3. core' \in Cores /\ core'.attempt = core.attempt
      BY <1>1, <2>1, CoreFacts, StartOnlyFacts
    <2>4. Typed' /\ TunAlone' /\ Owned'
      BY <1>1, <2>1, <2>2, <2>3, FreeFacts, StartOnlyFacts, OpKeeps
    <2>5. Shaped' /\ Clean'
      BY <2>1, <2>2, FreeFacts DEF Shaped, Clean
    <2>6. Budget'
      BY <1>1, <2>1, <2>2, <2>3, FreeFacts, StartOnlyFacts
         DEF TunInv, Budget, Spent, Reserved
    <2> QED
      BY <2>4, <2>5, <2>6 DEF TunInv
  <1>3. CASE Tun!StopReturns
    <2>1. /\ op.pc = "stopped" /\ op' = Tun!Free /\ mixed' = 0 /\ proxy' = 0
          /\ core' = Tun!Cancelled(core) /\ ability' \in {"joined", "unclean"}
      BY <1>3 DEF Tun!StopReturns, Tun!StopMixedListener
    <2>2. core' \in Cores /\ core'.attempt = core.attempt /\ core'.running = FALSE
      BY <1>1, <2>1, CoreFacts, StartOnlyFacts
    <2>3. op.kind = "stop" /\ ability = "stopping" /\ life = Tun!Stopped /\ task = 0
      BY <1>1, <2>1, FreeFacts, StartOnlyFacts
         DEF TunInv, Shaped, TunAlone, Ops
    <2>4. Typed' /\ TunAlone' /\ Owned'
      BY <1>1, <2>1, <2>2, FreeFacts, StartOnlyFacts, OpKeeps
    <2>5. Shaped' /\ Clean'
      BY <1>1, <2>1, <2>2, <2>3, FreeFacts, StartOnlyFacts DEF Shaped, Clean
    <2>6. Budget'
      BY <1>1, <2>1, <2>2, <2>3, FreeFacts, StartOnlyFacts
         DEF TunInv, Budget, Spent, Reserved
    <2> QED
      BY <2>4, <2>5, <2>6 DEF TunInv
  <1> QED
    BY <1>2, <1>3

LEMMA SyncStep == ASSUME Tun!ConstantsOK, TunInv, Tun!SyncRestarts \/ Tun!SyncRefused PROVE TunInv'
  <1>1. CASE Tun!SyncRestarts
    <2> DEFINE Begun == [Tun!Free EXCEPT !.kind = "sync", !.pc = "halt", !.then = "spawn"]
    <2>1. /\ op = Tun!Free /\ syncs < MaxSyncs /\ life = Tun!Running(gen) /\ syncs' = syncs + 1
          /\ op' = Begun
          /\ UNCHANGED <<gen, task, life, worker, startedFor, core, mixed, proxy, ability>>
      BY <1>1 DEF Tun!SyncRestarts, Tun!session, Tun!workers, Tun!listeners
    <2>2. Begun \in Ops /\ Begun.kind = "sync" /\ Begun.pc = "halt" /\ Begun.then = "spawn"
      BY DEF Tun!Free, Ops
    <2> HIDE DEF Begun
    <2>3. /\ gen \in Nat /\ syncs \in Nat /\ syncs' \in 0 .. MaxSyncs /\ core \in Cores
          /\ core.attempt \in Nat
      BY <2>1, Numbers DEF TunInv, Typed
    <2>4. life # Tun!Stopped
      BY <2>1 DEF Tun!Running, Tun!Stopped
    <2>5. Typed' /\ TunAlone' /\ Owned'
      BY <2>1, <2>2, <2>3, FreeFacts, OpKeeps
    <2>6. Shaped' /\ Clean'
      BY <2>1, <2>2, <2>4, FreeFacts DEF TunInv, Shaped, Clean
    <2>7. Budget'
      <3>1. Spent' = Spent /\ Spent \in Int
        BY <2>1, <2>2, <2>4, FreeFacts DEF TunInv, Shaped, Spent
      <3>2. Reserved = 0 /\ Reserved' = 4
        BY <2>1, <2>2, FreeFacts DEF Reserved
      <3> QED
        BY <2>1, <2>3, <3>1, <3>2 DEF TunInv, Budget
    <2> QED
      BY <2>5, <2>6, <2>7 DEF TunInv
  <1>2. CASE Tun!SyncRefused
    <2>1. /\ Tun!StartOnly /\ op.pc = "spawn" /\ op.kind \in {"sync", "rollback"}
          /\ UNCHANGED <<core, mixed, proxy, ability>>
          /\ \/ op.kind = "sync" /\ op' = [op EXCEPT !.kind = "rollback", !.pc = "halt"]
             \/ op' = Tun!Free
      BY <1>2 DEF Tun!SyncRefused, Tun!listeners
    <2>2. /\ op' \in Ops /\ op.then = "spawn"
          /\ \/ /\ op.kind = "sync" /\ op'.kind = "rollback" /\ op'.pc = "halt"
                /\ op'.then = "spawn"
             \/ op' = Tun!Free
      <3>1. op \in Ops /\ op.then = "spawn"
        BY <2>1, StartOnlyFacts DEF TunInv, Shaped
      <3> QED
        BY <2>1, <3>1, FreeFacts DEF Ops
    <2>3. Typed' /\ TunAlone' /\ Owned'
      BY <2>1, <2>2, FreeFacts, StartOnlyFacts, OpKeeps
    <2>4. ability \notin {"starting", "stopping", "bound", "ready", "joined", "cleaned"}
      BY <2>1, FreeFacts DEF TunInv, Shaped
    <2>5. Shaped' /\ Clean'
      BY <2>1, <2>2, <2>4, FreeFacts DEF Shaped, Clean
    <2>6. Budget'
      <3>1. Spent' = Spent /\ Spent \in Int
        BY <2>1, <2>4 DEF Spent
      <3>2. Reserved' <= Reserved /\ Reserved \in Int /\ Reserved' \in Int
        BY <2>1, <2>2, FreeFacts DEF Reserved
      <3> QED
        BY <2>1, <3>1, <3>2, StartOnlyFacts DEF TunInv, Budget
    <2> QED
      BY <2>3, <2>5, <2>6 DEF TunInv
  <1> QED
    BY <1>1, <1>2

-----------------------------------------------------------------------------
(* Watchers, ticks, the UI and the next attempt *)

(* The Ability or a watcher steps, and no operation.                       *)
LEMMA OutsideKeeps ==
    ASSUME Tun!ConstantsOK, TunInv, UNCHANGED <<gen, task, life, worker, startedFor, syncs, op>>,
           core' \in Cores, core'.attempt = core.attempt,
           \/ ability' = ability /\ Clean'
           \/ ability = "bound" /\ ability' = "ready"
           \/ ability \in {"bound", "ticking", "up"} /\ ability' = "failing"
           \/ ability = "returned" /\ ability' = "ticking"
           \/ ability = "ticking" /\ ability' = "up"
           \/ ability = "joined" /\ ability' = "cleaned" /\ UNCHANGED <<mixed, proxy, core>>
    PROVE  TunInv'
  <1>1. Typed' /\ TunAlone' /\ Owned'
    BY AbilityKeeps
  <1>2. Shaped'
    BY DEF TunInv, Shaped
  <1>3. Clean'
    BY DEF TunInv, Clean
  <1>4. Budget'
    <2>1. gen \in Nat /\ syncs \in Nat /\ core.attempt \in Nat
      BY Numbers DEF TunInv, Typed
    <2>2. Spent <= Spent' /\ Spent \in Int /\ Spent' \in Int
      BY DEF Spent
    <2>3. Reserved' = Reserved /\ Reserved \in Int
      BY DEF Reserved
    <2> QED
      BY <2>1, <2>2, <2>3 DEF TunInv, Budget
  <1> QED
    BY <1>1, <1>2, <1>3, <1>4 DEF TunInv

LEMMA WatcherStep ==
    ASSUME Tun!ConstantsOK, TunInv, NEW w \in watchers, Tun!AwaitExit(w) \/ Tun!PublishNativeVpnExit(w)
    PROVE  TunInv'
  <1>1. UNCHANGED <<gen, task, life, worker, startedFor, syncs, op, ability>>
    BY DEF Tun!AwaitExit, Tun!PublishNativeVpnExit, Tun!session, Tun!workers
  <1>2. /\ core' = core \/ core' = Tun!Failure(core)
        /\ UNCHANGED <<mixed, proxy>> \/ (mixed' = 0 /\ proxy' = 0)
    BY DEF Tun!AwaitExit, Tun!PublishNativeVpnExit, Tun!listeners,
           Tun!StopMixedListener
  <1>3. core \in Cores /\ core' \in Cores /\ core'.attempt = core.attempt
        /\ (core'.running => core.running)
    <2>1. core \in Cores
      BY DEF TunInv, Typed
    <2> QED
      BY <1>2, <2>1, CoreFacts
  <1>4. Clean'
    BY <1>1, <1>2, <1>3 DEF TunInv, Clean
  <1> QED
    BY <1>1, <1>3, <1>4, OutsideKeeps

LEMMA TickedFacts ==
    ASSUME core \in Cores PROVE Tun!Ticked \in Cores /\ Tun!Ticked.attempt = core.attempt
  <1>1. Tun!Failure(core) \in Cores /\ Tun!Failure(core).attempt = core.attempt
    BY CoreFacts
  <1>2. ASSUME NEW c, c = [core EXCEPT !.starting = FALSE, !.running = TRUE,
                                       !.outcome = "Connected"]
        PROVE  c \in Cores /\ c.attempt = core.attempt
    BY <1>2 DEF Cores
  <1>3. \/ Tun!Ticked = core \/ Tun!Ticked = Tun!Failure(core)
        \/ Tun!Ticked = [core EXCEPT !.starting = FALSE, !.running = TRUE, !.outcome = "Connected"]
    BY DEF Tun!Ticked
  <1> QED
    BY <1>1, <1>2, <1>3

LEMMA AbilityStep ==
    ASSUME Tun!ConstantsOK, TunInv,
           Tun!BoundTick \/ Tun!StartedTick \/ Tun!Heartbeat \/ Tun!SpawnWatcher \/ Tun!UiStops \/ Tun!DestroyConnection
    PROVE  TunInv'
  <1>1. UNCHANGED <<gen, task, life, worker, startedFor, syncs, op, mixed, proxy>>
    BY DEF Tun!BoundTick, Tun!StartedTick, Tun!Heartbeat, Tun!Tick,
           Tun!SpawnWatcher, Tun!UiStops, Tun!DestroyConnection, Tun!session,
           Tun!workers, Tun!listeners
  <1>2. core \in Cores
    BY DEF TunInv, Typed
  <1>3. \/ core' = core \/ core' = Tun!Ticked
        \/ core' = [Tun!Cancelled(core) EXCEPT !.stop = TRUE]
    BY DEF Tun!BoundTick, Tun!StartedTick, Tun!Heartbeat, Tun!Tick,
           Tun!SpawnWatcher, Tun!UiStops, Tun!DestroyConnection
  <1>4. core' \in Cores /\ core'.attempt = core.attempt
    BY <1>2, <1>3, TickedFacts, CoreFacts
  <1>5. CASE Tun!UiStops
    <2>1. ability' = ability /\ core'.running = FALSE
      BY <1>2, <1>5, CoreFacts DEF Tun!UiStops
    <2>2. Clean'
      BY <1>1, <2>1 DEF TunInv, Clean
    <2> QED
      BY <1>1, <1>4, <2>1, <2>2, OutsideKeeps
  <1>6. CASE Tun!Heartbeat
    <2>1. ability = "up" /\ (ability' = "failing" \/ (ability' = ability /\ Clean'))
      BY <1>6 DEF Tun!Heartbeat, Clean
    <2> QED
      BY <1>1, <1>4, <2>1, OutsideKeeps
  <1>7. CASE Tun!BoundTick \/ Tun!StartedTick \/ Tun!SpawnWatcher
    BY <1>1, <1>4, <1>7, OutsideKeeps DEF Tun!BoundTick, Tun!StartedTick,
                                          Tun!SpawnWatcher
  <1>8. CASE Tun!DestroyConnection
    BY <1>1, <1>4, <1>8, OutsideKeeps DEF Tun!DestroyConnection
  <1> QED
    BY <1>5, <1>6, <1>7, <1>8

LEMMA TunBindStep == ASSUME Tun!ConstantsOK, TunInv, Tun!Bind PROVE TunInv'
  <1>1. /\ ability = "cleaned" /\ core.attempt < Attempts /\ core' = Tun!Bound(core.attempt + 1)
        /\ ability' = "bound"
        /\ UNCHANGED <<gen, task, life, worker, startedFor, syncs, op, mixed, proxy>>
    BY DEF Tun!Bind, Tun!session, Tun!workers, Tun!listeners
  <1>2. core.attempt \in 1 .. Attempts /\ gen \in Nat /\ syncs \in Nat
    BY Numbers DEF TunInv, Typed
  <1>3. core' \in Cores /\ core'.attempt = core.attempt + 1
    <2>1. core.attempt + 1 \in Nat
      BY <1>2
    <2> QED
      BY <1>1, <2>1 DEF Tun!Bound, Cores
  <1>4. op = Tun!Free /\ life = Tun!Stopped /\ task = 0
    BY <1>1 DEF TunInv, Shaped
  <1>5. Typed'
    <2>1. core'.attempt \in 1 .. Attempts
      BY <1>1, <1>2, <1>3, Numbers
    <2> QED
      BY <1>1, <1>3, <2>1 DEF TunInv, Typed
  <1>6. Shaped' /\ Clean'
    BY <1>1, <1>4, FreeFacts DEF Shaped, Clean
  <1>7. TunAlone' /\ Owned'
    BY <1>1, <1>4, FreeFacts, LifeFacts DEF TunInv, TunAlone, Owned
  <1>8. Budget'
    BY <1>1, <1>2, <1>3, <1>4, FreeFacts DEF TunInv, Budget, Spent, Reserved
  <1> QED
    BY <1>5, <1>6, <1>7, <1>8 DEF TunInv

LEMMA TunNext == ASSUME Tun!ConstantsOK, TunInv, [Tun!Next]_Tun!vars PROVE TunInv'
  <1>1. CASE Tun!WorkerNext
    BY <1>1, TunWorkerStep
  <1>2. CASE Tun!OpSteps
    BY <1>2, HaltStep, JoinStep, TunSpawnStep, StartStep, StopStep, SyncStep
       DEF Tun!OpSteps
  <1>3. CASE Tun!WatcherNext
    BY <1>3, WatcherStep DEF Tun!WatcherNext
  <1>4. CASE Tun!AbilitySteps \/ Tun!SyncRestarts \/ Tun!Heartbeat \/ Tun!UiStops \/ Tun!Bind
    BY <1>4, StartBegins, StopStep, SyncStep, AbilityStep, TunBindStep
       DEF Tun!AbilitySteps
  <1>5. CASE UNCHANGED Tun!vars
    BY <1>5 DEF Tun!vars, TunInv, Typed, Shaped, TunAlone, Owned, Clean,
                Budget, Spent, Reserved
  <1> QED
    BY <1>1, <1>2, <1>3, <1>4, <1>5 DEF Tun!Next

-----------------------------------------------------------------------------
(* The listeners *)

LEMMA ServingInit == ASSUME Tun!Init PROVE ServingInv
  BY FreeFacts DEF Tun!Init, ServingInv, Serving

LEMMA ServingNext ==
    ASSUME Tun!ConstantsOK, TunInv, ServingInv, [Tun!Next]_Tun!vars, TunInv'
    PROVE  ServingInv'
  <1> SUFFICES ASSUME ~PortTaken PROVE Serving'
    BY DEF ServingInv
  <1>0. Serving /\ op \in Ops /\ core \in Cores /\ life \in Lives /\ op.g \in Nat
    BY DEF ServingInv, TunInv, Typed, Ops
  <1>1. CASE Tun!WorkerNext
    <2>1. Tun!WorkerOnly /\ (life'.kind = "Running" => life.kind = "Running")
      BY <1>1, TunWorkerStep
    <2> QED
      BY <1>0, <2>1 DEF Serving, Tun!WorkerOnly
  <1>2. CASE Tun!Halt
    <2>1. op'.kind = op.kind /\ op'.pc = "join"
      BY <1>0, <1>2 DEF Tun!Halt, Ops
    <2> QED
      BY <1>0, <1>2, <2>1 DEF Tun!Halt, Serving, Tun!listeners
  <1>3. CASE Tun!Join
    <2>1. op'.kind = op.kind /\ op'.pc = op.then /\ life'.kind = "Stopped"
      BY <1>0, <1>3, LifeFacts DEF Tun!Join, Tun!To, Ops
    <2>2. op.then \notin {"check", "mixed", "alive", "commit"}
      BY <1>0 DEF Ops
    <2> QED
      BY <1>0, <1>3, <2>1, <2>2 DEF Tun!Join, Serving, Tun!listeners
  <1>4. CASE Tun!Spawn
    <2>1. op'.pc \in {"proxy", "idle"} /\ UNCHANGED <<mixed, proxy, ability>>
      BY <1>0, <1>4, FreeFacts DEF Tun!Spawn, Ops, Tun!listeners
    <2>2. op.kind = "start" \/ op.kind \in {"sync", "rollback"}
      BY <1>0, <1>4, FreeFacts DEF Tun!Spawn, TunInv, Shaped, Ops
    <2> QED
      BY <1>0, <2>1, <2>2 DEF Serving, TunInv, Shaped
  <1>5. CASE Tun!StartProxy \/ Tun!CheckAfterProxy \/ Tun!RestartMixedListener
    <2>1. op.kind = "start" /\ op.g # 0 /\ ability = "starting" /\ ability' = ability
      <3>1. op.pc \in {"proxy", "check", "mixed"} /\ ability' = ability
        BY <1>5 DEF Tun!StartProxy, Tun!CheckAfterProxy,
                    Tun!RestartMixedListener
      <3> QED
        BY <1>0, <3>1, FreeFacts DEF TunInv, Shaped, Ops
    <2>2. CASE Tun!StartProxy
      <3>1. proxy' = op.g /\ Tun!To("check")
        BY <2>2 DEF Tun!StartProxy
      <3>2. op'.pc = "check"
        BY <1>0, <3>1, ToFacts
      <3> QED
        BY <2>1, <3>1, <3>2 DEF Serving
    <2>3. CASE Tun!CheckAfterProxy
      <3>1. op.pc = "check" /\ UNCHANGED <<mixed, proxy>> /\ (Tun!To("mixed") \/ Tun!StopThen("fail"))
        BY <2>3 DEF Tun!CheckAfterProxy, Tun!listeners
      <3>2. op'.pc \in {"mixed", "halt"}
        BY <1>0, <3>1, ToFacts, StopThenFacts
      <3> QED
        BY <1>0, <2>1, <3>1, <3>2 DEF Serving
    <2>4. CASE Tun!RestartMixedListener
      <3>1. /\ op.pc = "mixed" /\ mixed' = op.g /\ UNCHANGED proxy
            /\ Tun!To("alive") \/ Tun!StopThen("drop")
        BY <2>4 DEF Tun!RestartMixedListener
      <3>2. op'.pc \in {"alive", "halt"}
        BY <1>0, <3>1, ToFacts, StopThenFacts
      <3> QED
        BY <1>0, <2>1, <3>1, <3>2 DEF Serving
    <2> QED
      BY <1>5, <2>2, <2>3, <2>4
  <1>6. CASE Tun!CheckAlive
    <2>1. /\ op.pc = "alive"
          /\ \/ Tun!To("commit") /\ UNCHANGED <<ability, mixed, proxy>>
             \/ op' = Tun!Free /\ ability' = "failing"
      BY <1>6 DEF Tun!CheckAlive, Tun!StartFails, Tun!listeners
    <2>2. (op'.kind = op.kind /\ op'.pc = "commit") \/ op'.pc = "idle"
      BY <1>0, <2>1, ToFacts, FreeFacts
    <2>3. op.kind = "start" /\ ability = "starting"
      BY <1>0, <2>1, FreeFacts DEF TunInv, Shaped, Ops
    <2> QED
      BY <1>0, <2>1, <2>2, <2>3, FreeFacts DEF Serving
  <1>7. CASE Tun!Commit
    <2>1. /\ op.pc = "commit" /\ UNCHANGED <<mixed, proxy>>
          /\ op' = Tun!Free \/ Tun!StopThen("drop")
      BY <1>7 DEF Tun!Commit, Tun!listeners
    <2>2. op'.pc \in {"idle", "halt"}
      BY <1>0, <2>1, FreeFacts, StopThenFacts
    <2> QED
      BY <1>0, <2>1, <2>2 DEF Serving
  <1>8. CASE Tun!Prepare \/ Tun!StartRefused \/ Tun!DropListeners \/ Tun!Fail \/ Tun!StartVpn
    <2>1. /\ op'.pc \in {"idle", "halt", "prepare"}
          /\ ability' \in {"failing", "starting"} \/ UNCHANGED ability
      BY <1>0, <1>8, FreeFacts, StopThenFacts
         DEF Tun!Prepare, Tun!StartRefused, Tun!DropListeners, Tun!Fail,
             Tun!StartVpn, Tun!StartFails, Tun!Free
    <2>2. ability' \in {"failing", "starting"} \/ op.pc = "prepare"
      BY <1>8 DEF Tun!Prepare, Tun!StartRefused, Tun!DropListeners, Tun!Fail,
                  Tun!StartVpn, Tun!StartFails
    <2>3. op.pc = "prepare" => ability = "starting"
      BY <1>0, FreeFacts DEF TunInv, Shaped, Ops
    <2> QED
      BY <2>1, <2>2, <2>3 DEF Serving
  <1>9. CASE Tun!StopVpn \/ Tun!StopReturns
    <2>1. /\ op'.pc \in {"halt", "idle"}
          /\ ability' \in {"stopping", "unclean", "joined"}
      <3>1. [Tun!Free EXCEPT !.kind = "stop", !.pc = "halt", !.then = "stopped"].pc = "halt"
        BY DEF Tun!Free
      <3>2. CASE Tun!StopVpn
        BY <3>1, <3>2, FreeFacts DEF Tun!StopVpn
      <3>3. CASE Tun!StopReturns
        BY <3>3, FreeFacts DEF Tun!StopReturns
      <3> QED
        BY <1>9, <3>2, <3>3
    <2> QED
      BY <2>1 DEF Serving
  <1>10. CASE Tun!SyncRestarts
    <2>1. op'.pc = "halt" /\ life.kind = "Running" /\ UNCHANGED <<mixed, proxy, ability>>
      BY <1>10 DEF Tun!SyncRestarts, Tun!Free, Tun!Running, Tun!listeners
    <2> QED
      BY <1>0, <2>1 DEF Serving
  <1>11. CASE Tun!SyncRefused
    <2>1. op'.pc \in {"halt", "idle"} /\ op.kind \in {"sync", "rollback"}
          /\ UNCHANGED <<mixed, proxy, ability>>
      BY <1>0, <1>11, FreeFacts DEF Tun!SyncRefused, Ops, Tun!listeners
    <2> QED
      BY <1>0, <2>1 DEF Serving
  <1>12. CASE Tun!WatcherNext
    <2>1. PICK w \in watchers : Tun!AwaitExit(w) \/ Tun!PublishNativeVpnExit(w)
      BY <1>12 DEF Tun!WatcherNext
    <2>2. CASE UNCHANGED <<mixed, proxy>>
      BY <1>0, <2>1, <2>2 DEF Tun!AwaitExit, Tun!PublishNativeVpnExit,
                              Tun!session, Serving
    <2>3. CASE ~UNCHANGED <<mixed, proxy>>
      <3>1. /\ op = Tun!Free /\ life = Tun!Failed(w.g) /\ UNCHANGED <<op, life>>
        BY <2>1, <2>3 DEF Tun!AwaitExit, Tun!PublishNativeVpnExit, Tun!session,
                          Tun!listeners
      <3> QED
        BY <3>1, FreeFacts DEF Serving, Tun!Failed
    <2> QED
      BY <2>2, <2>3
  <1>13. CASE Tun!BoundTick \/ Tun!StartedTick \/ Tun!Heartbeat \/ Tun!SpawnWatcher \/ Tun!UiStops
              \/ Tun!DestroyConnection \/ Tun!Bind
    <2>1. /\ UNCHANGED <<op, life, mixed, proxy>>
          /\ ability' \in {"returned", "ticking", "up"} => ability \in {"returned", "ticking", "up"}
      BY <1>13 DEF Tun!BoundTick, Tun!StartedTick, Tun!Heartbeat, Tun!Tick,
                   Tun!SpawnWatcher, Tun!UiStops, Tun!DestroyConnection,
                   Tun!Bind, Tun!session, Tun!listeners
    <2> QED
      BY <1>0, <2>1 DEF Serving
  <1>14. CASE UNCHANGED Tun!vars
    BY <1>0, <1>14 DEF Tun!vars, Serving
  <1> QED
    BY <1>1, <1>2, <1>3, <1>4, <1>5, <1>6, <1>7, <1>8, <1>9, <1>10, <1>11,
       <1>12, <1>13,
       <1>14 DEF Tun!Next, Tun!OpSteps, Tun!AbilitySteps

-----------------------------------------------------------------------------
(* The theorems *)

THEOREM TunInvariant == ASSUME Tun!ConstantsOK PROVE Tun!Spec => []TunInv
  BY TunInit, TunNext, PTL DEF Tun!Spec

(* A worker that uses the stack is the held one or the joined one, and     *)
(* while there is one to join, none is held.                               *)
LEMMA AtMostOne == ASSUME Tun!ConstantsOK, TunInv PROVE Tun!OneWorker
  <1>1. \A g, h \in Tun!Using : g = h
    <2>1. 0 \notin Tun!Gens
      BY Numbers
    <2> QED
      BY <2>1 DEF TunInv, TunAlone, Tun!Using
  <1>2. CASE Tun!Using = {}
    BY <1>2, FS_EmptySet DEF Tun!OneWorker, Cardinality, Tun!Cardinality
  <1>3. CASE Tun!Using # {}
    <2>1. PICK g : Tun!Using = {g}
      BY <1>1, <1>3
    <2> QED
      <3>1. Cardinality({g}) = 1
        BY FS_Singleton, Zenon
      <3> QED
        BY <2>1, <3>1 DEF Tun!OneWorker, Cardinality, Tun!Cardinality
  <1> QED
    BY <1>2, <1>3

(* However starts, failed starts, stops and restarts by the controller     *)
(* follow each other, two workers never read the TUN or drive the stack at *)
(* the same time (start and stop_locked of paws_vpn).                      *)
THEOREM WorkersExclude == ASSUME Tun!ConstantsOK PROVE Tun!Spec => []Tun!OneWorker
  BY TunInvariant, AtMostOne, PTL

(* When the Ability goes on to destroy the connection, every worker has    *)
(* returned, no listener serves and Core says that nothing runs            *)
(* (stop_vpn_inner, beginVpnCleanup), even if the controller restarts the  *)
(* worker as the stop begins.                                              *)
THEOREM CleanupCompletes == ASSUME Tun!ConstantsOK PROVE Tun!Spec => []Tun!CleanupIsComplete
  <1>1. ASSUME TunInv PROVE Tun!CleanupIsComplete
    <2> SUFFICES ASSUME ability \in {"joined", "cleaned"}
                 PROVE  /\ \A g \in Tun!Gens : worker[g] \in {"none", "gone"}
                        /\ mixed = 0 /\ proxy = 0 /\ ~core.running
      BY DEF Tun!CleanupIsComplete
    <2>1. op = Tun!Free /\ task = 0
      BY <1>1 DEF TunInv, Shaped
    <2>2. \A g \in Tun!Gens : worker[g] \in {"none", "gone"}
      BY <1>1, <2>1, FreeFacts DEF TunInv, TunAlone, Tun!Gens
    <2> QED
      BY <1>1, <2>2 DEF TunInv, Clean
  <1> QED
    BY <1>1, TunInvariant, PTL

(* A step that fails an attempt because of a failed worker blames a worker *)
(* of this attempt (publish_native_vpn_exit, extension_tick).              *)
THEOREM BlameStays == ASSUME Tun!ConstantsOK PROVE Tun!Spec => Tun!BlamesItsOwnWorker
  <1>1. ASSUME TunInv, [Tun!Next]_Tun!vars PROVE [Tun!BlameIsOwn]_Tun!vars
    BY <1>1 DEF TunInv, Owned, Tun!BlameIsOwn
  <1> QED
    BY <1>1, TunInvariant, PTL DEF Tun!Spec, Tun!BlamesItsOwnWorker

(* A connected session whose worker runs has its listeners, if no port is  *)
(* taken: the watcher of an earlier worker never tears them down           *)
(* (publish_native_vpn_exit), and a restart keeps them.                    *)
THEOREM ListenersStay == ASSUME Tun!ConstantsOK, ~PortTaken PROVE Tun!Spec => []Tun!ListenersServe
  <1>1. ASSUME ServingInv PROVE Tun!ListenersServe
    BY <1>1 DEF ServingInv, Serving, Tun!ListenersServe
  <1>2. Tun!Spec => []ServingInv
    BY TunInit, TunNext, ServingInit, ServingNext, PTL DEF Tun!Spec
  <1> QED
    BY <1>1, <1>2, PTL

-----------------------------------------------------------------------------
(* The flows of the network stack.                                         *)

CONSTANTS Keys, MaxDatagrams, MaxStreams, MaxRoutes, MaxSweeps

VARIABLES phase, sessions, conns, flowTasks, tracked, drained, flowRoute,
          stale, flowLeft

Flows == INSTANCE UdpFlows WITH
    tasks <- flowTasks, route <- flowRoute, left <- flowLeft

ConnRecs == [key : Keys, route : Nat, idle : BOOLEAN, reader : {"running"} \cup Flows!Over]
Places == {"spawned", "relaying", "writing", "resolving", "dialing", "sending"} \cup Flows!Over
TaskRecs == [kind : {"tcp", "udp"}, key : Keys \cup {None}, since : Nat, route : Nat,
             conn : Nat \cup {None}, at : Places]

FlowTypes ==
    /\ phase \in {"running", "aborting", "draining", "ended"}
    /\ sessions \in [Keys -> Nat \cup {None}]
    /\ conns \in Seq(ConnRecs) /\ flowTasks \in Seq(TaskRecs)
    /\ flowRoute \in Nat
    /\ \A i \in Flows!Tasks : flowTasks[i].kind = "udp" => flowTasks[i].key \in Keys

(* Until the worker aborts the tasks it knows of, nothing but a failure of *)
(* the connection ends a reader.                                           *)
Answered ==
    \A k \in Keys : sessions[k] # None =>
        /\ sessions[k] \in Flows!Conns /\ conns[sessions[k]].key = k
        /\ phase \in {"running", "aborting"} => conns[sessions[k]].reader = "running"

(* A task that runs is one that the worker knows of or is still to abort.  *)
FlowFound ==
    \A i \in Flows!Tasks : flowTasks[i].at \notin Flows!Over =>
        \/ phase \in {"running", "aborting"} /\ <<"task", i>> \in tracked
        \/ phase = "draining" /\ <<"task", i>> \in drained

FlowInv == FlowTypes /\ Answered /\ FlowFound

LEMMA FlowInit == ASSUME Flows!Init PROVE FlowInv
  BY DEF Flows!Init, FlowInv, FlowTypes, Answered, FlowFound, Flows!Tasks,
         Flows!Conns

-----------------------------------------------------------------------------
(* Sequences *)

LEMMA Updated ==
    ASSUME NEW S, NEW s \in Seq(S), NEW i \in DOMAIN s, NEW v \in S
    PROVE  /\ [s EXCEPT ![i] = v] \in Seq(S)
           /\ DOMAIN [s EXCEPT ![i] = v] = DOMAIN s
           /\ [s EXCEPT ![i] = v][i] = v
           /\ \A j \in DOMAIN s : j # i => [s EXCEPT ![i] = v][j] = s[j]
  OBVIOUS

LEMMA Appended ==
    ASSUME NEW S, NEW s \in Seq(S), NEW v \in S
    PROVE  /\ Append(s, v) \in Seq(S)
           /\ Len(s) + 1 \in Nat /\ Len(s) + 1 \notin DOMAIN s
           /\ DOMAIN Append(s, v) = DOMAIN s \cup {Len(s) + 1}
           /\ Append(s, v)[Len(s) + 1] = v
           /\ \A j \in DOMAIN s : Append(s, v)[j] = s[j]
  OBVIOUS

LEMMA ElementOf ==
    ASSUME NEW S, NEW s \in Seq(S), NEW i \in DOMAIN s
    PROVE  s[i] \in S /\ i \in Nat
  OBVIOUS

(* track_flow_task keeps what runs.                                        *)
LEMMA TrackKeeps ==
    ASSUME NEW w, Flows!Track(w), NEW i \in Flows!Tasks, flowTasks[i].at \notin Flows!Over, <<"task", i>> \in tracked
    PROVE  <<"task", i>> \in tracked'
  <1>1. Flows!Running(<<"task", i>>)
    BY DEF Flows!Running
  <1> QED
    BY <1>1 DEF Flows!Track

-----------------------------------------------------------------------------
(* The tasks *)

LEMMA FlowSpawnStep ==
    ASSUME FlowInv, NEW kind \in {"tcp", "udp"}, NEW k \in Keys \cup {None},
           kind = "udp" => k \in Keys,
           Flows!Spawn(kind, k), UNCHANGED <<phase, sessions, conns, drained, flowRoute>>
    PROVE  FlowInv'
  <1> DEFINE new == [kind |-> kind, key |-> k, since |-> flowRoute, route |-> flowRoute,
                     conn |-> None, at |-> "spawned"]
             n == Len(flowTasks) + 1
  <1>1. /\ phase \in {"running", "aborting"} /\ flowTasks' = Append(flowTasks, new)
        /\ Flows!Track(<<"task", n>>)
    BY DEF Flows!Spawn
  <1>2. new \in TaskRecs /\ new.kind = kind /\ new.key = k
    BY DEF FlowInv, FlowTypes, TaskRecs, Places
  <1> HIDE DEF new
  <1>3. flowTasks \in Seq(TaskRecs)
    BY DEF FlowInv, FlowTypes
  <1>4. /\ flowTasks' \in Seq(TaskRecs) /\ Flows!Tasks' = Flows!Tasks \cup {n} /\ n \notin Flows!Tasks
        /\ flowTasks'[n] = new /\ \A j \in Flows!Tasks : flowTasks'[j] = flowTasks[j]
    BY <1>1, <1>2, <1>3, Appended DEF Flows!Tasks
  <1>5. FlowTypes'
    BY <1>2, <1>4 DEF FlowInv, FlowTypes
  <1>6. Answered'
    BY DEF FlowInv, Answered, Flows!Conns
  <1>7. FlowFound'
    <2> SUFFICES ASSUME NEW j \in Flows!Tasks', flowTasks'[j].at \notin Flows!Over
                 PROVE  <<"task", j>> \in tracked'
      BY <1>1 DEF FlowFound
    <2>1. CASE j = n
      BY <1>1, <2>1 DEF Flows!Track
    <2>2. CASE j \in Flows!Tasks
      BY <1>1, <1>4, <2>2, TrackKeeps DEF FlowInv, FlowFound
    <2> QED
      BY <1>4, <2>1, <2>2
  <1> QED
    BY <1>5, <1>6, <1>7 DEF FlowInv

(* A task goes on, or ends.                                                *)
Goes(i, t) ==
    /\ flowTasks' = [flowTasks EXCEPT ![i] = t]
    /\ t \in TaskRecs /\ t.kind = flowTasks[i].kind /\ t.key = flowTasks[i].key
    /\ flowTasks[i].at \notin Flows!Over

LEMMA GoesKeeps ==
    ASSUME FlowInv, NEW i \in Flows!Tasks, NEW t, Goes(i, t), UNCHANGED <<phase, drained>>,
           tracked' = tracked \/ \E w : Flows!Track(w)
    PROVE  /\ flowTasks' \in Seq(TaskRecs) /\ FlowFound'
           /\ \A j \in Flows!Tasks' : flowTasks'[j].kind = "udp" => flowTasks'[j].key \in Keys
  <1>1. /\ flowTasks' \in Seq(TaskRecs) /\ Flows!Tasks' = Flows!Tasks
        /\ flowTasks'[i] = t /\ \A j \in Flows!Tasks : j # i => flowTasks'[j] = flowTasks[j]
    <2>1. flowTasks \in Seq(TaskRecs) /\ t \in TaskRecs /\ flowTasks' = [flowTasks EXCEPT ![i] = t]
      BY DEF FlowInv, FlowTypes, Goes
    <2> QED
      BY <2>1, Updated DEF Flows!Tasks
  <1>2. FlowFound'
    BY <1>1, TrackKeeps DEF FlowInv, FlowFound, Goes
  <1>3. \A j \in Flows!Tasks' : flowTasks'[j].kind = "udp" => flowTasks'[j].key \in Keys
    BY <1>1 DEF FlowInv, FlowTypes, Goes
  <1> QED
    BY <1>1, <1>2, <1>3

LEMMA TaskTypes ==
    ASSUME FlowInv, NEW i \in Flows!Tasks
    PROVE  /\ flowTasks[i] \in TaskRecs /\ i \in Nat /\ flowRoute \in Nat
           /\ flowTasks[i].kind = "udp" => flowTasks[i].key \in Keys
  BY ElementOf DEF FlowInv, FlowTypes, Flows!Tasks

LEMMA StreamStep ==
    ASSUME FlowInv, NEW i \in Flows!Tasks, Flows!Stream(i) PROVE FlowInv'
  <1>1. \E at \in {"relaying", "done"} : Goes(i, [flowTasks[i] EXCEPT !.at = at])
    BY TaskTypes DEF Flows!Stream, Goes, TaskRecs, Places, Flows!Over
  <1>2. UNCHANGED <<phase, sessions, conns, tracked, drained, flowRoute>>
    BY DEF Flows!Stream
  <1> QED
    BY <1>1, <1>2, GoesKeeps DEF FlowInv, FlowTypes, Answered, Flows!Conns

LEMMA LooksStep ==
    ASSUME FlowInv, NEW i \in Flows!Tasks, Flows!Looks(i) PROVE FlowInv'
  <1> DEFINE c == sessions[flowTasks[i].key]
  <1>1. /\ Flows!Udp(i, "spawned") /\ UNCHANGED <<phase, sessions, tracked, drained, flowRoute>>
        /\ flowTasks' = [flowTasks EXCEPT ![i].at = IF c = None THEN "resolving" ELSE "writing",
                                          ![i].conn = c]
        /\ conns' = IF c = None THEN conns ELSE [conns EXCEPT ![c].idle = FALSE]
    BY DEF Flows!Looks
  <1>2. flowTasks[i].key \in Keys /\ c \in Nat \cup {None}
    BY <1>1, TaskTypes DEF Flows!Udp, FlowInv, FlowTypes
  <1>3. \E t : Goes(i, t)
    <2> DEFINE t == [flowTasks[i] EXCEPT !.at = IF c = None THEN "resolving" ELSE "writing",
                                         !.conn = c]
    <2>1. flowTasks' = [flowTasks EXCEPT ![i] = t]
      BY <1>1, TaskTypes
    <2>2. t \in TaskRecs /\ t.kind = flowTasks[i].kind /\ t.key = flowTasks[i].key
      BY <1>2, TaskTypes DEF TaskRecs, Places
    <2> QED
      BY <1>1, <2>1, <2>2 DEF Goes, Flows!Udp, Flows!Over
  <1>4. /\ conns' \in Seq(ConnRecs) /\ Flows!Conns' = Flows!Conns
        /\ \A d \in Flows!Conns : conns'[d].key = conns[d].key /\ conns'[d].reader = conns[d].reader
    <2>1. conns \in Seq(ConnRecs)
      BY DEF FlowInv, FlowTypes
    <2>2. CASE c = None
      BY <1>1, <2>1, <2>2 DEF Flows!Conns
    <2>3. CASE c # None
      <3>1. c \in Flows!Conns
        BY <1>2, <2>3 DEF FlowInv, Answered
      <3>2. conns[c] \in ConnRecs
        BY <2>1, <3>1, ElementOf DEF Flows!Conns
      <3>3. /\ [conns[c] EXCEPT !.idle = FALSE] \in ConnRecs
            /\ [conns[c] EXCEPT !.idle = FALSE].key = conns[c].key
            /\ [conns[c] EXCEPT !.idle = FALSE].reader = conns[c].reader
        BY <3>2 DEF ConnRecs
      <3> QED
        BY <1>1, <2>1, <2>3, <3>1, <3>3, Updated DEF Flows!Conns
    <2> QED
      BY <2>2, <2>3
  <1>5. Answered'
    BY <1>1, <1>4 DEF FlowInv, Answered
  <1> QED
    BY <1>1, <1>3, <1>4, <1>5, GoesKeeps DEF FlowInv, FlowTypes

LEMMA WritesStep ==
    ASSUME FlowInv, NEW i \in Flows!Tasks, Flows!Writes(i) PROVE FlowInv'
  <1>1. Goes(i, [flowTasks[i] EXCEPT !.at = "done"])
    BY TaskTypes DEF Flows!Writes, Flows!Udp, Goes, TaskRecs, Places,
                     Flows!Over
  <1>2. /\ UNCHANGED <<phase, conns, tracked, drained, flowRoute>>
        /\ sessions' = sessions \/ sessions' = [sessions EXCEPT ![flowTasks[i].key] = None]
    BY DEF Flows!Writes
  <1>3. sessions' \in [Keys -> Nat \cup {None}] /\ Answered'
    BY <1>2 DEF FlowInv, FlowTypes, Answered, Flows!Conns
  <1> QED
    BY <1>1, <1>2, <1>3, GoesKeeps DEF FlowInv, FlowTypes

LEMMA ResolveStep ==
    ASSUME FlowInv, NEW i \in Flows!Tasks, Flows!Resolves(i) \/ Flows!Dials(i) PROVE FlowInv'
  <1>1. \E t : Goes(i, t)
    <2>1. CASE Flows!Resolves(i)
      <3>1. PICK at \in {"dialing", "done"} :
                flowTasks' = [flowTasks EXCEPT ![i].at = at, ![i].route = flowRoute]
        BY <2>1 DEF Flows!Resolves
      <3>2. Goes(i, [flowTasks[i] EXCEPT !.at = at, !.route = flowRoute])
        BY <2>1, <3>1, TaskTypes DEF Flows!Resolves, Flows!Udp, Goes, TaskRecs,
                                     Places, Flows!Over
      <3> QED
        BY <3>2
    <2>2. CASE Flows!Dials(i)
      <3>1. PICK at \in {"sending", "done"} : flowTasks' = [flowTasks EXCEPT ![i].at = at]
        BY <2>2 DEF Flows!Dials
      <3>2. Goes(i, [flowTasks[i] EXCEPT !.at = at])
        BY <2>2, <3>1, TaskTypes DEF Flows!Dials, Flows!Udp, Goes, TaskRecs,
                                     Places, Flows!Over
      <3> QED
        BY <3>2
    <2> QED
      BY <2>1, <2>2
  <1>2. UNCHANGED <<phase, sessions, conns, tracked, drained, flowRoute>>
    BY DEF Flows!Resolves, Flows!Dials
  <1> QED
    BY <1>1, <1>2, GoesKeeps DEF FlowInv, FlowTypes, Answered, Flows!Conns

LEMMA SendsStep ==
    ASSUME FlowInv, NEW i \in Flows!Tasks, Flows!Sends(i) PROVE FlowInv'
  <1>1. Flows!Udp(i, "sending") /\ UNCHANGED <<phase, drained, flowRoute>>
    BY DEF Flows!Sends
  <1>2. flowTasks[i].key \in Keys /\ flowTasks[i].at \notin Flows!Over
    BY <1>1, TaskTypes DEF Flows!Udp, Flows!Over
  <1>3. CASE flowTasks' = [flowTasks EXCEPT ![i].at = "done"] /\ UNCHANGED <<sessions, conns, tracked>>
    <2>1. Goes(i, [flowTasks[i] EXCEPT !.at = "done"])
      BY <1>2, <1>3, TaskTypes DEF Goes, TaskRecs, Places, Flows!Over
    <2> QED
      BY <1>1, <1>3, <2>1, GoesKeeps DEF FlowInv, FlowTypes, Answered,
                                         Flows!Conns
  <1>4. CASE ~UNCHANGED conns
    <2> DEFINE new == [key |-> flowTasks[i].key, route |-> flowTasks[i].route, idle |-> FALSE,
                       reader |-> "running"]
               n == Len(conns) + 1
    <2>1. /\ flowTasks' = [flowTasks EXCEPT ![i].at = "done", ![i].conn = n]
          /\ conns' = Append(conns, new)
          /\ sessions' = [sessions EXCEPT ![flowTasks[i].key] = n]
          /\ Flows!Track(<<"reader", n>>)
      BY <1>4 DEF Flows!Sends
    <2>2. /\ new \in ConnRecs /\ new.key = flowTasks[i].key /\ new.reader = "running"
      BY <1>2, TaskTypes DEF ConnRecs, TaskRecs, Flows!Over
    <2> HIDE DEF new
    <2>3. conns \in Seq(ConnRecs)
      BY DEF FlowInv, FlowTypes
    <2>4. /\ conns' \in Seq(ConnRecs) /\ Flows!Conns' = Flows!Conns \cup {n} /\ n \notin Flows!Conns /\ n \in Nat
          /\ conns'[n] = new /\ \A d \in Flows!Conns : conns'[d] = conns[d]
      BY <2>1, <2>2, <2>3, Appended DEF Flows!Conns
    <2> HIDE DEF n
    <2>5. Goes(i, [flowTasks[i] EXCEPT !.at = "done", !.conn = n])
      BY <1>2, <2>1, <2>4, TaskTypes DEF Goes, TaskRecs, Places, Flows!Over
    <2>6. sessions' \in [Keys -> Nat \cup {None}] /\ Answered'
      BY <1>1, <1>2, <2>1, <2>2, <2>4 DEF FlowInv, FlowTypes, Answered
    <2> QED
      BY <1>1, <2>1, <2>4, <2>5, <2>6, GoesKeeps DEF FlowInv, FlowTypes
  <1> QED
    BY <1>3, <1>4 DEF Flows!Sends

-----------------------------------------------------------------------------
(* Connections and sessions *)

LEMMA ConnStep ==
    ASSUME FlowInv, NEW c \in Flows!Conns, Flows!Reads(c) \/ Flows!ReadFails(c) \/ Flows!GoesIdle(c) PROVE FlowInv'
  <1>1. UNCHANGED <<phase, flowTasks, tracked, drained, flowRoute>>
    BY DEF Flows!Reads, Flows!ReadFails, Flows!GoesIdle
  <1>2. conns \in Seq(ConnRecs) /\ conns[c].key \in Keys
    <2>1. conns \in Seq(ConnRecs)
      BY DEF FlowInv, FlowTypes
    <2>2. conns[c] \in ConnRecs
      BY <2>1, ElementOf DEF Flows!Conns
    <2> QED
      BY <2>1, <2>2 DEF ConnRecs
  <1>4. CASE Flows!Reads(c) \/ Flows!GoesIdle(c)
    <2>1. PICK d \in Flows!Conns, b \in BOOLEAN : conns' = [conns EXCEPT ![d].idle = b]
      <3>1. sessions[conns[c].key] # None => sessions[conns[c].key] \in Flows!Conns
        BY <1>2 DEF FlowInv, Answered
      <3> QED
        BY <1>4, <3>1 DEF Flows!Reads, Flows!GoesIdle
    <2>2. conns[d] \in ConnRecs
      BY <1>2, ElementOf DEF Flows!Conns
    <2>3. /\ [conns[d] EXCEPT !.idle = b] \in ConnRecs
          /\ [conns[d] EXCEPT !.idle = b].key = conns[d].key
          /\ [conns[d] EXCEPT !.idle = b].reader = conns[d].reader
      BY <2>2 DEF ConnRecs
    <2>4. conns' = [conns EXCEPT ![d] = [conns[d] EXCEPT !.idle = b]]
      BY <2>1
    <2>5. /\ conns' \in Seq(ConnRecs) /\ Flows!Conns' = Flows!Conns
          /\ \A e \in Flows!Conns : conns'[e].key = conns[e].key /\ conns'[e].reader = conns[e].reader
      BY <1>2, <2>3, <2>4, Updated DEF Flows!Conns
    <2>6. sessions' = sessions
      BY <1>4 DEF Flows!Reads, Flows!GoesIdle
    <2> QED
      BY <1>1, <2>5, <2>6 DEF FlowInv, FlowTypes, Answered, FlowFound,
                              Flows!Tasks
  <1>5. CASE Flows!ReadFails(c)
    <2>1. conns[c] \in ConnRecs
      BY <1>2, ElementOf DEF Flows!Conns
    <2>2. [conns[c] EXCEPT !.reader = "done"] \in ConnRecs
          /\ [conns[c] EXCEPT !.reader = "done"].key = conns[c].key
      BY <2>1 DEF ConnRecs, Flows!Over
    <2>3. /\ conns' = [conns EXCEPT ![c] = [conns[c] EXCEPT !.reader = "done"]]
          /\ sessions' = [sessions EXCEPT ![conns[c].key] = None]
      BY <1>5 DEF Flows!ReadFails
    <2>4. /\ conns' \in Seq(ConnRecs) /\ Flows!Conns' = Flows!Conns
          /\ \A e \in Flows!Conns : conns'[e].key = conns[e].key /\ (e # c => conns'[e] = conns[e])
      BY <1>2, <2>2, <2>3, Updated DEF Flows!Conns
    <2>5. sessions' \in [Keys -> Nat \cup {None}] /\ Answered'
      BY <1>1, <1>2, <2>3, <2>4 DEF FlowInv, FlowTypes, Answered
    <2> QED
      BY <1>1, <2>4, <2>5 DEF FlowInv, FlowTypes, FlowFound, Flows!Tasks
  <1> QED
    BY <1>4, <1>5

LEMMA SweepStep == ASSUME FlowInv, Flows!Sweep PROVE FlowInv'
  <1>1. /\ UNCHANGED <<phase, conns, flowTasks, tracked, drained, flowRoute>>
        /\ \A k \in Keys : sessions'[k] \in {sessions[k], None}
        /\ sessions' \in [Keys -> Nat \cup {None}]
    BY DEF Flows!Sweep, FlowInv, FlowTypes
  <1> QED
    BY <1>1 DEF FlowInv, FlowTypes, Answered, FlowFound, Flows!Tasks,
                Flows!Conns

-----------------------------------------------------------------------------
(* The route and the end of the worker *)

LEMMA RouteStep == ASSUME FlowInv, Flows!RouteChange PROVE FlowInv'
  <1>1. /\ flowRoute' = flowRoute + 1 /\ UNCHANGED <<phase, sessions, conns, tracked, drained>>
        /\ flowTasks' = [i \in Flows!Tasks |-> IF flowTasks[i].at = "relaying"
                                               THEN [flowTasks[i] EXCEPT !.at = "done"] ELSE flowTasks[i]]
    BY DEF Flows!RouteChange
  <1>2. \A i \in Flows!Tasks : /\ flowTasks'[i] \in TaskRecs
                               /\ flowTasks'[i].kind = flowTasks[i].kind /\ flowTasks'[i].key = flowTasks[i].key
                               /\ flowTasks'[i].at \notin Flows!Over => flowTasks[i].at \notin Flows!Over
    <2> TAKE i \in Flows!Tasks
    <2>1. CASE flowTasks[i].at = "relaying"
      BY <1>1, <2>1, TaskTypes DEF TaskRecs, Places, Flows!Over
    <2>2. CASE flowTasks[i].at # "relaying"
      BY <1>1, <2>2, TaskTypes
    <2> QED
      BY <2>1, <2>2
  <1>3. flowTasks' \in Seq(TaskRecs) /\ Flows!Tasks' = Flows!Tasks
    <2>1. flowTasks \in Seq(TaskRecs)
      BY DEF FlowInv, FlowTypes
    <2>2. Len(flowTasks) \in Nat /\ Flows!Tasks = 1 .. Len(flowTasks)
      BY <2>1 DEF Flows!Tasks
    <2>3. flowTasks' \in [1 .. Len(flowTasks) -> TaskRecs]
      BY <1>1, <1>2, <2>2
    <2> QED
      BY <1>1, <2>2, <2>3 DEF Flows!Tasks
  <1> QED
    BY <1>1, <1>2, <1>3 DEF FlowInv, FlowTypes, Answered, FlowFound,
                            Flows!Conns

LEMMA AbortsStep ==
    ASSUME FlowInv, NEW w \in drained, Flows!Aborts(w) PROVE FlowInv'
  <1>1. /\ phase = "draining" /\ phase' = phase /\ drained' = drained \ {w}
        /\ UNCHANGED <<sessions, flowRoute>>
    BY DEF Flows!Aborts
  <1>2. CASE ~Flows!Running(w)
    <2>1. UNCHANGED <<flowTasks, conns>>
      BY <1>2 DEF Flows!Aborts
    <2>2. \A i \in Flows!Tasks : flowTasks[i].at \notin Flows!Over => <<"task", i>> # w
      BY <1>2 DEF Flows!Running
    <2> QED
      BY <1>1, <2>1, <2>2 DEF FlowInv, FlowTypes, Answered, FlowFound,
                              Flows!Tasks, Flows!Conns
  <1>3. CASE Flows!Running(w) /\ w[1] = "task"
    <2>1. flowTasks' = [flowTasks EXCEPT ![w[2]].at = "aborted"] /\ UNCHANGED conns
      BY <1>3 DEF Flows!Aborts
    <2>2. CASE w[2] \in Flows!Tasks
      <3>1. PICK i \in Flows!Tasks : i = w[2]
        BY <2>2
      <3>2. [flowTasks[i] EXCEPT !.at = "aborted"] \in TaskRecs
            /\ [flowTasks[i] EXCEPT !.at = "aborted"].kind = flowTasks[i].kind
            /\ [flowTasks[i] EXCEPT !.at = "aborted"].key = flowTasks[i].key
            /\ [flowTasks[i] EXCEPT !.at = "aborted"].at = "aborted"
        BY TaskTypes DEF TaskRecs, Places, Flows!Over
      <3>3. flowTasks' = [flowTasks EXCEPT ![i] = [flowTasks[i] EXCEPT !.at = "aborted"]]
        BY <2>1, <3>1
      <3>4. flowTasks \in Seq(TaskRecs)
        BY DEF FlowInv, FlowTypes
      <3>5. /\ flowTasks' \in Seq(TaskRecs) /\ Flows!Tasks' = Flows!Tasks
            /\ flowTasks'[i].at \in Flows!Over /\ flowTasks'[i].kind = flowTasks[i].kind /\ flowTasks'[i].key = flowTasks[i].key
            /\ \A j \in Flows!Tasks : j # i => flowTasks'[j] = flowTasks[j]
        BY <3>2, <3>3, <3>4, Updated DEF Flows!Tasks, Flows!Over
      <3>6. FlowFound'
        <4>1. \A j \in Flows!Tasks : j # i => <<"task", j>> # w
          BY <3>1
        <4> QED
          BY <1>1, <3>5, <4>1 DEF FlowInv, FlowFound
      <3>7. FlowTypes'
        BY <1>1, <2>1, <3>5 DEF FlowInv, FlowTypes
      <3> QED
        BY <1>1, <2>1, <3>6, <3>7 DEF FlowInv, Answered, Flows!Conns
    <2>3. CASE w[2] \notin Flows!Tasks
      <3>1. flowTasks' = flowTasks
        BY <2>1, <2>3 DEF FlowInv, FlowTypes, Flows!Tasks
      <3>2. \A j \in Flows!Tasks : <<"task", j>> # w
        BY <2>3
      <3> QED
        BY <1>1, <2>1, <3>1, <3>2 DEF FlowInv, FlowTypes, Answered, FlowFound,
                                      Flows!Tasks, Flows!Conns
    <2> QED
      BY <2>2, <2>3
  <1>4. CASE Flows!Running(w) /\ w[1] # "task"
    <2>1. conns' = [conns EXCEPT ![w[2]].reader = "aborted"] /\ UNCHANGED flowTasks
      BY <1>4 DEF Flows!Aborts
    <2>2. conns \in Seq(ConnRecs)
      BY DEF FlowInv, FlowTypes
    <2>3. /\ conns' \in Seq(ConnRecs) /\ Flows!Conns' = Flows!Conns
          /\ \A d \in Flows!Conns : conns'[d].key = conns[d].key
      <3>1. CASE w[2] \in Flows!Conns
        <4>1. PICK d \in Flows!Conns : d = w[2]
          BY <3>1
        <4>2. conns[d] \in ConnRecs
          BY <2>2, ElementOf DEF Flows!Conns
        <4>3. /\ [conns[d] EXCEPT !.reader = "aborted"] \in ConnRecs
              /\ [conns[d] EXCEPT !.reader = "aborted"].key = conns[d].key
          BY <4>2 DEF ConnRecs, Flows!Over
        <4>4. conns' = [conns EXCEPT ![d] = [conns[d] EXCEPT !.reader = "aborted"]]
          BY <2>1, <4>1
        <4> QED
          BY <2>2, <4>3, <4>4, Updated DEF Flows!Conns
      <3>2. CASE w[2] \notin Flows!Conns
        <4>1. conns' = conns
          BY <2>1, <2>2, <3>2 DEF Flows!Conns
        <4> QED
          BY <2>2, <4>1 DEF Flows!Conns
      <3> QED
        BY <3>1, <3>2
    <2>4. \A j \in Flows!Tasks : <<"task", j>> # w
      BY <1>4
    <2> QED
      BY <1>1, <2>1, <2>3, <2>4 DEF FlowInv, FlowTypes, Answered, FlowFound,
                                    Flows!Tasks
  <1> QED
    BY <1>2, <1>3, <1>4

LEMMA FlowWorkerStep ==
    ASSUME FlowInv, Flows!ReaderEnds \/ Flows!BackendEnds \/ Flows!Ends \/ UNCHANGED Flows!vars PROVE FlowInv'
  <1>1. UNCHANGED <<sessions, conns, flowTasks, flowRoute>>
    BY DEF Flows!ReaderEnds, Flows!BackendEnds, Flows!Ends, Flows!vars
  <1>2. CASE Flows!ReaderEnds
    BY <1>1, <1>2 DEF Flows!ReaderEnds, FlowInv, FlowTypes, Answered,
                      FlowFound, Flows!Tasks, Flows!Conns
  <1>3. CASE Flows!BackendEnds
    BY <1>1, <1>3 DEF Flows!BackendEnds, FlowInv, FlowTypes, Answered,
                      FlowFound, Flows!Tasks, Flows!Conns
  <1>4. CASE Flows!Ends
    BY <1>1, <1>4 DEF Flows!Ends, FlowInv, FlowTypes, Answered, FlowFound,
                      Flows!Tasks, Flows!Conns
  <1>5. CASE UNCHANGED Flows!vars
    BY <1>5 DEF Flows!vars, FlowInv, FlowTypes, Answered, FlowFound,
                Flows!Tasks, Flows!Conns
  <1> QED
    BY <1>2, <1>3, <1>4, <1>5

LEMMA FlowNext == ASSUME FlowInv, [Flows!Next]_Flows!vars PROVE FlowInv'
  <1>1. CASE Flows!Accept \/ \E k \in Keys : Flows!Datagram(k)
    BY <1>1, FlowSpawnStep DEF Flows!Accept, Flows!Datagram
  <1>2. CASE \E i \in Flows!Tasks : Flows!Stream(i) \/ Flows!UdpTask(i)
    BY <1>2, StreamStep, LooksStep, WritesStep, ResolveStep, SendsStep
       DEF Flows!UdpTask
  <1>3. CASE \E c \in Flows!Conns : Flows!Reads(c) \/ Flows!ReadFails(c) \/ Flows!GoesIdle(c)
    BY <1>3, ConnStep
  <1>4. CASE Flows!Sweep \/ Flows!RouteChange \/ Flows!ReaderEnds \/ Flows!Teardown \/ UNCHANGED Flows!vars
    BY <1>4, SweepStep, RouteStep, AbortsStep, FlowWorkerStep
       DEF Flows!Teardown
  <1> QED
    BY <1>1, <1>2, <1>3, <1>4 DEF Flows!Next

-----------------------------------------------------------------------------
(* The theorems *)

THEOREM FlowInvariant == Flows!Spec => []FlowInv
  BY FlowInit, FlowNext, PTL DEF Flows!Spec

(* While the stack runs, a session of the map has a live reader, and it is *)
(* the reader of its own flow, whatever datagrams of one flow race for the *)
(* session (handle_udp_datagram).                                          *)
THEOREM SessionsAreRead == Flows!Spec => []Flows!SessionHasReader
  <1>1. FlowInv => Flows!SessionHasReader
    BY DEF FlowInv, Answered, Flows!SessionHasReader
  <1> QED
    BY <1>1, FlowInvariant, PTL

(* When run_netstack_vpn has returned, no stream and no datagram is        *)
(* handled any more: abort_flow_tasks finds every task that still ran.     *)
THEOREM TasksEnd == Flows!Spec => []Flows!FlowsEnd
  <1>1. FlowInv => Flows!FlowsEnd
    BY DEF FlowInv, FlowFound, Flows!FlowsEnd
  <1> QED
    BY <1>1, FlowInvariant, PTL

-----------------------------------------------------------------------------
(* The external engines.                                                   *)

CONSTANTS Engine, EngineAttempts, Modes, Sels, MaxEdits, MaxHandovers, Fails, StartEdits,
          EarlyHandover, SlowProbe

VARIABLES engineControl, engineEdits, woken, stopping, attempts, pc, ab, engineSub, chain,
          calls, yaml, eng, net, moves, mon, engineProbes, forced

Reload == INSTANCE EngineReload WITH
    Attempts <- EngineAttempts, control <- engineControl, edits <- engineEdits,
    sub <- engineSub, probes <- engineProbes

(* No reload takes the TUN away from an engine: mihomo keeps it, and       *)
(* sing-box gives it up only when it refuses the new configuration.        *)
KeepsTun == Engine = "mihomo" \/ Fails = FALSE

(* The records have their fields, and numbers are numbers.                 *)
HasFields ==
    /\ attempts \in Nat /\ ab.attempt \in Nat
    /\ {"attempt", "engine", "conn", "tun", "net", "last"} \subseteq DOMAIN ab
    /\ {"tun", "config", "net"} \subseteq DOMAIN eng
    /\ pc \in {"idle", "network", "create", "prepare", "setup", "persist", "up", "cleanup"}

(* What the Ability holds at each step of its request chain, and where the *)
(* engine is.                                                              *)
Steady ==
    /\ pc \in {"idle", "cleanup"} => ab.attempt = 0 /\ ab.conn = 0
    /\ pc \notin {"idle", "cleanup"} => ab.attempt # 0
    /\ pc \in {"idle", "cleanup", "network", "create"} => ab.tun = 0
    /\ pc \in {"create", "prepare", "setup", "persist", "up"} => ab.conn = ab.attempt
    /\ pc \in {"prepare", "setup", "persist", "up"} => ab.tun = ab.attempt
    /\ pc \in {"setup", "persist", "up"} => ab.engine
    /\ ab.engine => pc \in {"setup", "persist", "up"}
    /\ pc = "setup" => Engine = "mihomo"
    /\ pc \notin {"persist", "up"} => eng.tun = 0
    /\ pc \in {"persist", "up"} => eng.tun \in {0, ab.attempt}
    /\ pc \in {"persist", "up"} /\ KeepsTun => eng.tun = ab.attempt

EngineInv == HasFields /\ Steady

(* There is no session and no engine at first.                             *)
LEMMA EngineInit == ASSUME Reload!Init PROVE EngineInv
  <1>1. /\ attempts = 0 /\ pc = "idle"
        /\ ab.attempt = 0 /\ ab.engine = FALSE /\ ab.conn = 0 /\ ab.tun = 0
        /\ {"attempt", "engine", "conn", "tun", "net", "last"} \subseteq DOMAIN ab
    BY DEF Reload!Init, Reload!NoSession
  <1>2. eng.tun = 0 /\ {"tun", "config", "net"} \subseteq DOMAIN eng
    BY DEF Reload!Init, Reload!Down
  <1>3. HasFields
    BY <1>1, <1>2 DEF HasFields
  <1>4. Steady
    BY <1>1, <1>2 DEF Steady
  <1> QED
    BY <1>3, <1>4 DEF EngineInv

(* Nothing of the session or the engine's TUN changes.                     *)
LEMMA EngineStays ==
    ASSUME EngineInv, UNCHANGED <<attempts, pc>>,
           DOMAIN ab' = DOMAIN ab, DOMAIN eng' = DOMAIN eng,
           ab'.attempt = ab.attempt, ab'.engine = ab.engine, ab'.conn = ab.conn,
           ab'.tun = ab.tun, eng'.tun = eng.tun
    PROVE  EngineInv'
  BY DEF EngineInv, HasFields, Steady, KeepsTun

(* A teardown leaves no session, and no engine on a TUN.                   *)
LEMMA TornDown ==
    ASSUME EngineInv, Reload!Destroy(ab), attempts' = attempts,
           pc \notin {"persist", "up"} \/ ab.engine
    PROVE  EngineInv'
  <1>1. ab' = Reload!NoSession /\ pc' = "cleanup"
    BY DEF Reload!Destroy
  <1>2. /\ {"attempt", "engine", "conn", "tun", "net", "last"} \subseteq DOMAIN ab'
        /\ ab'.attempt = 0 /\ ab'.engine = FALSE /\ ab'.conn = 0 /\ ab'.tun = 0
    BY <1>1 DEF Reload!NoSession
  <1>3. eng'.tun = 0 /\ {"tun", "config", "net"} \subseteq DOMAIN eng'
    <2>1. CASE ab.engine
      BY <2>1 DEF Reload!Destroy, Reload!Down
    <2>2. CASE ~ab.engine
      BY <2>2 DEF Reload!Destroy, EngineInv, HasFields, Steady
    <2> QED
      BY <2>1, <2>2
  <1>4. HasFields'
    BY <1>1, <1>2, <1>3 DEF EngineInv, HasFields
  <1>5. Steady'
    BY <1>1, <1>2, <1>3 DEF Steady
  <1> QED
    BY <1>4, <1>5 DEF EngineInv

(* A request chain goes on to the TUN and the engine, or tears down what   *)
(* it has (performStart, startMihomo, destroyVpn).                         *)
LEMMA EngineStarts ==
    ASSUME EngineInv,
           Reload!Bind \/ Reload!StartNetwork \/ Reload!Create \/ Reload!StartMihomo
           \/ Reload!MihomoStarted
    PROVE  EngineInv'
  <1>1. CASE Reload!Bind
    <2>1. /\ ab' = [ab EXCEPT !.attempt = attempts + 1] /\ pc = "idle" /\ pc' = "network"
          /\ attempts' = attempts + 1 /\ eng' = eng /\ attempts + 1 \in Nat /\ attempts + 1 # 0
      BY <1>1 DEF Reload!Bind, EngineInv, HasFields
    <2>2. /\ DOMAIN ab' = DOMAIN ab /\ ab'.attempt = attempts + 1 /\ ab'.engine = ab.engine
          /\ ab'.conn = ab.conn /\ ab'.tun = ab.tun
      BY <2>1 DEF EngineInv, HasFields
    <2> QED
      BY <2>1, <2>2 DEF EngineInv, HasFields, Steady
  <1>2. CASE Reload!StartNetwork
    <2>1. pc = "network" /\ attempts' = attempts
      BY <1>2 DEF Reload!StartNetwork, Reload!AbilityOnly
    <2>2. CASE ab' = [ab EXCEPT !.conn = ab.attempt, !.net = net] /\ pc' = "create" /\ eng' = eng
      <3>1. /\ DOMAIN ab' = DOMAIN ab /\ ab'.attempt = ab.attempt /\ ab'.engine = ab.engine
            /\ ab'.conn = ab.attempt /\ ab'.tun = ab.tun
        BY <2>2 DEF EngineInv, HasFields
      <3> QED
        BY <2>1, <2>2, <3>1 DEF EngineInv, HasFields, Steady
    <2>3. CASE Reload!Destroy(ab)
      BY <2>1, <2>3, TornDown
    <2> QED
      BY <1>2, <2>2, <2>3 DEF Reload!StartNetwork
  <1>3. CASE Reload!Create
    <2>1. pc = "create" /\ attempts' = attempts
      BY <1>3 DEF Reload!Create, Reload!AbilityOnly
    <2>2. CASE ab' = [ab EXCEPT !.tun = ab.attempt] /\ pc' = "prepare" /\ eng' = eng
      <3>1. /\ DOMAIN ab' = DOMAIN ab /\ ab'.attempt = ab.attempt /\ ab'.engine = ab.engine
            /\ ab'.conn = ab.conn /\ ab'.tun = ab.attempt
        BY <2>2 DEF EngineInv, HasFields
      <3> QED
        BY <2>1, <2>2, <3>1 DEF EngineInv, HasFields, Steady
    <2>3. CASE Reload!Destroy(ab)
      BY <2>1, <2>3, TornDown
    <2> QED
      BY <1>3, <2>2, <2>3 DEF Reload!Create
  <1>4. CASE Reload!StartMihomo
    <2>1. pc = "prepare" /\ Engine = "mihomo" /\ attempts' = attempts
      BY <1>4 DEF Reload!StartMihomo, Reload!AbilityOnly
    <2>2. CASE ab' = [ab EXCEPT !.engine = TRUE] /\ pc' = "setup" /\ eng' = eng
      <3>1. /\ DOMAIN ab' = DOMAIN ab /\ ab'.attempt = ab.attempt /\ ab'.engine = TRUE
            /\ ab'.conn = ab.conn /\ ab'.tun = ab.tun
        BY <2>2 DEF EngineInv, HasFields
      <3> QED
        BY <2>1, <2>2, <3>1 DEF EngineInv, HasFields, Steady
    <2>3. CASE Reload!Destroy(ab)
      BY <2>1, <2>3, TornDown
    <2> QED
      BY <1>4, <2>2, <2>3 DEF Reload!StartMihomo
  <1>5. CASE Reload!MihomoStarted
    <2>1. attempts' = attempts
      BY <1>5 DEF Reload!MihomoStarted, Reload!AbilityOnly
    <2>2. CASE pc = "setup" /\ Reload!StartTun
      <3>1. CASE /\ eng' = [eng EXCEPT !.tun = ab.attempt]
                 /\ ab' = [ab EXCEPT !.last = calls["start"].sel]
                 /\ pc' = "persist"
        <4>1. /\ DOMAIN ab' = DOMAIN ab /\ ab'.attempt = ab.attempt /\ ab'.engine = ab.engine
              /\ ab'.conn = ab.conn /\ ab'.tun = ab.tun
              /\ DOMAIN eng' = DOMAIN eng /\ eng'.tun = ab.attempt
          BY <3>1 DEF EngineInv, HasFields
        <4> QED
          BY <2>1, <2>2, <3>1, <4>1 DEF EngineInv, HasFields, Steady
      <3>2. CASE Reload!Destroy(ab)
        BY <2>1, <2>2, <3>2, TornDown
      <3> QED
        BY <2>2, <3>1, <3>2 DEF Reload!StartTun
    <2>3. CASE pc = "setup" /\ Reload!Destroy(ab)
      BY <2>1, <2>3, TornDown
    <2>4. CASE /\ pc' = pc /\ eng' = eng
               /\ ab' \in {[ab EXCEPT !.last = calls["start"].sel], ab}
      <3>1. /\ DOMAIN ab' = DOMAIN ab /\ ab'.attempt = ab.attempt /\ ab'.engine = ab.engine
            /\ ab'.conn = ab.conn /\ ab'.tun = ab.tun
        BY <2>4 DEF EngineInv, HasFields
      <3> QED
        BY <2>1, <2>4, <3>1, EngineStays
    <2> QED
      BY <1>5, <2>2, <2>3, <2>4 DEF Reload!MihomoStarted
  <1> QED
    BY <1>1, <1>2, <1>3, <1>4, <1>5

(* A chain that times out, starts sing-box, publishes its session, or is   *)
(* told to stop keeps engine and session together (startSingBox,           *)
(* reconcileExtensionTerminal).                                            *)
LEMMA EngineEnds ==
    ASSUME EngineInv,
           Reload!StartTimesOut \/ Reload!StartSingBox \/ Reload!Persisted
           \/ Reload!Heartbeat \/ Reload!CleanupEnds
    PROVE  EngineInv'
  <1>1. CASE Reload!StartTimesOut
    BY <1>1, TornDown DEF Reload!StartTimesOut, Reload!AbilityOnly
  <1>2. CASE Reload!StartSingBox
    <2>1. pc = "prepare" /\ attempts' = attempts
      BY <1>2 DEF Reload!StartSingBox, Reload!AbilityOnly
    <2>2. CASE /\ eng' = [tun |-> ab.tun, config |-> engineControl, net |-> ab.net]
               /\ ab' = [ab EXCEPT !.engine = TRUE, !.last = engineControl]
               /\ pc' = "persist"
      <3>1. /\ DOMAIN ab' = DOMAIN ab /\ ab'.attempt = ab.attempt /\ ab'.engine = TRUE
            /\ ab'.conn = ab.conn /\ ab'.tun = ab.tun
            /\ eng'.tun = ab.tun /\ {"tun", "config", "net"} \subseteq DOMAIN eng'
        BY <2>2 DEF EngineInv, HasFields
      <3> QED
        BY <2>1, <2>2, <3>1 DEF EngineInv, HasFields, Steady
    <2>3. CASE Reload!Destroy(ab)
      BY <2>1, <2>3, TornDown
    <2> QED
      BY <1>2, <2>2, <2>3 DEF Reload!StartSingBox
  <1>3. CASE Reload!Persisted
    BY <1>3 DEF Reload!Persisted, Reload!AbilityOnly, EngineInv, HasFields, Steady
  <1>4. CASE Reload!Heartbeat
    <2>1. pc = "up" /\ attempts' = attempts /\ Reload!Destroy(ab)
      BY <1>4 DEF Reload!Heartbeat, Reload!AbilityOnly
    <2>2. ab.engine
      BY <2>1 DEF EngineInv, Steady
    <2> QED
      BY <2>1, <2>2, TornDown
  <1>5. CASE Reload!CleanupEnds
    BY <1>5 DEF Reload!CleanupEnds, Reload!AbilityOnly, EngineInv, HasFields, Steady
  <1> QED
    BY <1>1, <1>2, <1>3, <1>4, <1>5

(* A reload changes the configuration of the engine and takes its TUN away *)
(* only when sing-box refuses (reloadSingBoxConfig, quickSetup).           *)
LEMMA EngineReloads ==
    ASSUME EngineInv,
           \/ Reload!SubscriptionWakes \/ Reload!ReloadRefused \/ Reload!ReloadSkips
           \/ Reload!ReloadSingBox \/ Reload!ReloadMihomo \/ Reload!ReloadedMihomo
           \/ \E by \in {"start", "reload"} : Reload!QuickSetup(by)
    PROVE  EngineInv'
  <1>1. CASE Reload!SubscriptionWakes
    BY <1>1, EngineStays DEF Reload!SubscriptionWakes, Reload!AbilityOnly
  <1>2. CASE Reload!ReloadRefused
    BY <1>2, EngineStays DEF Reload!ReloadRefused, Reload!AbilityOnly
  <1>3. CASE Reload!ReloadSkips
    BY <1>3, EngineStays DEF Reload!ReloadSkips, Reload!AbilityOnly
  <1>4. CASE Reload!ReloadMihomo
    BY <1>4, EngineStays DEF Reload!ReloadMihomo
  <1>5. CASE Reload!ReloadSingBox
    <2>1. /\ Engine = "sing-box" /\ ab.engine /\ UNCHANGED <<attempts, pc>>
      BY <1>5 DEF Reload!ReloadSingBox, Reload!Wanted
    <2>2. pc \in {"persist", "up"} /\ ab.tun = ab.attempt
      BY <2>1 DEF EngineInv, HasFields, Steady
    <2>3. CASE /\ eng' = [tun |-> ab.tun, config |-> engineControl, net |-> ab.net]
               /\ ab' = [ab EXCEPT !.last = engineControl]
      <3>1. /\ DOMAIN ab' = DOMAIN ab /\ ab'.attempt = ab.attempt /\ ab'.engine = ab.engine
            /\ ab'.conn = ab.conn /\ ab'.tun = ab.tun
            /\ eng'.tun = ab.tun /\ {"tun", "config", "net"} \subseteq DOMAIN eng'
        BY <2>3 DEF EngineInv, HasFields
      <3> QED
        BY <2>1, <2>2, <3>1 DEF EngineInv, HasFields, Steady
    <2>4. CASE Fails /\ eng' = Reload!Down /\ ab' = ab
      <3>1. eng'.tun = 0 /\ {"tun", "config", "net"} \subseteq DOMAIN eng'
        BY <2>4 DEF Reload!Down
      <3>2. ~KeepsTun
        BY <2>1, <2>4 DEF KeepsTun
      <3> QED
        BY <2>1, <2>2, <2>4, <3>1, <3>2 DEF EngineInv, HasFields, Steady, KeepsTun
    <2> QED
      BY <1>5, <2>3, <2>4 DEF Reload!ReloadSingBox
  <1>6. CASE Reload!ReloadedMihomo
    <2>1. /\ UNCHANGED <<attempts, pc, eng>>
          /\ ab' \in {[ab EXCEPT !.last = calls["reload"].sel], ab}
      BY <1>6 DEF Reload!ReloadedMihomo, Reload!AbilityOnly
    <2>2. /\ DOMAIN ab' = DOMAIN ab /\ ab'.attempt = ab.attempt /\ ab'.engine = ab.engine
          /\ ab'.conn = ab.conn /\ ab'.tun = ab.tun
      BY <2>1 DEF EngineInv, HasFields
    <2> QED
      BY <2>1, <2>2, EngineStays
  <1>7. ASSUME NEW by \in {"start", "reload"}, Reload!QuickSetup(by)
        PROVE  EngineInv'
    <2>1. /\ UNCHANGED <<attempts, pc, ab>>
          /\ \/ eng' = eng
             \/ eng' = [eng EXCEPT !.config = [mode |-> yaml, sel |-> calls[by].sel],
                                   !.net = net]
      BY <1>7 DEF Reload!QuickSetup, Reload!AbilityOnly
    <2>2. DOMAIN eng' = DOMAIN eng /\ eng'.tun = eng.tun
      BY <2>1 DEF EngineInv, HasFields
    <2> QED
      BY <2>1, <2>2, EngineStays
  <1> QED
    BY <1>1, <1>2, <1>3, <1>4, <1>5, <1>6, <1>7

(* The UI, the network monitor and its probes change nothing of the        *)
(* session or the TUN (refreshAfterDefaultNetworkChange).                  *)
LEMMA EngineAround ==
    ASSUME EngineInv,
           \/ Reload!UiPublishes \/ Reload!UiStops \/ Reload!NetAvailable \/ Reload!NetLost
           \/ Reload!MonitorListens \/ Reload!TimerFires
           \/ \E i \in DOMAIN engineProbes : Reload!Refresh(i)
           \/ UNCHANGED Reload!vars
    PROVE  EngineInv'
  <1>1. CASE Reload!UiPublishes
    BY <1>1, EngineStays DEF Reload!UiPublishes
  <1>2. CASE Reload!UiStops
    BY <1>2, EngineStays DEF Reload!UiStops
  <1>3. CASE Reload!NetAvailable
    BY <1>3, EngineStays DEF Reload!NetAvailable
  <1>4. CASE Reload!NetLost
    BY <1>4, EngineStays DEF Reload!NetLost
  <1>5. CASE Reload!MonitorListens \/ Reload!TimerFires
    BY <1>5, EngineStays DEF Reload!MonitorListens, Reload!TimerFires, Reload!MonitorOnly
  <1>6. ASSUME NEW i \in DOMAIN engineProbes, Reload!Refresh(i)
        PROVE  EngineInv'
    <2>1. UNCHANGED <<attempts, pc, eng>> /\ ab' = [ab EXCEPT !.net = engineProbes[i]]
      BY <1>6 DEF Reload!Refresh, Reload!MonitorOnly
    <2>2. /\ DOMAIN ab' = DOMAIN ab /\ ab'.attempt = ab.attempt /\ ab'.engine = ab.engine
          /\ ab'.conn = ab.conn /\ ab'.tun = ab.tun
      BY <2>1 DEF EngineInv, HasFields
    <2> QED
      BY <2>1, <2>2, EngineStays
  <1>7. CASE UNCHANGED Reload!vars
    BY <1>7, EngineStays DEF Reload!vars
  <1> QED
    BY <1>1, <1>2, <1>3, <1>4, <1>5, <1>6, <1>7

(* Every step of the reloads keeps the invariant.                          *)
LEMMA EngineNext == ASSUME EngineInv, [Reload!Next]_(Reload!vars) PROVE EngineInv'
  BY EngineStarts, EngineEnds, EngineReloads, EngineAround
     DEF Reload!Next, Reload!Ability, Reload!Reloads, Reload!Monitor

(* An engine reads only the TUN of the session that the Ability holds,     *)
(* however late a setup calls back (quickSetup).                           *)
THEOREM EngineHasOwner == Reload!Spec => []Reload!TunHasOwner
  <1>1. ASSUME EngineInv PROVE Reload!TunHasOwner
    BY <1>1 DEF EngineInv, HasFields, Steady, Reload!TunHasOwner
  <1> QED
    BY <1>1, EngineInit, EngineNext, PTL DEF Reload!Spec

(* While a session is up its engine is on its TUN, unless sing-box has     *)
(* refused a new configuration (reloadSingBoxConfig).                      *)
THEOREM SessionIsCarried ==
    ASSUME KeepsTun PROVE Reload!Spec => []Reload!ConnectedIsCarried
  <1>1. ASSUME EngineInv PROVE Reload!ConnectedIsCarried
    BY <1>1 DEF EngineInv, HasFields, Steady, Reload!ConnectedIsCarried
  <1> QED
    BY <1>1, EngineInit, EngineNext, PTL DEF Reload!Spec

=============================================================================
