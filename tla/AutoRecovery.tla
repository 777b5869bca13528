---------------------------- MODULE AutoRecovery ----------------------------
(***************************************************************************)
(* The recovery of a VPN session whose Extension died: how Core arms it,   *)
(* how the provider of the UI claims it when a revision is published, the  *)
(* automatic start this spawns, and the re-arming with a backoff when that *)
(* start fails.  A session here is its attempt and its outcome; how it is  *)
(* started and torn down is the subject of PlatformSession and VpnReceipts.*)
(***************************************************************************)
EXTENDS Naturals, FiniteSets

CONSTANTS
    MaxSessions,  \* bound: attempts, the user's and the automatic ones
    Deaths,       \* bound: sessions that die while connected
    StopsAllowed, \* the user stops the VPN
    Unconfirmed   \* a start may outlive the budget of its observer

ConstantsOK ==
    /\ {MaxSessions, Deaths} \subseteq Nat /\ {StopsAllowed, Unconfirmed} \subseteq BOOLEAN

Limit == 3     \* platform_auto_recovery_attempts
Ids == 1 .. MaxSessions
Orphan == MaxSessions + 1    \* the attempt a journal of an earlier process names

VARIABLES
    sess,    \* platform_start_attempt_id, its outcome and stop_requested
    rec,     \* platform_auto_recovery_*
    cold,    \* lifecycle.json and the journal name a connected owner that is gone
    tasks,   \* automatic starts: 0 before the submission, else the attempt
    woken,   \* the watch has changed since the provider looked
    used,    \* attempts so far
    deaths,
    user,    \* what the user last asked for since the last death (history)
    claims   \* claims made for each death (history)

vars == <<sess, rec, cold, tasks, woken, used, deaths, user, claims>>

NoSession == [id |-> 0, st |-> "none", stop |-> FALSE]
Idle == [pending |-> FALSE, dead |-> 0, attempts |-> 0, backoff |-> FALSE]
Busy == sess.st \in {"starting", "up"}

Armed(id) == [pending |-> TRUE, dead |-> id, attempts |-> 0, backoff |-> FALSE]
Disarmed(r) == [r EXCEPT !.pending = FALSE, !.backoff = FALSE]

(***************************************************************************)
(* The session                                                             *)
(***************************************************************************)
Begins == /\ used < MaxSessions
          /\ used' = used + 1
          /\ sess' = [id |-> used + 1, st |-> "starting", stop |-> FALSE]

UserStarts ==
    /\ ~Busy /\ Begins
    /\ user' = "on"
    /\ UNCHANGED <<rec, cold, tasks, woken, deaths, claims>>

(* A running frame of the Extension clears what was armed.                 *)
Connects ==
    /\ sess.st = "starting"
    /\ sess' = [sess EXCEPT !.st = "up"]
    /\ rec' = Disarmed(rec)
    /\ woken' = TRUE
    /\ cold' = FALSE
    /\ UNCHANGED <<tasks, used, deaths, user, claims>>

StartFails ==
    /\ sess.st = "starting"
    /\ sess' = [sess EXCEPT !.st = "over"]
    /\ woken' = TRUE
    /\ UNCHANGED <<rec, cold, tasks, used, deaths, user, claims>>

(* Mutant: the watchdog arms the recovery again for the same attempt.      *)
DiesAgain ==
    /\ sess.st \in {"up", "over"} /\ deaths < Deaths
    /\ deaths' = deaths + 1
    /\ sess' = [sess EXCEPT !.st = "over"]
    /\ rec' = IF ~sess.stop THEN Armed(sess.id) ELSE rec
    /\ woken' = TRUE
    /\ UNCHANGED <<cold, tasks, used, user, claims>>

(* The lease is released, or the heartbeat stops: a session that was       *)
(* connected and not being stopped arms the recovery, once.                *)
Dies ==
    /\ sess.st = "up" /\ deaths < Deaths
    /\ deaths' = deaths + 1
    /\ sess' = [sess EXCEPT !.st = "over"]
    /\ rec' = IF ~sess.stop /\ rec.dead # sess.id THEN Armed(sess.id) ELSE rec
    /\ user' = IF ~sess.stop THEN "none" ELSE user
    /\ woken' = TRUE
    /\ UNCHANGED <<cold, tasks, used, claims>>

(* request_platform_vpn_stop for a connected owner;                        *)
(* claim_current_platform_vpn_stop cancels a start, and finds of a session *)
(* that is over at most the journal it left behind.                        *)
UserStops ==
    /\ StopsAllowed /\ user # "off"
    /\ user' = "off"
    /\ \/ /\ sess.st = "up"
          /\ sess' = [sess EXCEPT !.stop = TRUE]
          /\ rec' = Disarmed(rec)
       \/ /\ sess.st = "starting"
          /\ sess' = [sess EXCEPT !.st = "over", !.stop = TRUE]
          /\ UNCHANGED rec
       \/ /\ ~Busy
          /\ UNCHANGED <<sess, rec>>
    /\ woken' = TRUE /\ cold' = FALSE
    /\ UNCHANGED <<tasks, used, deaths, claims>>

StopEnds ==
    /\ sess.st = "up" /\ sess.stop
    /\ sess' = [sess EXCEPT !.st = "over"]
    /\ UNCHANGED <<rec, cold, tasks, woken, used, deaths, user, claims>>

(***************************************************************************)
(* The provider and the automatic start                                    *)
(***************************************************************************)
(* The telemetry loop publishes a revision every second.                   *)
Publish ==
    /\ ~woken
    /\ woken' = TRUE
    /\ UNCHANGED <<sess, rec, cold, tasks, used, deaths, user, claims>>

(* detect_cold_orphaned_connected_vpn, for a process with no attempt yet.  *)
Found == IF ~rec.pending /\ sess.id = 0 /\ rec.dead = 0 /\ cold
         THEN Armed(Orphan) ELSE rec

(* Mutant: the attempts are not limited.                                   *)
ClaimUncapped ==
    /\ woken
    /\ woken' = FALSE
    /\ \/ (Busy \/ ~Found.pending \/ Found.backoff) /\ UNCHANGED <<rec, tasks, claims>>
       \/ /\ ~Busy /\ Found.pending /\ ~Found.backoff
          /\ rec' = [Disarmed(Found) EXCEPT !.attempts = Found.attempts + 1,
                                            !.pending = Found.attempts > 0]
          /\ tasks' = tasks \union {0}
          /\ UNCHANGED claims
    /\ UNCHANGED <<sess, cold, used, deaths, user>>

(* claim_platform_vpn_auto_recovery *)
Claim ==
    /\ woken
    /\ woken' = FALSE
    /\ \/ Busy /\ UNCHANGED <<rec, tasks, claims>>
       \/ /\ ~Busy /\ (~Found.pending \/ (Found.backoff /\ Found.attempts < Limit))
          /\ rec' = Found
          /\ UNCHANGED <<tasks, claims>>
       \/ /\ ~Busy /\ Found.pending /\ Found.attempts >= Limit
          /\ rec' = Disarmed(Found)
          /\ UNCHANGED <<tasks, claims>>
       \/ /\ ~Busy /\ Found.pending /\ Found.attempts < Limit /\ ~Found.backoff
          /\ rec' = [Disarmed(Found) EXCEPT !.attempts = Found.attempts + 1]
          /\ tasks' = tasks \union {0}
          /\ claims' = [claims EXCEPT ![Found.dead] = @ + 1]
    /\ UNCHANGED <<sess, cold, used, deaths, user>>

(* request_start_vpn reaches the platform: a session that is there already *)
(* is left alone.                                                          *)
AutoStart ==
    /\ 0 \in tasks
    /\ \/ ~Busy /\ Begins /\ tasks' = (tasks \ {0}) \union {used + 1}
       \/ Busy /\ tasks' = tasks \ {0} /\ UNCHANGED <<sess, used>>
    /\ UNCHANGED <<rec, cold, woken, deaths, user, claims>>

(* Mutant: a failed start re-arms without end.                             *)
RearmAlways ==
    rec' = IF Busy \/ rec.attempts = 0 THEN rec
           ELSE [rec EXCEPT !.pending = TRUE, !.backoff = TRUE, !.attempts = 1]

(* rearm_platform_vpn_auto_recovery *)
Rearm ==
    rec' = IF ~Busy /\ rec.attempts \in 1 .. Limit - 1
           THEN [rec EXCEPT !.pending = TRUE, !.backoff = TRUE] ELSE rec

(* The observer of the start: connected or unconfirmed, or failed.         *)
AutoStarted ==
    \E id \in tasks \ {0} :
        /\ tasks' = tasks \ {id}
        /\ \/ /\ (sess.id = id /\ sess.st = "up") \/ Unconfirmed
              /\ UNCHANGED rec
           \/ /\ sess.id # id \/ sess.st = "over"
              /\ Rearm
        /\ UNCHANGED <<sess, cold, woken, used, deaths, user, claims>>

(* 10 s after the first failed start, 30 s after the second.               *)
BackoffEnds ==
    /\ rec.backoff
    /\ rec' = [rec EXCEPT !.backoff = FALSE]
    /\ UNCHANGED <<sess, cold, tasks, woken, used, deaths, user, claims>>

-----------------------------------------------------------------------------
Init ==
    /\ sess = NoSession /\ rec = Idle /\ cold \in BOOLEAN /\ tasks = {}
    /\ woken = TRUE /\ used = 0 /\ deaths = 0 /\ user = "none"
    /\ claims = [id \in Ids \union {Orphan} |-> 0]

Next == UserStarts \/ Connects \/ StartFails \/ Dies \/ UserStops \/ StopEnds
        \/ Publish \/ Claim \/ AutoStart \/ AutoStarted \/ BackoffEnds

Spec == Init /\ [][Next]_vars

(* The loops of Core and of the provider run, and every start is settled.  *)
Fair(n) ==
    \/ n = 1 /\ (Publish \/ Claim)
    \/ n = 2 /\ (AutoStart \/ AutoStarted)
    \/ n = 3 /\ (BackoffEnds \/ StopEnds)
    \/ n = 4 /\ (Connects \/ StartFails)

FairSpec == Spec /\ \A n \in 1..4 : WF_vars(Fair(n))

-----------------------------------------------------------------------------
TypeOK ==
    /\ sess \in [id : 0 .. MaxSessions, st : {"none", "starting", "up", "over"}, stop : BOOLEAN]
    /\ rec \in [pending : BOOLEAN, dead : 0 .. Orphan, attempts : 0 .. Limit, backoff : BOOLEAN]
    /\ cold \in BOOLEAN /\ tasks \subseteq 0 .. MaxSessions /\ woken \in BOOLEAN
    /\ used \in 0 .. MaxSessions /\ deaths \in 0 .. Deaths
    /\ user \in {"none", "on", "off"} /\ claims \in [Ids \union {Orphan} -> Nat]

(* One death is answered by at most three automatic starts, whichever of   *)
(* them fail and whoever else starts in between.                           *)
ThreeStartsPerDeath == \A id \in DOMAIN claims : claims[id] <= Limit

(* A death is not forgotten: with room for the starts and a user who keeps *)
(* away, the VPN comes back or three starts have failed.                   *)
Recovers ==
    <>[](rec.dead # 0 => \/ sess.st = "up" \/ rec.attempts = Limit
                         \/ user # "none" \/ used = MaxSessions)

(* Nothing starts the VPN by itself after the user has stopped it.         *)
\* It does not hold: see the observations in the README.
SkipsUserStops == [][AutoStart /\ used' # used => user # "off"]_vars

=============================================================================
