--------------------------- MODULE PlatformOwner ---------------------------
(***************************************************************************)
(* The durable owner record of the platform VPN: the journal file          *)
(* runtime/platform-vpn-owner.json and the two flock leases beside it.     *)
(*                                                                         *)
(* Every journal operation of platform_owner.rs runs under an exclusive    *)
(* lock of its own lock file and replaces the record by write-to-temp,     *)
(* fsync and rename, so each is one atomic compare-and-swap on a journal   *)
(* value: an operator here says when the operation succeeds (Can...) and   *)
(* what it leaves behind.  An operation that fails leaves the record.      *)
(*                                                                         *)
(* A lease is an flock on a fixed file whose record names the holder.  The *)
(* kernel drops the lock when the holder dies; the record of a lease that  *)
(* nobody holds carries no information (observers only see "Released"), so *)
(* a lease is the pair of its holder and the attempt in the record.        *)
(***************************************************************************)
EXTENDS Naturals

CONSTANTS
    Uis,          \* identities (boot id, pid, start time) of UI processes
    Exts,         \* identities of VPN Extension processes
    None,         \* no process
    MaxAttempts   \* bound on the start attempts of one run

ASSUME ProcessAssumption ==
    /\ Uis \cap Exts = {}
    /\ None \notin Uis \cup Exts

ASSUME MaxAttemptsAssumption == MaxAttempts \in Nat

Procs == Uis \cup Exts

(* Attempt ids "<nanos>-<sequence>" are unique: they are numbered in the   *)
(* order in which they are issued, and 0 is the empty id.                  *)
NoAttempt == 0
Attempts == 1 .. MaxAttempts

-----------------------------------------------------------------------------
(* The journal *)

NoJournal == [attempt |-> NoAttempt, issuer |-> None, extension |-> None,
              phase |-> "Missing"]

PendingJournal(a, u) == [attempt |-> a, issuer |-> u, extension |-> None,
                         phase |-> "Pending"]

Journals == [attempt : Attempts \cup {NoAttempt}, issuer : Uis \cup {None},
             extension : Exts \cup {None},
             phase : {"Missing", "Pending", "Attached", "Stopping"}]

(* The phase and the Extension of a record that validate_record accepts.   *)
ValidRecord(j) ==
    \/ j = NoJournal
    \/ /\ j.attempt \in Attempts
       /\ j.issuer \in Uis
       /\ \/ j.phase \in {"Pending", "Stopping"} /\ j.extension = None
          \/ j.phase = "Attached" /\ j.extension \in Exts

CanUpgradeAttached(j, a, u, e) ==
    /\ j.attempt = a
    /\ j.issuer = u
    /\ \/ j.phase = "Pending" /\ j.extension = None
       \/ j.phase = "Attached" /\ j.extension = e

CanRebindAttached(j, a, u, old, e) ==
    /\ j.attempt = a
    /\ j.issuer = u
    /\ j.phase = "Attached"
    /\ j.extension \in {old, e}

(* Both attaching operations leave the record Attached to the caller.      *)
AttachedTo(j, e) == [j EXCEPT !.phase = "Attached", !.extension = e]

(* Mutant of CanFencePendingStop: the fence does not look at the phase.    *)
CanFenceAny(j, a, u) ==
    /\ j.attempt = a
    /\ j.issuer = u

CanFencePendingStop(j, a, u) ==
    /\ j.attempt = a
    /\ j.issuer = u
    /\ j.phase \in {"Pending", "Stopping"}
    /\ j.extension = None

Fenced(j) == [j EXCEPT !.phase = "Stopping"]

(* Mutant of CanDelete: the Extension in the record is not compared.       *)
CanDeleteAny(j, a, x) == j.phase # "Missing" /\ j.attempt = a

(* x = None is an exact expectation, never a wildcard.                     *)
CanDelete(j, a, x) ==
    /\ j.phase # "Missing"
    /\ j.attempt = a
    /\ j.extension = x

CanDeletePending(j, a) ==
    /\ j.attempt = a
    /\ j.phase = "Pending"
    /\ j.extension = None

-----------------------------------------------------------------------------
(* The leases *)

FreeLease == [holder |-> None, attempt |-> NoAttempt]

Leases(P) == [holder : P \cup {None}, attempt : Attempts \cup {NoAttempt}]

(* What another process learns about the owner it expects to hold a lease. *)
Observe(lease, a, p) ==
    IF lease.holder = None THEN "Released"
    ELSE IF lease = [holder |-> p, attempt |-> a] THEN "HeldExact"
    ELSE "HeldOther"

(* Mutant of CanAcquire: a shared lock excludes nobody.                    *)
CanAcquireShared(lease) == TRUE

CanAcquire(lease) == lease.holder = None

Acquired(a, p) == [holder |-> p, attempt |-> a]

(* The lease once process p has closed its descriptor, or has died.        *)
ReleasedBy(lease, p) == IF lease.holder = p THEN FreeLease ELSE lease

=============================================================================
