---------------------------- MODULE VpnOwnership ----------------------------
(***************************************************************************)
(* What the journal and the leases promise, without processes that talk:   *)
(* one attempt is on offer or owned at a time, only its owner raises the   *)
(* TUN, and ownership moves or ends only when no TUN is up.                *)
(***************************************************************************)
EXTENDS Naturals

CONSTANTS Exts, None

VARIABLES
    issued,   \* the number of attempts issued so far
    phase,    \* "Free", "Offered", "Fenced" or "Owned"
    owner,    \* the Extension that owns the attempt, or None
    up        \* the Extensions in which a TUN is up

avars == <<issued, phase, owner, up>>

AInit ==
    /\ issued = 0
    /\ phase = "Free"
    /\ owner = None
    /\ up = {}

(* begin_platform_vpn_start_for_intent writes the Pending record.          *)
Issue ==
    /\ phase = "Free"
    /\ up = {}
    /\ issued' = issued + 1
    /\ phase' = "Offered"
    /\ UNCHANGED <<owner, up>>

(* bind_platform_vpn_start in the first Extension.                         *)
Adopt(e) ==
    /\ phase = "Offered"
    /\ phase' = "Owned"
    /\ owner' = e
    /\ UNCHANGED <<issued, up>>

(* A stop reaches the record before any Extension does.                    *)
Fence ==
    /\ phase = "Offered"
    /\ phase' = "Fenced"
    /\ UNCHANGED <<issued, owner, up>>

(* bind_platform_vpn_start in a recreated Extension.                       *)
TakeOver(e) ==
    /\ phase = "Owned"
    /\ up = {}
    /\ owner' = e
    /\ UNCHANGED <<issued, phase, up>>

Raise(e) ==
    /\ phase = "Owned"
    /\ owner = e
    /\ up' = up \cup {e}
    /\ UNCHANGED <<issued, phase, owner>>

Lower(e) ==
    /\ up' = up \ {e}
    /\ UNCHANGED <<issued, phase, owner>>

(* Cleanup acknowledged, recovered, or never needed.                       *)
Release ==
    /\ phase # "Free"
    /\ up = {}
    /\ phase' = "Free"
    /\ owner' = None
    /\ UNCHANGED <<issued, up>>

ANext ==
    \/ Issue \/ Fence \/ Release
    \/ \E e \in Exts : Adopt(e) \/ TakeOver(e) \/ Raise(e) \/ Lower(e)

ASpec == AInit /\ [][ANext]_avars

=============================================================================
