--------------------------- MODULE UiProjections ---------------------------
(***************************************************************************)
(* How the UI follows Core: the revisions Core publishes per domain        *)
(* through a watch channel, the four projections the UI loads at its       *)
(* start, the provider task that fetches what it has not applied, the      *)
(* bounded channel to the UI executor, which a paused window does not      *)
(* drain, and the operations that apply projections of their own.          *)
(*                                                                         *)
(* The content of a domain is its revision: Core changes both under its    *)
(* state lock. A lock that fails, because a thread panicked under it, keeps  *)
(* failing: ClearError is never sent.                                      *)
(***************************************************************************)
EXTENDS Naturals, Sequences, FiniteSets

CONSTANTS
    MaxChanges,  \* bound: changes Core publishes
    MaxOps,      \* bound: operations that bring a projection of their own
    Capacity,    \* of the channel to the UI executor
    Poison       \* a thread may panic while it holds the state lock

ConstantsOK ==
    /\ {MaxChanges, MaxOps} \subseteq Nat /\ Capacity \in Nat \ {0}
    /\ Poison \in BOOLEAN

(* The order in which load_initial_ui_state and the provider go through    *)
(* the domains.                                                            *)
Order == <<"config", "telemetry", "status", "resource">>
Domains == {"config", "telemetry", "status", "resource"}

VARIABLES
    core,      \* [Domains -> revision], the state of Core and its watch value
    poisoned,  \* the state lock is poisoned
    changes,   \* changes so far
    fresh,     \* the watch has changed since the provider last looked
    shown,     \* [Domains -> revision the UI shows]: versions
    startup,   \* how many domains load_initial_ui_state has read, 5: mounted
    stamps,    \* the revisions read at startup
    prov,      \* the provider task
    chan,      \* the channel to the UI executor
    ops,       \* projections operations carry to the UI, not yet applied
    opCount,
    error,     \* session.runtime_error
    told,      \* its notifications since the UI is mounted
    paused     \* the UI executor does not run

coreVars == <<core, poisoned, changes>>
uiVars == <<shown, error, told>>
vars == <<core, poisoned, changes, fresh, shown, startup, stamps, prov, chan, ops,
          opCount, error, told, paused>>

Zero == [d \in Domains |-> 0]
Proj(d) == [of |-> d, rev |-> core[d]]
Failure == [of |-> "error", rev |-> 0]

(***************************************************************************)
(* Core                                                                    *)
(***************************************************************************)
(* The publish_*_locked functions, by the domains they advance.            *)
Published == {{"config"}, {"telemetry"}, {"status"}, {"resource"},
              {"config", "status", "resource"}, {"telemetry", "resource"},
              {"status", "resource"}, {"status", "telemetry"}}

Publish ==
    /\ changes < MaxChanges /\ ~poisoned
    /\ \E ds \in Published :
          core' = [d \in Domains |-> IF d \in ds THEN core[d] + 1 ELSE core[d]]
    /\ changes' = changes + 1
    /\ fresh' = TRUE
    /\ UNCHANGED <<poisoned, shown, startup, stamps, prov, chan, ops, opCount, error,
                   told, paused>>

LockPoisoned ==
    /\ Poison /\ ~poisoned
    /\ poisoned' = TRUE
    /\ UNCHANGED <<core, changes, fresh, shown, startup, stamps, prov, chan, ops,
                   opCount, error, told, paused>>

(***************************************************************************)
(* The start of the UI                                                     *)
(***************************************************************************)
(* One of the four reads of load_initial_ui_state; Core may publish in     *)
(* between.                                                                *)
LoadInitial ==
    /\ startup < 4
    /\ startup' = startup + 1
    /\ IF poisoned
       THEN error' = "startup" /\ UNCHANGED told /\ UNCHANGED <<shown, stamps>>
       ELSE /\ shown' = [shown EXCEPT ![Order[startup + 1]] = core[Order[startup + 1]]]
            /\ stamps' = [stamps EXCEPT ![Order[startup + 1]] = core]
            /\ UNCHANGED <<error, told>>
    /\ UNCHANGED <<core, poisoned, changes, fresh, prov, chan, ops, opCount, paused>>

(* initial_applied_revisions: only its own read proves a domain.           *)
InitialApplied == [d \in Domains |-> stamps[d][d]]

(* The provider starts with them, and with a look at the watch.            *)
Mount ==
    /\ startup = 4
    /\ startup' = 5
    /\ prov' = [pc |-> "look", at |-> 1, announced |-> Zero, applied |-> InitialApplied,
                failed |-> FALSE]
    /\ UNCHANGED <<core, poisoned, changes, fresh, shown, stamps, chan, ops, opCount,
                   error, told, paused>>

(***************************************************************************)
(* The provider                                                            *)
(***************************************************************************)
ProviderOnly == UNCHANGED <<core, poisoned, changes, shown, startup, stamps, ops,
                            opCount, error, told, paused>>

(* borrow_and_update *)
Look ==
    /\ prov.pc = "look"
    /\ prov' = [prov EXCEPT !.pc = "fetch", !.at = 1, !.announced = core,
                            !.failed = FALSE]
    /\ fresh' = FALSE
    /\ UNCHANGED chan /\ ProviderOnly

Domain == Order[prov.at]

Skip ==
    /\ prov.pc = "fetch" /\ prov.at <= 4
    /\ prov.announced[Domain] = prov.applied[Domain]
    /\ prov' = [prov EXCEPT !.at = prov.at + 1]
    /\ UNCHANGED <<fresh, chan>> /\ ProviderOnly

(* A projection is read and sent. The send waits while the channel is full:*)
(* the projection in hand is then older than Core.                         *)
Fetch ==
    /\ prov.pc = "fetch" /\ prov.at <= 4
    /\ prov.announced[Domain] # prov.applied[Domain]
    /\ prov' = IF poisoned
               THEN [prov EXCEPT !.pc = "send", !.failed = TRUE, !.announced[Domain] = 0]
               ELSE [prov EXCEPT !.pc = "send",
                                 !.applied[Domain] = core[Domain],
                                 !.announced[Domain] = core[Domain]]
    /\ UNCHANGED <<fresh, chan>> /\ ProviderOnly

InHand ==
    IF prov.failed /\ prov.announced[Domain] = 0 THEN Failure
    ELSE [of |-> Domain, rev |-> prov.announced[Domain]]

Send ==
    /\ prov.pc = "send" /\ Len(chan) < Capacity
    /\ chan' = Append(chan, InHand)
    /\ prov' = [prov EXCEPT !.pc = "fetch", !.at = prov.at + 1]
    /\ UNCHANGED fresh /\ ProviderOnly

(* changed(), or the 250 ms retry of a failed round.                       *)
Wake ==
    /\ prov.pc = "fetch" /\ prov.at = 5
    /\ fresh \/ prov.failed
    /\ prov' = [prov EXCEPT !.pc = "look"]
    /\ UNCHANGED <<fresh, chan>> /\ ProviderOnly

(***************************************************************************)
(* The UI executor                                                         *)
(***************************************************************************)
UiOnly == UNCHANGED <<core, poisoned, changes, fresh, startup, stamps, prov, opCount,
                      paused>>

(* Mutant: a projection of an older revision is applied too.               *)
ApplyAny(m) == shown' = [shown EXCEPT ![m.of] = m.rev]

(* apply_*_projection *)
Apply(m) == shown' = IF m.rev < shown[m.of] THEN shown
                     ELSE [shown EXCEPT ![m.of] = m.rev]

(* set_runtime_error, and a notification when it is news.                  *)
Report == error' = "lock" /\ told' = IF error = "lock" THEN told ELSE told + 1

OnMessage ==
    /\ startup = 5 /\ ~paused /\ chan # <<>>
    /\ chan' = Tail(chan)
    /\ LET m == Head(chan) IN
          \/ m.of \in Domains /\ Apply(m) /\ UNCHANGED <<error, told>>
          \/ m = Failure /\ Report /\ UNCHANGED shown
    /\ UNCHANGED ops /\ UiOnly

(* An operation reads a projection, on the UI thread or inside its task;   *)
(* its completion is queued to the UI and applied later.                   *)
OpReads ==
    /\ startup = 5 /\ opCount < MaxOps /\ ~poisoned
    /\ opCount' = opCount + 1
    /\ \E d \in Domains : ops' = ops \union {Proj(d)}
    /\ UNCHANGED <<core, poisoned, changes, fresh, shown, startup, stamps, prov, chan,
                   error, told, paused>>

OpApplies ==
    /\ ~paused
    /\ \E m \in ops : Apply(m) /\ ops' = ops \ {m}
    /\ UNCHANGED <<chan, error, told>> /\ UiOnly

(* The window goes to the background and comes back.                       *)
Pause ==
    /\ paused' = ~paused
    /\ UNCHANGED <<core, poisoned, changes, fresh, shown, startup, stamps, prov, chan,
                   ops, opCount, error, told>>

-----------------------------------------------------------------------------
Init ==
    /\ core = Zero /\ poisoned = FALSE /\ changes = 0 /\ fresh = FALSE
    /\ shown = Zero /\ startup = 0 /\ stamps = [d \in Domains |-> Zero]
    /\ prov = [pc |-> "off", at |-> 1, announced |-> Zero, applied |-> Zero,
               failed |-> FALSE]
    /\ chan = <<>> /\ ops = {} /\ opCount = 0 /\ error = "none" /\ told = 0
    /\ paused = FALSE

Provider == Look \/ Skip \/ Fetch \/ Send \/ Wake
Next == Publish \/ LockPoisoned \/ LoadInitial \/ Mount \/ Provider \/ OnMessage
        \/ OpReads \/ OpApplies \/ Pause

Spec == Init /\ [][Next]_vars

(* The tasks run; a window that is paused now and then runs in between,    *)
(* and handles a message that it could handle again and again.             *)
Fair(n) ==
    \/ n = 1 /\ (LoadInitial \/ Mount \/ Provider)
    \/ n = 2 /\ paused /\ Pause

FairStrongly == OnMessage \/ OpApplies

FairSpec == Spec /\ (\A n \in 1..2 : WF_vars(Fair(n))) /\ SF_vars(FairStrongly)

-----------------------------------------------------------------------------
TypeOK ==
    /\ core \in [Domains -> 0 .. MaxChanges] /\ shown \in [Domains -> 0 .. MaxChanges]
    /\ poisoned \in BOOLEAN /\ changes \in 0 .. MaxChanges /\ fresh \in BOOLEAN
    /\ startup \in 0 .. 5 /\ stamps \in [Domains -> [Domains -> 0 .. MaxChanges]]
    /\ prov \in [pc : {"off", "look", "fetch", "send"}, at : 1 .. 5,
                 announced : [Domains -> 0 .. MaxChanges],
                 applied : [Domains -> 0 .. MaxChanges], failed : BOOLEAN]
    /\ chan \in Seq([of : Domains \union {"error"}, rev : 0 .. MaxChanges])
    /\ Len(chan) <= Capacity
    /\ ops \subseteq [of : Domains, rev : 0 .. MaxChanges] /\ opCount \in 0 .. MaxOps
    /\ error \in {"none", "startup", "lock"} /\ told \in Nat /\ paused \in BOOLEAN

(* What a page shows of a domain never goes back to an older state of Core,*)
(* although the provider and the operations deliver in any order.          *)
ShownGrows == startup = 5 => \A d \in Domains : shown'[d] >= shown[d]

\* That, of every step.
NeverGoesBack == [][ShownGrows]_vars

(* What the provider believes applied is shown, or on its way to the UI:   *)
(* no projection it will not fetch again is ever lost.                     *)
AppliedArrives ==
    startup = 5 =>
        \A d \in Domains :
            \/ shown[d] >= prov.applied[d]
            \/ [of |-> d, rev |-> prov.applied[d]] \in {chan[i] : i \in DOMAIN chan}
            \/ prov.pc = "send" /\ Domain = d

(* Once Core comes to rest, every domain of the UI comes to show it.       *)
ShowsCore == \A d \in Domains : <>[](shown[d] = core[d])

(* A failure that lasts is notified once, however often it is retried.     *)
NotifiedOnce == told <= 1

=============================================================================
