---------------------------- MODULE EnginePolicy -----------------------------
(***************************************************************************)
(* Which engine a VPN session runs on, and what its startup check leaves   *)
(* behind.  The process of the VPN decides for an engine from the active   *)
(* profile, the node, the release gates that were passed and the last      *)
(* checks; it starts the engine and then writes engine-session.json.  The  *)
(* UI finds the session in that file, probes it, records the result in     *)
(* engine-health.json, writes its report, and rolls a candidate that       *)
(* failed back.  None of the files is written under a lock that both       *)
(* processes hold.                                                         *)
(*                                                                         *)
(* Both processes have the same active profile.  The newest check of an    *)
(* engine and a profile is kept; the limits of 64 checks and 12 gates are  *)
(* not reached.                                                            *)
(***************************************************************************)
EXTENDS Naturals

CONSTANTS
    None,
    Profiles, Nodes,
    NoSingBox,   \* the profiles with compatibility_issues for sing-box,
    NoMeow,      \* and for meow
    Plugins,     \* the profiles that profile_requires_mihomo holds back
    Cooldown,    \* ticks for which a failure fences an engine
    MaxSessions, \* bound on sessions
    MaxTime,     \* bound on ticks
    MaxEdits     \* bound on changes of the profile, the node and the gates

Candidates == {"sing-box", "meow"}
Engines == Candidates \cup {"mihomo"}
Requests == Engines \cup {"auto"}
Sessions == 1..MaxSessions

ConstantsOK ==
    /\ {MaxSessions, MaxTime, MaxEdits, Cooldown} \subseteq Nat
    /\ NoMeow \cup NoSingBox \cup Plugins \subseteq Profiles
    /\ None \notin Profiles \cup Nodes

VARIABLES
    active, node,  \* the active profile, the node selected in it
    gates,         \* qualifications: the node for which an engine passed
    checks,        \* records: the newest check of an engine and a profile
    now,
    vpn,           \* the session of the VPN, or None
    shown,         \* platform_vpn_engine
    persists,      \* calls of persist_engine_session before their write
    evidence,      \* engine-session.json
    probes,        \* the startup check of each session
    report,        \* engine-startup-health.json
    again,         \* the restart that a rollback owes
    issued, edits  \* sessions issued, changes made

files == <<gates, checks, evidence, report>>
vars == <<active, node, now, vpn, shown, persists, probes, again, issued, edits, files>>

NoProbe == [at |-> "none", engine |-> None, ok |-> FALSE, under |-> None,
            recorded |-> None]

Init ==
    /\ active \in Profiles /\ node \in Nodes
    /\ gates = [x \in Candidates \X Profiles |-> None]
    /\ checks = [x \in Engines \X Profiles |-> None]
    /\ now = 0 /\ issued = 0 /\ edits = 0
    /\ vpn = None /\ shown = None /\ persists = {} /\ again = None
    /\ evidence = None /\ report = None
    /\ probes = [s \in Sessions |-> NoProbe]

-----------------------------------------------------------------------------
(* engine_decision.                                                        *)

Qualified(e) == gates[e, active] = node

\* Mutant: the age of a failure is not looked at the right way round.
CoolingLater(e) ==
    /\ checks[e, active] # None
    /\ ~checks[e, active].ok /\ now - checks[e, active].time >= Cooldown

Cooling(e) ==
    /\ checks[e, active] # None
    /\ ~checks[e, active].ok /\ now - checks[e, active].time < Cooldown

Issues(e) == active \in (IF e = "meow" THEN NoMeow ELSE NoSingBox)

Fit(e, request) ==
    /\ ~Issues(e)
    /\ ~Cooling(e)
    /\ Qualified(e) \/ (request # "auto" /\ active \notin Plugins)

Decision(request) ==
    CASE request = "auto" /\ Fit("sing-box", request) -> "sing-box"
      [] request = "auto" /\ ~Fit("sing-box", request) /\ Fit("meow", request) -> "meow"
      [] request \in Candidates /\ Fit(request, request) -> request
      [] OTHER -> "mihomo"

-----------------------------------------------------------------------------
(* The start of a session, in the process of the VPN.                      *)

Begin(request, rollback) ==
    /\ vpn = None /\ issued < MaxSessions
    /\ issued' = issued + 1
    /\ vpn' = [sid |-> issued', request |-> request, engine |-> Decision(request),
               at |-> "prepare", rollback |-> rollback,
               decided |-> [profile |-> active, time |-> now]]
    /\ again' = None
    /\ UNCHANGED <<active, node, now, shown, persists, probes, edits, files>>

Start(request) == Begin(request, None)
Restart == again # None /\ Begin(again.request, again)

\* Mutant: the engine of a session that is over stays published.
FailsShown == vpn' = None /\ UNCHANGED shown

Fails == vpn' = None /\ shown' = None
Runs(engine) == vpn' = [vpn EXCEPT !.at = "running"] /\ shown' = engine

\* prepare_mihomo_vpn and its counterpart decide once more.
Prepare ==
    /\ vpn # None /\ vpn.at = "prepare"
    /\ IF vpn.engine # "meow" /\ Decision(vpn.request) # vpn.engine
       THEN Fails
       ELSE vpn' = [vpn EXCEPT !.at = "start"] /\ UNCHANGED shown
    /\ UNCHANGED <<active, node, now, persists, probes, again, issued, edits, files>>

\* start_vpn, or the engine and then start_external_platform_vpn, which
\* publishes the engine that it decides for itself.
StartEngine ==
    /\ vpn # None /\ vpn.at = "start"
    /\ IF vpn.engine = "meow" THEN Runs("meow")
       ELSE LET engine == Decision(vpn.request) IN
            IF engine = "meow" THEN Fails ELSE Runs(engine)
    /\ UNCHANGED <<active, node, now, persists, probes, again, issued, edits, files>>

\* persist_engine_session, up to the request for the version ...
Persist ==
    /\ vpn # None /\ vpn.at = "running"
    /\ IF shown # vpn.engine THEN Fails /\ UNCHANGED persists
       ELSE /\ vpn' = [vpn EXCEPT !.at = "persisting"]
            /\ persists' = persists \cup {[sid |-> vpn.sid, engine |-> vpn.engine]}
            /\ UNCHANGED shown
    /\ UNCHANGED <<active, node, now, probes, again, issued, edits, files>>

\* ... and after it, whatever has become of the session.
PersistWrites ==
    \E p \in persists :
        /\ evidence' = p /\ persists' = persists \ {p}
        /\ vpn' = IF vpn # None /\ vpn.sid = p.sid THEN [vpn EXCEPT !.at = "connected"]
                  ELSE vpn
        /\ UNCHANGED <<active, node, now, shown, probes, again, issued, edits, gates,
                       checks, report>>

\* The user stops the VPN, or it ends.
Stop ==
    /\ vpn # None \/ again # None
    /\ Fails
    /\ again' = None
    /\ UNCHANGED <<active, node, now, persists, probes, issued, edits, files>>

-----------------------------------------------------------------------------
(* monitorStartupHealth and validate_engine_startup, in the UI.            *)

Up == vpn # None /\ vpn.at \in {"running", "persisting", "connected"}
To(s, probe) == probes' = [probes EXCEPT ![s] = probe]
EndProbe(s) == To(s, [probes[s] EXCEPT !.at = "ended"])

ProbeBegins(s) ==
    /\ Up /\ vpn.sid = s /\ probes[s].at = "none"
    /\ To(s, [probes[s] EXCEPT !.at = "wait"])
    /\ UNCHANGED <<active, node, now, vpn, shown, persists, again, issued, edits, files>>

\* The evidence of the session is waited for, two seconds long.
ProbeReads(s) ==
    /\ probes[s].at = "wait"
    /\ \/ EndProbe(s)
       \/ /\ evidence # None /\ evidence.sid = s
          /\ To(s, [probes[s] EXCEPT !.at = "probe", !.engine = evidence.engine])
    /\ UNCHANGED <<active, node, now, vpn, shown, persists, again, issued, edits, files>>

\* The request through the engine ends; the probe of the node may take longer.
ProbeAnswers(s) ==
    /\ probes[s].at = "probe"
    /\ \E ok \in BOOLEAN :
           To(s, [probes[s] EXCEPT !.at = "answered", !.ok = ok, !.under = active])
    /\ UNCHANGED <<active, node, now, vpn, shown, persists, again, issued, edits, files>>

\* record_engine_health: refused when the evidence is of another session.
ProbeRecords(s) ==
    /\ probes[s].at = "answered"
    /\ IF evidence.sid # s THEN EndProbe(s) /\ UNCHANGED checks
       ELSE /\ checks' = [checks EXCEPT ![<<evidence.engine, active>>] =
                              [time |-> now, ok |-> probes[s].ok]]
            /\ To(s, [probes[s] EXCEPT !.at = "recorded",
                                       !.recorded = [profile |-> active, time |-> now]])
    /\ UNCHANGED <<active, node, now, vpn, shown, persists, again, issued, edits, gates,
                   evidence, report>>

ProbeReports(s) ==
    /\ probes[s].at = "recorded"
    /\ report' = [sid |-> s, engine |-> probes[s].engine, ok |-> probes[s].ok]
    /\ To(s, [probes[s] EXCEPT !.at = "reported"])
    /\ UNCHANGED <<active, node, now, vpn, shown, persists, again, issued, edits, gates,
                   checks, evidence>>

\* A candidate that failed is stopped, and the VPN is to be started again.
Rollback(s) ==
    /\ probes[s].at = "reported"
    /\ EndProbe(s)
    /\ IF Up /\ vpn.sid = s /\ ~probes[s].ok /\ probes[s].engine # "mihomo"
       THEN /\ Fails
            /\ again' = [request |-> vpn.request, engine |-> probes[s].engine,
                         recorded |-> probes[s].recorded]
       ELSE UNCHANGED <<vpn, shown, again>>
    /\ UNCHANGED <<active, node, now, persists, issued, edits, files>>

\* StartupHealth::read_current: what the indicators show.
Shown ==
    IF Up /\ report # None /\ report.sid = vpn.sid /\ report.engine = shown
    THEN report ELSE None

-----------------------------------------------------------------------------

Edited == edits < MaxEdits /\ edits' = edits + 1

SwitchProfile ==
    /\ Edited
    /\ active' \in Profiles \ {active}
    /\ UNCHANGED <<node, now, vpn, shown, persists, probes, again, issued, files>>

SelectNode ==
    /\ Edited
    /\ node' \in Nodes \ {node}
    /\ UNCHANGED <<active, now, vpn, shown, persists, probes, again, issued, files>>

\* record_engine_qualification
Qualify(e) ==
    /\ Edited
    /\ gates' = [gates EXCEPT ![<<e, active>>] = node]
    /\ UNCHANGED <<active, node, now, vpn, shown, persists, probes, again, issued,
                   checks, evidence, report>>

Tick ==
    /\ now < MaxTime
    /\ now' = now + 1
    /\ UNCHANGED <<active, node, vpn, shown, persists, probes, again, issued, edits, files>>

Next ==
    \/ \E request \in Requests : Start(request)
    \/ Restart \/ Prepare \/ StartEngine \/ Persist \/ PersistWrites \/ Stop
    \/ \E s \in Sessions :
           \/ ProbeBegins(s) \/ ProbeReads(s) \/ ProbeAnswers(s)
           \/ ProbeRecords(s) \/ ProbeReports(s) \/ Rollback(s)
    \/ SwitchProfile \/ SelectNode \/ Tick
    \/ \E e \in Candidates : Qualify(e)

Spec == Init /\ [][Next]_vars

-----------------------------------------------------------------------------

TypeOK ==
    /\ active \in Profiles /\ node \in Nodes /\ issued \in 0..MaxSessions
    /\ gates \in [Candidates \X Profiles -> Nodes \cup {None}]
    /\ checks \in [Engines \X Profiles ->
                       {None} \cup [time : 0..now, ok : BOOLEAN]]
    /\ vpn # None => /\ vpn.sid \in 1..issued /\ vpn.engine \in Engines
                     /\ Up = (shown # None)
    /\ vpn = None => shown = None
    /\ \A p \in persists : p.sid \in 1..issued /\ p.engine \in Engines
    /\ \A s \in Sessions : probes[s].at \in {"recorded", "reported"} =>
                               probes[s].engine \in Engines /\ evidence # None

\* "A cached result from another session or engine must never turn the
\* current connection's indicators green" (StartupHealth): a green one is the
\* answer that the probe of this session got from the engine that runs.
GreenIsCurrent ==
    Shown # None /\ Shown.ok =>
        /\ probes[vpn.sid].ok /\ probes[vpn.sid].at \in {"reported", "ended"}
        /\ probes[vpn.sid].engine = vpn.engine

\* A session that is up and has its evidence shows the engine it runs on,
\* however the decision changes while it starts.
ConnectedIsActual ==
    vpn # None /\ vpn.at = "connected" => shown = vpn.engine

\* "The recorded failure fences this candidate for five minutes"
\* (monitorStartupHealth): a session that a rollback starts under the profile
\* of the failure is not on the engine that failed. It is checked for two
\* sessions: of three, the evidence of an earlier one, written late, lets its
\* probe record a success over that failure (engine_policy.rs:642).
RollbackLeavesCandidate ==
    vpn # None /\ vpn.rollback # None =>
        LET failure == vpn.rollback.recorded IN
        \/ vpn.engine # vpn.rollback.engine
        \/ vpn.decided.profile # failure.profile
        \/ vpn.decided.time - failure.time >= Cooldown

\* "profile-scoped health records" (engine_policy.rs): a check is recorded
\* for the profile under which the engine answered.
\* It does not hold: see the observations in the README.
CheckIsProfiles ==
    \A s \in Sessions :
        probes[s].recorded # None => probes[s].recorded.profile = probes[s].under

=============================================================================
