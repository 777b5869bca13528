----------------------------- MODULE RuleDialogs -----------------------------
(***************************************************************************)
(* The two dialogs about rules: the lookup, which asks Core which rule a   *)
(* name or an address meets, and the editor of a manual rule.  Their       *)
(* drafts belong to a page (LocalRuleEditors); what they ask of Core runs  *)
(* in a task, and what comes of it is put on the queue of the UI thread.   *)
(*                                                                         *)
(* A dialog covers its page, so nothing else on it can be opened.  The two *)
(* ways to match a name are one.  A profile's rules here are the editable  *)
(* ones, all enabled, before the MATCH it may end in.                      *)
(***************************************************************************)
EXTENDS Naturals, Sequences, FiniteSets

CONSTANTS
    None,       \* no dialog, no profile, no connection
    Names, Ips, \* what can be looked up and matched
    Targets,    \* DIRECT and the proxy groups
    Profiles,
    Catching,   \* the profiles that end in MATCH
    Conns,      \* connections a rule can be made from
    MaxPages,   \* bound on pages
    MaxLookups, \* bound on opened lookups
    MaxTasks,   \* bound on tasks
    MaxChanges  \* bound on other changes of rules and profiles

ConstantsOK ==
    /\ {MaxPages, MaxLookups, MaxTasks, MaxChanges} \subseteq Nat
    /\ MaxPages > 0 /\ Catching \subseteq Profiles
    /\ "DIRECT" \in Targets /\ {"", "bad", "any"} \cap (Names \cup Ips) = {}

VARIABLES
    page,    \* the page that is shown; the ones before are disposed of
    drafts,  \* RuleEditorDrafts of every page: its lookup and its editor
    query,   \* query_task of the page
    tasks,   \* the tasks whose outcome was not yet delivered
    ids,     \* how many lookups were opened and tasks spawned
    shown,   \* the active profile as the stores have it
    active,  \* the active profile
    rules,   \* the editable rules of every profile
    tunnel,  \* the compiled rules
    listed,  \* runtime_rules
    lock,    \* config_reload_lock: the task that holds it
    open,    \* the connections that are open
    changes  \* other changes left

ui == <<page, drafts, query, shown>>
core == <<active, rules, tunnel, listed, lock, open>>
vars == <<ui, tasks, ids, core, changes>>

MatchRule == [kind |-> "match", value |-> "any", to |-> "DIRECT"]
Rules == [kind : {"name", "ip"}, value : Names \cup Ips, to : Targets]

\* runtime_rule_summaries and the compiled rules of a profile
Loaded(p, own) == own \o (IF p \in Catching THEN <<MatchRule>> ELSE <<>>)

Lookup == drafts[page].lookup
Manual == drafts[page].manual

Of(kind, p) == {t \in tasks : t.kind = kind /\ t.page = p}

Results == {[ok |-> FALSE]} \cup
           [ok : {TRUE}, query : Names \cup Ips, rule : Rules \cup {MatchRule, None},
            line : Rules \cup {MatchRule, None}]

TypeOK ==
    /\ page \in 1..MaxPages /\ ids.lookups \in 0..MaxLookups /\ ids.tasks \in 0..MaxTasks
    /\ \A p \in 1..MaxPages :
         /\ drafts[p].lookup # None =>
              /\ drafts[p].lookup.id \in 1..ids.lookups
              /\ drafts[p].lookup.query \in Names \cup Ips \cup {"", "bad"}
              /\ drafts[p].lookup.result \in Results \cup {None}
         /\ drafts[p].manual # None => drafts[p].manual.conn \in Conns \cup {None}
         /\ drafts[p].lookup = None \/ drafts[p].manual = None
         /\ Cardinality({t \in Of("lookup", p) : ~t.aborted}) <= 1
    /\ shown \in Profiles \cup {None} /\ active \in Profiles \cup {None}
    /\ \A p \in Profiles : rules[p] \in Seq(Rules)
    /\ open \subseteq Conns /\ changes \in 0..MaxChanges

Init ==
    /\ page = 1 /\ query = None /\ tasks = {} /\ open = Conns /\ lock = None
    /\ drafts = [p \in 1..MaxPages |-> [lookup |-> None, manual |-> None]]
    /\ ids = [lookups |-> 0, tasks |-> 0] /\ changes = MaxChanges
    /\ \E p \in Profiles : active = p /\ shown = p
    /\ rules = [p \in Profiles |-> <<>>]
    /\ tunnel = None /\ listed = <<>>

Spawn(others, t) ==
    /\ ids.tasks < MaxTasks
    /\ ids' = [ids EXCEPT !.tasks = @ + 1]
    /\ tasks' = others \cup {[n |-> ids.tasks + 1, page |-> page, aborted |-> t.aborted,
                              kind |-> t.kind, id |-> t.id, at |-> "begin",
                              does |-> t.does, seen |-> None, result |-> None]}

Becomes(t, u) == tasks' = (tasks \ {t}) \cup {u}
Ends(t, result) == Becomes(t, [t EXCEPT !.at = "ended", !.seen = None, !.result = result])
Failed == [ok |-> FALSE]

-----------------------------------------------------------------------------
(* The lookup dialog.                                                      *)

\* LocalRuleEditors::cancel_query: the task ends at its next await, unless
\* it does not come to one any more.
Aborted == {[t EXCEPT !.aborted = @ \/ t.n = query] : t \in tasks}

CancelQuery == query' = None /\ tasks' = Aborted

NoDialog == Lookup = None /\ Manual = None

\* open_rule_lookup
OpenLookup ==
    /\ NoDialog /\ ids.lookups < MaxLookups
    /\ CancelQuery
    /\ ids' = [ids EXCEPT !.lookups = @ + 1]
    /\ drafts' = [drafts EXCEPT ![page].lookup =
         [id |-> ids.lookups + 1, query |-> "", submitting |-> FALSE,
          result |-> None, error |-> FALSE]]
    /\ UNCHANGED <<page, shown, core, changes>>

\* close_rule_lookup
CloseLookup ==
    /\ Lookup # None
    /\ CancelQuery
    /\ drafts' = [drafts EXCEPT ![page].lookup = None]
    /\ UNCHANGED <<page, ids, shown, core, changes>>

\* set_rule_lookup_query
TypeQuery(q) ==
    /\ Lookup # None /\ ~Lookup.submitting /\ Lookup.query # q
    /\ drafts' = [drafts EXCEPT ![page].lookup.query = q, ![page].lookup.result = None,
                                ![page].lookup.error = FALSE]
    /\ UNCHANGED <<page, query, tasks, ids, shown, core, changes>>

\* lookup_rule of the UI
LookupRefused ==
    /\ Lookup # None /\ ~Lookup.submitting /\ ~Lookup.error
    /\ shown = None \/ Lookup.query = ""
    /\ drafts' = [drafts EXCEPT ![page].lookup.error = TRUE]
    /\ UNCHANGED <<page, query, tasks, ids, shown, core, changes>>

LookupRule ==
    /\ Lookup # None /\ ~Lookup.submitting
    /\ shown # None /\ Lookup.query # ""
    /\ drafts' = [drafts EXCEPT ![page].lookup.submitting = TRUE,
                    ![page].lookup.result = None, ![page].lookup.error = FALSE]
    /\ Spawn(Aborted, [kind |-> "lookup", id |-> Lookup.id, does |-> [query |-> Lookup.query],
                       aborted |-> FALSE])
    /\ query' = ids.tasks + 1
    /\ UNCHANGED <<page, shown, core, changes>>

\* Mutant: whichever lookup is open takes the result.
ForAnyLookup(t) == t.page = page /\ Lookup # None

\* The lookup the result is for is still open, and its page is alive.
ForThisLookup(t) == t.page = page /\ Lookup # None /\ Lookup.id = t.id

OnLookup(t) ==
    /\ t.kind = "lookup" /\ t.at = "ended"
    /\ tasks' = tasks \ {t}
    /\ IF ForThisLookup(t)
       THEN /\ query' = None
            /\ drafts' = [drafts EXCEPT ![page].lookup.submitting = FALSE,
                 ![page].lookup.result = IF t.result.ok THEN t.result ELSE None,
                 ![page].lookup.error = ~t.result.ok]
       ELSE UNCHANGED <<query, drafts>>
    /\ UNCHANGED <<page, ids, shown, core, changes>>

\* The task was aborted: nothing is queued.
Cancelled(t) ==
    /\ t.kind = "lookup" /\ t.aborted /\ t.at # "ended"
    /\ tasks' = tasks \ {t}
    /\ lock' = IF lock = t.n THEN None ELSE lock
    /\ UNCHANGED <<ui, ids, active, rules, tunnel, listed, open, changes>>

-----------------------------------------------------------------------------
(* The editor.                                                             *)

\* open_manual_rule_editor: a name first, an address without one
Editor(conn, name, ip) ==
    [conn |-> conn, domain |-> name, ip |-> ip,
     kind |-> IF name = "" /\ ip # "" THEN "ip" ELSE "name",
     value |-> IF name # "" THEN name ELSE ip,
     target |-> "DIRECT", cut |-> FALSE, submitting |-> FALSE, error |-> FALSE]

OpenManual(conn, name, ip) ==
    /\ NoDialog
    /\ drafts' = [drafts EXCEPT ![page].manual = Editor(conn, name, ip)]
    /\ UNCHANGED <<page, query, tasks, ids, shown, core, changes>>

\* add_rule_from_lookup
AddFromLookup ==
    /\ Lookup # None /\ Lookup.result # None
    /\ CancelQuery
    /\ LET q == Lookup.result.query IN
       drafts' = [drafts EXCEPT ![page] =
         [lookup |-> None, manual |-> IF q \in Names THEN Editor(None, q, "")
                                      ELSE Editor(None, "", q)]]
    /\ UNCHANGED <<page, ids, shown, core, changes>>

\* close_manual_rule_editor
CloseManual ==
    /\ Manual # None /\ ~Manual.submitting
    /\ drafts' = [drafts EXCEPT ![page].manual = None]
    /\ UNCHANGED <<page, query, tasks, ids, shown, core, changes>>

Edit(editor) ==
    /\ Manual # None /\ ~Manual.submitting /\ editor # Manual
    /\ drafts' = [drafts EXCEPT ![page].manual = editor]
    /\ UNCHANGED <<page, query, tasks, ids, shown, core, changes>>

\* set_manual_rule_match_kind
SetKind(kind) ==
    Manual # None /\ Edit([Manual EXCEPT !.kind = kind, !.error = FALSE,
        !.value = IF kind = "name" THEN Manual.domain ELSE Manual.ip])

\* set_manual_rule_value
SetValue(value) == Manual # None /\ Edit([Manual EXCEPT !.value = value, !.error = FALSE])

\* set_manual_rule_target
SetTarget(to) == Manual # None /\ Edit([Manual EXCEPT !.target = to, !.error = FALSE])

\* set_manual_rule_disconnect: only with a connection there is a switch.
SetCut == Manual # None /\ Manual.conn # None /\ Edit([Manual EXCEPT !.cut = ~@])

RuleOf(editor) == [kind |-> editor.kind, value |-> editor.value, to |-> editor.target]

\* save_manual_rule without a profile; the button is disabled without a value
SaveRefused ==
    /\ Manual # None /\ ~Manual.submitting /\ ~Manual.error
    /\ shown = None
    /\ drafts' = [drafts EXCEPT ![page].manual.error = TRUE]
    /\ UNCHANGED <<page, query, tasks, ids, shown, core, changes>>

SaveManual ==
    /\ Manual # None /\ ~Manual.submitting /\ Manual.value # ""
    /\ shown # None
    /\ drafts' = [drafts EXCEPT ![page].manual.submitting = TRUE,
                                ![page].manual.error = FALSE]
    /\ Spawn(tasks, [kind |-> "save", id |-> None, aborted |-> FALSE,
              does |-> [profile |-> shown, rule |-> RuleOf(Manual),
                        conn |-> IF Manual.cut THEN Manual.conn ELSE None]])
    /\ UNCHANGED <<page, query, shown, core, changes>>

\* The save is done: with its page goes what it has to say, the stores are
\* not refreshed either.
OnSaved(t) ==
    /\ t.kind = "save" /\ t.at = "ended"
    /\ tasks' = tasks \ {t}
    /\ CASE t.page # page -> UNCHANGED <<drafts, shown>>
         [] t.page = page /\ t.result.ok ->
              drafts' = [drafts EXCEPT ![page].manual = None] /\ shown' = active
         [] t.page = page /\ ~t.result.ok ->
              /\ drafts' = [drafts EXCEPT ![page].manual =
                   IF @ = None THEN None ELSE [@ EXCEPT !.submitting = FALSE, !.error = TRUE]]
              /\ UNCHANGED shown
    /\ UNCHANGED <<page, query, ids, core, changes>>

\* The route is left: LocalRuleEditors::dispose; another page comes.
LeavePage ==
    /\ page < MaxPages
    /\ page' = page + 1
    /\ CancelQuery
    /\ UNCHANGED <<drafts, ids, shown, core, changes>>

-----------------------------------------------------------------------------
(* CoreHandle::lookup_rule.                                                *)

\* rule_lookup_metadata, then prepare_active_vpn
LookupPrepares(t) ==
    /\ t.kind = "lookup" /\ t.at = "begin"
    /\ \/ /\ t.does.query = "bad" \/ (tunnel = None /\ active = None)
          /\ Ends(t, Failed)
          /\ UNCHANGED <<tunnel, listed>>
       \/ /\ t.does.query # "bad" /\ tunnel # None
          /\ Becomes(t, [t EXCEPT !.at = "matching"])
          /\ UNCHANGED <<tunnel, listed>>
       \/ /\ t.does.query # "bad" /\ tunnel = None /\ active # None /\ lock = None
          /\ \/ /\ tunnel' = Loaded(active, rules[active]) /\ listed' = tunnel'
                /\ Becomes(t, [t EXCEPT !.at = "matching"])
             \/ UNCHANGED <<tunnel, listed>> /\ Ends(t, Failed)
    /\ UNCHANGED <<ui, ids, active, rules, lock, open, changes>>

\* The rules that match, an address known or not.
Meets(r, q, ip) == \/ r.kind = "match"
                   \/ r.kind = "name" /\ r.value = q
                   \/ r.kind = "ip" /\ r.value \in {ip, q}

FirstIndex(rs, P(_)) ==
    LET hits == {i \in DOMAIN rs : P(rs[i])}
    IN IF hits = {} THEN 0 ELSE CHOOSE i \in hits : \A j \in hits : i <= j

\* match_rules_lazy: a rule about addresses needs the address of a name.
NeedsIp(rs, q) ==
    q \in Names /\ LET ip == FirstIndex(rs, LAMBDA r : r.kind = "ip")
                       hit == FirstIndex(rs, LAMBDA r : Meets(r, q, None))
                   IN ip # 0 /\ (hit = 0 \/ ip < hit)

Matched(t, rs, ip) ==
    LET i == FirstIndex(rs, LAMBDA r : Meets(r, t.does.query, ip)) IN
    IF i = 0 THEN Ends(t, [ok |-> TRUE, query |-> t.does.query, rule |-> None, line |-> None])
    ELSE Becomes(t, [t EXCEPT !.at = "reading", !.seen = [index |-> i, rule |-> rs[i]]])

LookupMatches(t) ==
    /\ t.kind = "lookup" /\ t.at = "matching"
    /\ CASE tunnel = None -> Ends(t, Failed)
         [] tunnel # None /\ NeedsIp(tunnel, t.does.query) ->
              Becomes(t, [t EXCEPT !.at = "resolving", !.seen = [list |-> tunnel]])
         [] tunnel # None /\ ~NeedsIp(tunnel, t.does.query) -> Matched(t, tunnel, None)
    /\ UNCHANGED <<ui, ids, core, changes>>

\* resolve_ip_real: an address, or none
LookupResolves(t) ==
    /\ t.kind = "lookup" /\ t.at = "resolving"
    /\ \E ip \in Ips \cup {None} : Matched(t, t.seen.list, ip)
    /\ UNCHANGED <<ui, ids, core, changes>>

\* The line is what runtime_rules has at the index of the rule by now.
LookupReads(t) ==
    /\ t.kind = "lookup" /\ t.at = "reading"
    /\ Ends(t, [ok |-> TRUE, query |-> t.does.query, rule |-> t.seen.rule,
                line |-> IF t.seen.index \in DOMAIN listed THEN listed[t.seen.index]
                         ELSE t.seen.rule])
    /\ UNCHANGED <<ui, ids, core, changes>>

-----------------------------------------------------------------------------
(* apply_manual_rule.                                                      *)

\* stage_manual_rule: the rule comes first, in place of the one that matches
\* the same.
Staged(own, rule) ==
    <<rule>> \o SelectSeq(own, LAMBDA r : <<r.kind, r.value>> # <<rule.kind, rule.value>>)

Valid(rule) == \/ rule.kind = "name" /\ rule.value \in Names
               \/ rule.kind = "ip" /\ rule.value \in Ips

\* Under config_reload_lock the rule is staged, if the profile is active.
SaveStages(t) ==
    /\ t.kind = "save" /\ t.at = "begin" /\ lock = None
    /\ \/ /\ active = t.does.profile /\ Valid(t.does.rule)
          /\ lock' = t.n
          /\ Becomes(t, [t EXCEPT !.at = "staged",
                           !.seen = [list |-> Staged(rules[active], t.does.rule)]])
       \/ /\ active # t.does.profile \/ ~Valid(t.does.rule)
          /\ lock' = lock /\ Ends(t, Failed)
    /\ UNCHANGED <<ui, ids, active, rules, tunnel, listed, open, changes>>

\* It loads and is written, and the rules of the tunnel are replaced; or the
\* target is no group any more or a write fails, and nothing changes.
SaveCommits(t) ==
    /\ t.kind = "save" /\ t.at = "staged"
    /\ lock' = None
    /\ \/ /\ LET loaded == Loaded(t.does.profile, t.seen.list) IN
             /\ tunnel' = IF tunnel = None THEN None ELSE loaded
             /\ listed' = loaded
          /\ rules' = [rules EXCEPT ![t.does.profile] = t.seen.list]
          /\ IF t.does.conn = None THEN Ends(t, [ok |-> TRUE])
             ELSE Becomes(t, [t EXCEPT !.at = "closing", !.seen = None])
       \/ Ends(t, Failed) /\ UNCHANGED <<tunnel, listed, rules>>
    /\ UNCHANGED <<ui, ids, active, open, changes>>

\* The connection is closed; when that fails, the rule is saved all the same.
SaveCloses(t) ==
    /\ t.kind = "save" /\ t.at = "closing"
    /\ open' \in {open, open \ {t.does.conn}}
    /\ Ends(t, [ok |-> TRUE])
    /\ UNCHANGED <<ui, ids, active, rules, tunnel, listed, lock, changes>>

-----------------------------------------------------------------------------
(* What else happens.                                                      *)

Change ==
    changes > 0 /\ changes' = changes - 1 /\ lock = None

\* delete_rule through run_rule_change: the profile is reloaded.
DeleteRule(i) ==
    /\ Change
    /\ active # None /\ i \in DOMAIN rules[active]
    /\ LET own == SubSeq(rules[active], 1, i - 1) \o
                  SubSeq(rules[active], i + 1, Len(rules[active]))
       IN /\ rules' = [rules EXCEPT ![active] = own]
          /\ tunnel' = Loaded(active, own) /\ listed' = tunnel'
    /\ UNCHANGED <<ui, tasks, ids, active, lock, open>>

\* Another profile is activated, or the active one is deleted.
SwitchProfile(p) ==
    /\ Change
    /\ p # active
    /\ active' = p
    /\ IF p = None THEN tunnel' = None /\ listed' = <<>>
       ELSE tunnel' = Loaded(p, rules[p]) /\ listed' = tunnel'
    /\ UNCHANGED <<ui, tasks, ids, rules, lock, open>>

\* The provider applies a configuration projection.
Refresh ==
    /\ shown # active
    /\ shown' = active
    /\ UNCHANGED <<page, drafts, query, tasks, ids, core, changes>>

Dialogs ==
    \/ OpenLookup \/ CloseLookup \/ LookupRefused \/ LookupRule \/ AddFromLookup
    \/ \E q \in Names \cup Ips \cup {"", "bad"} : TypeQuery(q)
    \/ OpenManual(None, "", "")
    \/ \E c \in Conns, name \in Names \cup {""}, ip \in Ips : OpenManual(c, name, ip)
    \/ CloseManual \/ SetCut \/ SaveRefused \/ SaveManual
    \/ \E kind \in {"name", "ip"} : SetKind(kind)
    \/ \E value \in Names \cup Ips \cup {""} : SetValue(value)
    \/ \E to \in Targets : SetTarget(to)
    \/ LeavePage

TaskStep(t) ==
    \/ OnLookup(t) \/ Cancelled(t) \/ OnSaved(t)
    \/ LookupPrepares(t) \/ LookupMatches(t) \/ LookupResolves(t) \/ LookupReads(t)
    \/ SaveStages(t) \/ SaveCommits(t) \/ SaveCloses(t)

Next ==
    \/ Dialogs
    \/ \E t \in tasks : TaskStep(t)
    \/ \E i \in 1..MaxTasks : DeleteRule(i)
    \/ \E p \in Profiles \cup {None} : SwitchProfile(p)
    \/ Refresh

Spec == Init /\ [][Next]_vars

\* Tasks and the queue of the UI run.  Nobody has to touch a dialog.
Fair(n) == n = 1 /\ \E t \in tasks : TaskStep(t)

FairSpec == Spec /\ WF_vars(Fair(1))

-----------------------------------------------------------------------------

\* A result is shown under the query it is for, however late it comes: after
\* the dialog was closed and opened again it is not (lookup_rule's filter).
ResultIsForQuery ==
    \A p \in 1..MaxPages :
        LET l == drafts[p].lookup IN
        l # None /\ l.result # None => l.result.query = l.query

\* What an editor shows while it saves is what is being saved, and what is
\* being saved has its editor: no outcome is taken for that of another rule.
EditorIsSaved ==
    LET saves == Of("save", page) IN
    /\ Cardinality(saves) <= 1
    /\ (saves # {}) = (Manual # None /\ Manual.submitting)
    /\ \A t \in saves : /\ t.does.rule = RuleOf(Manual)
                        /\ t.does.conn = IF Manual.cut THEN Manual.conn ELSE None

\* The rules of the tunnel, and the ones listed, are those of the active
\* profile, whatever profile the UI took for the active one.
LiveIsActive ==
    tunnel # None => /\ tunnel = Loaded(active, rules[active])
                     /\ listed = tunnel

\* Nothing writes to the drafts of a page that was left: "prevents durable
\* mutation callbacks from writing into a dead Signal" (view.rs).
LeftDraftsStay == \A p \in 1..(page - 1) : drafts'[p] = drafts[p]

\* That, of every step.
DeadStaysUntouched == [][LeftDraftsStay]_vars

\* A lookup or a save that was begun ends, or its page is left.
BusyEnds ==
    /\ \A i \in 1..MaxLookups :
         []<>~(Lookup # None /\ Lookup.id = i /\ Lookup.submitting)
    /\ \A p \in 1..MaxPages :
         []<>~(page = p /\ drafts[p].manual # None /\ drafts[p].manual.submitting)

\* The line that is shown is the rule that matched.
\* It does not hold: see the observations in the README.
LineIsRule ==
    \A p \in 1..MaxPages :
        LET l == drafts[p].lookup IN
        l # None /\ l.result # None => l.result.line = l.result.rule

=============================================================================
