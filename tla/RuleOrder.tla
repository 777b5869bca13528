----------------------------- MODULE RuleOrder -----------------------------
(***************************************************************************)
(* The rules a user adds to a profile (crates/paws_profile/src/lib.rs,     *)
(* rules.rs): documents in a map by id, each with an order number.  Every  *)
(* reader sorts them by that number; every operation has to keep the       *)
(* numbers such that this is the list of module RuleList.                  *)
(*                                                                         *)
(* A rule line is its selector and its target.  The selector is normalised *)
(* (normalize_manual_rule_value): lines that match the same traffic have   *)
(* the same selector.  Selector Other is that of every line a manual rule  *)
(* cannot have, and no two such lines are the same.                        *)
(***************************************************************************)
EXTENDS Naturals, Sequences, FiniteSets, SequencesExt, FiniteSetsExt

CONSTANTS
  RuleIds,    \* natural numbers; BTreeMap order, and ids grow
  Selectors,  \* what a rule matches
  Other,      \* the selector of lines that no manual rule replaces
  Targets     \* proxy groups and DIRECT

ConstantsOK ==
  /\ RuleIds \subseteq Nat
  /\ Other \in Selectors

VARIABLES
  rules,   \* ProfileStore.rules of one profile: a function from some ids
  given    \* ids that have been given out

vars == <<rules, given>>

Rule(sel, target, order) ==
  [sel |-> sel, target |-> target, enabled |-> TRUE, order |-> order]

Init == rules = <<>> /\ given = {}

-----------------------------------------------------------------------------
(* Reading *)

\* sort_by_key on the values of a BTreeMap: stable, so ids break ties
Before(a, b) ==
  \/ rules[a].order < rules[b].order
  \/ rules[a].order = rules[b].order /\ a < b

Rank(r, among) == Cardinality({o \in among : Before(o, r)})

\* rules_for_profile
RulesForProfile ==
  [i \in 1..Cardinality(DOMAIN rules) |->
     CHOOSE r \in DOMAIN rules : Rank(r, DOMAIN rules) = i - 1]

\* enabled_rule_lines: what render_runtime_yaml puts before the subscription's
EnabledRuleLines ==
  SelectSeq(RulesForProfile, LAMBDA r : rules[r].enabled)

NextIds(n) ==
  {s \in [1..n -> RuleIds \ given] :
     /\ \A i \in 1..(n - 1) : s[i] < s[i + 1]
     /\ \A o \in RuleIds \ given : o < s[n] => \E j \in 1..n : s[j] = o}

Orders == {rules[r].order : r \in DOMAIN rules}
WithRules(f, g) == [r \in DOMAIN f \cup DOMAIN g |-> IF r \in DOMAIN f THEN f[r] ELSE g[r]]
WithoutRules(ids) == [r \in DOMAIN rules \ ids |-> rules[r]]

-----------------------------------------------------------------------------
(* Operations *)

\* import_rules_for_profile: behind the greatest order there is
ImportRules(lines) ==
  \E ids \in NextIds(Len(lines)) :
    LET first == (IF Orders = {} THEN 0 ELSE Max(Orders)) + 1
    IN /\ rules' = WithRules([r \in Range(ids) |->
             LET i == CHOOSE i \in DOMAIN ids : ids[i] = r
             IN Rule(lines[i].sel, lines[i].target, first + i - 1)], rules)
       /\ given' = given \cup Range(ids)

\* normalize_manual_rule_spec and manual_rule_selector: rules that match the
\* same traffic as the new one
Matching(sel) == {r \in DOMAIN rules : rules[r].sel = sel}

\* Mutant of StageManualRule: rewritten where it is, and the others kept.
StageManualRuleInPlace(sel, target) ==
  LET matching == Matching(sel)
      first == CHOOSE r \in matching : Rank(r, matching) = 0
  IN
  /\ sel # Other /\ matching # {}
  /\ rules' = [rules EXCEPT ![first] = Rule(sel, target, @.order)]
  /\ UNCHANGED given

\* stage_manual_rule: the first rule with this selector is rewritten, the
\* others are removed; it gets order 0 and the rest 1, 2, ...
StageManualRule(sel, target) ==
  LET matching == Matching(sel)
      first == CHOOSE r \in matching : Rank(r, matching) = 0
      Renumbered(id, rest) ==
        WithRules([r \in {id} |-> Rule(sel, target, 0)],
                  [r \in rest |->
                     [rules[r] EXCEPT !.order = Rank(r, rest) + 1]])
  IN
  /\ sel # Other
  /\ \/ /\ matching # {}
        /\ rules' = Renumbered(first, DOMAIN rules \ matching)
        /\ UNCHANGED given
     \/ /\ matching = {}
        /\ \E ids \in NextIds(1) :
             /\ rules' = Renumbered(ids[1], DOMAIN rules)
             /\ given' = given \cup {ids[1]}

\* set_rule_enabled
SetRuleEnabled(r) ==
  /\ rules' = [rules EXCEPT ![r].enabled = ~@]
  /\ UNCHANGED given

\* reordered_rule_ids of the page: every id of the profile, two swapped
SwapNeighbours(shown, i) == [shown EXCEPT ![i] = shown[i + 1], ![i + 1] = shown[i]]

\* reorder_rules, with what the page sends
ReorderRules(i) ==
  LET ordered == SwapNeighbours(RulesForProfile, i)
  IN /\ rules' = [r \in DOMAIN rules |->
           [rules[r] EXCEPT !.order = (CHOOSE j \in DOMAIN ordered : ordered[j] = r) - 1]]
     /\ UNCHANGED given

\* delete_rule
DeleteRule(r) == rules' = WithoutRules({r}) /\ UNCHANGED given

-----------------------------------------------------------------------------
Lines == [sel : Selectors, target : Targets]

Next ==
  \/ \E a \in Lines : ImportRules(<<a>>) \/ \E b \in Lines : ImportRules(<<a, b>>)
  \/ \E sel \in Selectors, target \in Targets : StageManualRule(sel, target)
  \/ \E r \in DOMAIN rules : SetRuleEnabled(r) \/ DeleteRule(r)
  \/ \E i \in 1..(Cardinality(DOMAIN rules) - 1) : ReorderRules(i)

Spec == Init /\ [][Next]_vars

-----------------------------------------------------------------------------
(* Properties *)

\* The list a reader gets, without the order numbers.
Shown == [i \in DOMAIN RulesForProfile |->
  LET r == rules[RulesForProfile[i]]
  IN [sel |-> r.sel, target |-> r.target, enabled |-> r.enabled]]

Abstract == INSTANCE RuleList WITH list <- Shown

\* Whatever sequence of imports, moves, deletions, toggles and manual rules:
\* sorting by order number yields the user's list.
RulesAreAList == Abstract!Spec

\* The same of one step.
ListStep == Shown' = Shown \/ Abstract!Next

\* Two rules never share an order number: the order of the list does not hang
\* on the spelling of rule ids.
OrdersAreDistinct ==
  \A a, b \in DOMAIN rules : rules[a].order = rules[b].order => a = b
=============================================================================
