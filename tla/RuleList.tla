------------------------------ MODULE RuleList ------------------------------
(***************************************************************************)
(* What the user sees of a profile's own rules: a list.  Imported rules go *)
(* to its end, a rule made from an activity goes to its front and replaces *)
(* every rule with the same selector, and rules move by one place.         *)
(***************************************************************************)
EXTENDS Naturals, Sequences

CONSTANTS Selectors, Targets

VARIABLE list   \* a sequence of [sel, target, enabled]

Lines == [sel : Selectors, target : Targets, enabled : {TRUE}]

Init == list = <<>>

\* The operations, each as a relation between the list before and after it.
Imported(old, new) == \E a, b \in Lines : new \in {old \o <<a>>, old \o <<a, b>>}

\* stage_manual_rule: "replaced instead of stacked, and ... kept first"
PutFirst(old, new) ==
  \E a \in Lines : new = <<a>> \o SelectSeq(old, LAMBDA r : r.sel # a.sel)

Toggled(old, new) ==
  \E i \in DOMAIN old : new = [old EXCEPT ![i].enabled = ~@]

Swapped(old, new) ==
  \E i \in 1..(Len(old) - 1) :
    new = [old EXCEPT ![i] = old[i + 1], ![i + 1] = old[i]]

Removed(old, new) ==
  \E i \in DOMAIN old : new = SubSeq(old, 1, i - 1) \o SubSeq(old, i + 1, Len(old))

Next ==
  \E old \in {list}, new \in {list'} :
    \/ Imported(old, new) \/ PutFirst(old, new) \/ Toggled(old, new)
    \/ Swapped(old, new) \/ Removed(old, new)

Spec == Init /\ [][Next]_list
=============================================================================
