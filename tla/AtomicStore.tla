---------------------------- MODULE AtomicStore ----------------------------
(***************************************************************************)
(* What the profile store promises its callers: every operation is one     *)
(* atomic step on the profiles, their rules, the active profile and the    *)
(* YAML and backup of each profile, or it fails and changes nothing.       *)
(***************************************************************************)
EXTENDS Naturals, FiniteSets

CONSTANTS
  Profiles,  \* profile ids, natural numbers: later ids are greater
  None,      \* no active profile
  Stamps     \* contents and settings; 0 stands for "absent"

VARIABLE st  \* [docs, rules, active, raw, backup], all by profile but active

Ids(s) == {p \in Profiles : s.docs[p] # 0}
Empty == [p \in Profiles |-> 0]
Init == st = [docs |-> Empty, rules |-> Empty, active |-> None,
              raw |-> Empty, backup |-> Empty]

\* Profiles ps are added with content c; the first one becomes active if asked.
Add(ps, c, activate) ==
  /\ ps \cap Ids(st) = {}
  /\ st' = [st EXCEPT !.docs = [p \in Profiles |-> IF p \in ps THEN c ELSE @[p]],
                      !.raw = [p \in Profiles |-> IF p \in ps THEN c ELSE @[p]],
                      !.backup = [p \in Profiles |-> IF p \in ps THEN c ELSE @[p]],
                      !.active = IF activate /\ @ = None
                                 THEN CHOOSE p \in ps : TRUE ELSE @]

\* The document of p changes to d, its YAML to r, its backup to b.
Change(p, d, r, b) ==
  /\ p \in Ids(st)
  /\ st' = [st EXCEPT !.docs[p] = d, !.raw[p] = r, !.backup[p] = b]

SetRules(p, c) == p \in Ids(st) /\ st' = [st EXCEPT !.rules[p] = c]

SetActive(p) == p \in Ids(st) /\ st' = [st EXCEPT !.active = p]

\* p goes, with its rules and files; the oldest remaining profile is active.
Remove(p, a) ==
  /\ p \in Ids(st)
  /\ a = st.active \/ st.active = p \/ a = None
  /\ a # None => a \in Ids(st) \ {p}
  /\ st' = [docs |-> [st.docs EXCEPT ![p] = 0],
            rules |-> [st.rules EXCEPT ![p] = 0], active |-> a,
            raw |-> [st.raw EXCEPT ![p] = 0],
            backup |-> [st.backup EXCEPT ![p] = 0]]

Next ==
  \/ \E ps \in SUBSET Profiles \ {{}}, c \in Stamps \ {0} :
       \/ Cardinality(ps) = 1 /\ Add(ps, c, TRUE)
       \/ Add(ps, c, FALSE)
  \/ \E p \in Profiles, d \in Stamps \ {0}, r \in Stamps \ {0} :
       \/ Change(p, d, st.raw[p], st.backup[p])     \* settings
       \/ Change(p, d, r, st.backup[p])             \* edit, restore the backup
       \/ Change(p, d, r, r)                        \* refresh
       \/ \E b \in Stamps \ {0} : Change(p, d, r, b)  \* undo of the last
  \/ \E p \in Profiles :
       \/ \E c \in Stamps : SetRules(p, c)
       \/ SetActive(p)
       \/ \E a \in Ids(st) \cup {None} : Remove(p, a)

Spec == Init /\ [][Next]_st
=============================================================================
