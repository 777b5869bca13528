------------------------- MODULE VpnReceiptsProofs -------------------------
(***************************************************************************)
(* VPN commands, for any number of commands, calls that fail or time out,  *)
(* plugins, roots and edits: a platform operation that may still take      *)
(* effect is remembered by the root that asked for it; only a stop fence   *)
(* queues up behind another command; a stop of the user wins over whatever *)
(* nobody tapped for; and a rollback replaces no newer command.            *)
(***************************************************************************)
EXTENDS VpnReceipts, FiniteSetTheorems, SequenceTheorems, TLAPS

Plugins == 1 .. MaxPlugins
Waiting == {"edit", "submit"}
Pcs == Waiting \cup {"submitting", "observe", "awaiting", "parked", "lookup", "looking",
                     "answered", "done"}
Calls == {"submitting", "awaiting", "looking"}
Outcomes == {"none", "queued"} \cup Settled
TaskRecs == [kind : {"command", "confirm"}, id : Nat \ {0}, action : Commands,
             root : Nat, req : Reqs, opid : Nat, rounds : Nat, pc : Pcs,
             answer : {"none", "unconfirmed"} \cup Settled, sid : Nat, cfg : Nat]
Messages == [task : Nat, call : Calls]
Entries == [kind : {"start", "rollback", "Stop", "Restart", "OwnedStop"},
            reqs : SUBSET Reqs, intent : Nat, plugin : Plugins, sid : Nat, cfg : Nat,
            auto : BOOLEAN, stage : {"queued", "starting", "stopping", "stopped"}]
Vpns == [up : {"off", "starting", "on"}, sid : Nat, stop : BOOLEAN]
Healths == [stage : {"watch", "stopping", "stopped"}, sid : Nat, intent : Nat,
            plugin : Plugins]
Blockers == [id : Nat \ {0}, action : Commands, receipt : Reqs]
Operations == [id : Nat \ {0}, action : Commands,
               phase : {"AwaitingBridge", "Confirming", "Unconfirmed"},
               receipt : 0 .. MaxReqs, recovery : Seq(Blockers)]

(* The commands among the tasks.                                           *)
Cmds == {k \in DOMAIN tasks : tasks[k].kind = "command"}

UiTypes ==
    /\ root \in Nat /\ nextId \in Nat /\ active \in Operations \cup {NoOp} /\ seen \in Vpns
    /\ tasks \in Seq(TaskRecs)
    /\ inbox \in Seq(Messages) /\ \A i \in DOMAIN inbox : inbox[i].task \in DOMAIN tasks

CoreTypes ==
    /\ plugin \in Plugins /\ startReq \in Nat /\ last \in [Plugins -> Nat]
    /\ ops \in [Reqs -> Outcomes]
    /\ intent \in Nat /\ vpn \in Vpns /\ cfg \in Nat /\ lost \in BOOLEAN
    /\ user \in Nat /\ quiet \in BOOLEAN

(* The queue: intents grow along it, only its head has begun to act, and   *)
(* the rollback of a health check is never behind another operation.       *)
QueueInv ==
    /\ chain \in Seq(Entries)
    /\ health \in Healths \cup {NoHealth}
    /\ health.stage = "watch" => health.intent <= intent
    /\ \A i \in DOMAIN chain : chain[i].intent <= intent
    /\ \A i, j \in DOMAIN chain : i < j => chain[i].intent < chain[j].intent
    /\ \A i \in DOMAIN chain : i # 1 => chain[i].stage = "queued" /\ chain[i].kind # "rollback"
    /\ \A i \in DOMAIN chain :
          /\ chain[i].stage = "starting" => chain[i].kind \in {"start", "Restart"}
          /\ chain[i].stage = "stopped" => chain[i].kind = "Restart"
          /\ chain[i].kind = "rollback" => health.stage = "stopping"
          /\ health.stage = "watch" => health.intent < chain[i].intent

Types == UiTypes /\ CoreTypes /\ QueueInv

(* With neither an exit of the Extension nor a start that follows one, a   *)
(* stop that took effect has nothing but stops behind it.                  *)
QuietInv ==
    /\ ~lost /\ \A i \in DOMAIN chain : ~chain[i].auto
    /\ quiet => /\ vpn.up = "off" /\ health.stage # "stopped"
                /\ \A i \in DOMAIN chain : chain[i].kind = "Stop"

(* With one plugin its generation is the newest intent.                    *)
GenerationInv == last[1] = intent /\ user <= intent

(* Requests of commands are their own, their ids grow; a confirmation asks *)
(* about a command.                                                        *)
TaskInv ==
    /\ \A k \in Cmds : tasks[k].req <= Cardinality(Cmds)
    /\ \A j, k \in Cmds : tasks[j].req = tasks[k].req => j = k
    /\ \A j, k \in Cmds : tasks[j].root = tasks[k].root /\ j < k => tasks[j].id < tasks[k].id
    /\ \A k \in DOMAIN tasks :
          /\ tasks[k].root <= root
          /\ tasks[k].root = root => tasks[k].id <= nextId
          /\ \E c \in Cmds : /\ tasks[c].root = tasks[k].root /\ tasks[c].id = tasks[k].id
                             /\ tasks[c].req = tasks[k].req

InFlight(k) == \E i \in DOMAIN inbox : inbox[i].task = k /\ inbox[i].call = "submitting"

(* The platform operation of a command is over, refused, or will never be. *)
Resolved(k) == ~Unresolved(k) /\ tasks[k].pc \notin Waiting

(* A request is submitted once, and only a resolved one has an answer.     *)
SubmitInv ==
    /\ \A i \in DOMAIN inbox : inbox[i].call = "submitting" =>
          /\ inbox[i].task \in Cmds
          /\ tasks[inbox[i].task].pc \notin Waiting
          /\ ops[tasks[inbox[i].task].req] = "none"
    /\ \A i, j \in DOMAIN inbox :
          /\ inbox[i].call = "submitting" /\ inbox[j].call = "submitting"
          /\ inbox[i].task = inbox[j].task
          => i = j
    /\ \A k \in DOMAIN tasks :
          /\ tasks[k].pc \in Waiting => /\ k \in Cmds /\ tasks[k].answer = "none"
                                        /\ ops[tasks[k].req] = "none"
          /\ tasks[k].pc = "answered" => tasks[k].answer # "none"
          /\ tasks[k].answer \in {"true", "false"} => ops[tasks[k].req] = tasks[k].answer
          /\ tasks[k].answer \in Settled =>
                \A c \in Cmds : tasks[c].req = tasks[k].req => Resolved(c)

(* The receipts that are queued are those of the operations in the queue.  *)
ReceiptInv ==
    /\ \A r \in Reqs : ops[r] = "queued" <=> \E i \in DOMAIN chain : r \in chain[i].reqs
    /\ \A i, j \in DOMAIN chain : chain[i].reqs \cap chain[j].reqs # {} => i = j
    /\ \A r \in Reqs : ops[r] # "none" => \E c \in Cmds : tasks[c].req = r

(* The commands of the root, j before k.                                   *)
Before(j, k) == tasks[j].root = root /\ tasks[k].root = root /\ tasks[j].id < tasks[k].id

(* The plugin handles them in the order in which they were submitted, and  *)
(* the operation of a stop runs behind all that were before it.            *)
OrderInv ==
    \A j, k \in Cmds : Before(j, k) =>
        /\ \A p, q \in DOMAIN inbox :
              /\ inbox[p].call = "submitting" /\ inbox[p].task = j
              /\ inbox[q].call = "submitting" /\ inbox[q].task = k
              => p < q
        /\ ops[tasks[k].req] # "none" => ~InFlight(j)
        /\ tasks[k].action = "Stop" =>
              /\ \A a, b \in DOMAIN chain :
                    tasks[j].req \in chain[a].reqs /\ tasks[k].req \in chain[b].reqs => a < b
              /\ ops[tasks[k].req] \in {"true", "false"} => ops[tasks[j].req] # "queued"

(* What is known of an operation that the UI remembers.                    *)
OfCommand(id, action, receipt) ==
    \E c \in Cmds : /\ tasks[c].root = root /\ tasks[c].id = id /\ tasks[c].action = action
                    /\ receipt = 0 \/ tasks[c].req = receipt

(* The active command is the newest one, above the ones it fences; what is *)
(* not among them is resolved.                                             *)
RememberInv ==
    /\ active # NoOp =>
          /\ active.id <= nextId
          /\ OfCommand(active.id, active.action, active.receipt)
          /\ active.phase = "AwaitingBridge" =>
                /\ active.id = nextId
                /\ \A k \in DOMAIN tasks \ Cmds :
                      ~(tasks[k].root = root /\ tasks[k].id = active.id)
          /\ active.phase # "AwaitingBridge" => active.receipt # 0
          /\ active.recovery # <<>> => active.action = "Stop"
          /\ \A i \in DOMAIN active.recovery :
                /\ OfCommand(active.recovery[i].id, active.recovery[i].action,
                             active.recovery[i].receipt)
                /\ active.recovery[i].id < active.id
                /\ i # 1 => active.recovery[i].action = "Stop"
                /\ \A j \in DOMAIN active.recovery :
                      i < j => active.recovery[i].id < active.recovery[j].id
    /\ \A k \in Cmds : tasks[k].root = root =>
          /\ tasks[k].pc \in Waiting =>
                active # NoOp /\ active.id = tasks[k].id /\ active.phase = "AwaitingBridge"
          /\ ~Resolved(k) => tasks[k].id \in Remembered

CommandInv == Types /\ TaskInv /\ SubmitInv /\ ReceiptInv /\ OrderInv /\ RememberInv

-----------------------------------------------------------------------------
(* Sequences *)

LEMMA AppendFacts ==
    ASSUME NEW S, NEW s \in Seq(S), NEW e \in S
    PROVE  /\ Append(s, e) \in Seq(S)
           /\ Len(s) \in Nat /\ DOMAIN s = 1 .. Len(s)
           /\ DOMAIN Append(s, e) = 1 .. (Len(s) + 1)
           /\ \A i \in DOMAIN s : i \in DOMAIN Append(s, e) /\ Append(s, e)[i] = s[i] /\ i < Len(s) + 1
           /\ Append(s, e)[Len(s) + 1] = e
           /\ \A i \in DOMAIN Append(s, e) : i \in DOMAIN s \/ i = Len(s) + 1
  <1>1. /\ Append(s, e) \in Seq(S) /\ Len(Append(s, e)) = Len(s) + 1
        /\ \A i \in 1 .. Len(s) : Append(s, e)[i] = s[i]
        /\ Append(s, e)[Len(s) + 1] = e
    BY AppendProperties
  <1>2. Len(s) \in Nat /\ DOMAIN s = 1 .. Len(s)
    BY LenProperties
  <1>3. DOMAIN Append(s, e) = 1 .. (Len(s) + 1)
    BY <1>1, LenProperties
  <1>4. \A i \in DOMAIN s : i \in DOMAIN Append(s, e) /\ Append(s, e)[i] = s[i] /\ i < Len(s) + 1
    BY <1>1, <1>2, <1>3
  <1>5. \A i \in DOMAIN Append(s, e) : i \in DOMAIN s \/ i = Len(s) + 1
    BY <1>2, <1>3
  <1> QED
    BY <1>1, <1>2, <1>3, <1>4, <1>5

LEMMA TailFacts ==
    ASSUME NEW S, NEW s \in Seq(S), s # <<>>
    PROVE  /\ Head(s) \in S /\ Head(s) = s[1] /\ 1 \in DOMAIN s /\ Tail(s) \in Seq(S)
           /\ \A i \in DOMAIN Tail(s) : /\ i \in Nat /\ i + 1 \in DOMAIN s
                                        /\ Tail(s)[i] = s[i + 1] /\ i + 1 # 1
           /\ \A i \in DOMAIN s : i \in Nat /\ (i # 1 => i - 1 \in DOMAIN Tail(s) /\ i - 1 \in Nat)
  <1>1. /\ Head(s) \in S /\ Tail(s) \in Seq(S) /\ Len(Tail(s)) = Len(s) - 1
        /\ Head(s) = s[1] /\ \A i \in 1 .. Len(Tail(s)) : Tail(s)[i] = s[i + 1]
    BY HeadTailProperties
  <1>2. Len(s) \in Nat \ {0} /\ DOMAIN s = 1 .. Len(s)
    BY LenProperties, EmptySeq
  <1>3. DOMAIN Tail(s) = 1 .. (Len(s) - 1)
    BY <1>1, LenProperties
  <1>4. \A i \in DOMAIN Tail(s) : i \in Nat /\ i + 1 \in DOMAIN s /\ i + 1 # 1
    BY <1>2, <1>3
  <1>5. \A i \in DOMAIN Tail(s) : Tail(s)[i] = s[i + 1]
    BY <1>1, <1>3
  <1>6. \A i \in DOMAIN s : i \in Nat /\ (i # 1 => i - 1 \in DOMAIN Tail(s) /\ i - 1 \in Nat)
    BY <1>2, <1>3
  <1> QED
    BY <1>1, <1>2, <1>4, <1>5, <1>6

LEMMA UpdateFacts ==
    ASSUME NEW S, NEW s \in Seq(S), NEW i \in DOMAIN s, NEW e \in S
    PROVE  /\ [s EXCEPT ![i] = e] \in Seq(S)
           /\ DOMAIN [s EXCEPT ![i] = e] = DOMAIN s
           /\ [s EXCEPT ![i] = e][i] = e
           /\ \A j \in DOMAIN s : j # i => [s EXCEPT ![i] = e][j] = s[j]
  <1>1. /\ Len(s) \in Nat /\ DOMAIN s = 1 .. Len(s) /\ s \in [1 .. Len(s) -> S]
    BY LenProperties
  <1>2. [s EXCEPT ![i] = e] \in [1 .. Len(s) -> S]
    BY <1>1
  <1>3. [s EXCEPT ![i] = e] \in Seq(S)
    BY <1>1, <1>2
  <1> QED
    BY <1>1, <1>3

(* The elements after the removed one move up.                             *)
LEMMA RemoveFacts ==
    ASSUME NEW S, NEW s \in Seq(S), NEW i \in DOMAIN s
    PROVE  /\ RemoveAt(s, i) \in Seq(S)
           /\ \A j \in DOMAIN RemoveAt(s, i) :
                 IF j < i THEN j \in DOMAIN s /\ RemoveAt(s, i)[j] = s[j]
                 ELSE j + 1 \in DOMAIN s /\ RemoveAt(s, i)[j] = s[j + 1]
           /\ DOMAIN RemoveAt(s, i) \subseteq Nat /\ i \in Nat
  <1>1. /\ Len(s) \in Nat /\ DOMAIN s = 1 .. Len(s) /\ i \in 1 .. Len(s)
        /\ \A j \in 1 .. Len(s) : s[j] \in S
    BY LenProperties
  <1> DEFINE a == SubSeq(s, 1, i - 1)
             b == SubSeq(s, i + 1, Len(s))
  <1>2. /\ a \in Seq(S) /\ Len(a) = i - 1
        /\ \A j \in 1 .. (i - 1) : a[j] = s[j]
    <2>1. 1 \in Int /\ i - 1 \in Int /\ \A j \in 1 .. (i - 1) : s[j] \in S
      BY <1>1
    <2>2. /\ a \in Seq(S) /\ Len(a) = IF 1 <= i - 1 THEN (i - 1) - 1 + 1 ELSE 0
          /\ \A j \in 1 .. ((i - 1) - 1 + 1) : a[j] = s[1 + j - 1]
      BY <2>1, SubSeqProperties
    <2> HIDE DEF a
    <2>3. Len(a) = i - 1 /\ (i - 1) - 1 + 1 = i - 1 /\ \A j \in 1 .. (i - 1) : 1 + j - 1 = j
      BY <1>1, <2>2
    <2> QED
      BY <2>2, <2>3
  <1>3. /\ b \in Seq(S) /\ Len(b) = Len(s) - i
        /\ \A j \in 1 .. (Len(s) - i) : b[j] = s[i + j]
    <2>1. i + 1 \in Int /\ Len(s) \in Int /\ \A j \in (i + 1) .. Len(s) : s[j] \in S
      BY <1>1
    <2>2. /\ b \in Seq(S) /\ Len(b) = IF i + 1 <= Len(s) THEN Len(s) - (i + 1) + 1 ELSE 0
          /\ \A j \in 1 .. (Len(s) - (i + 1) + 1) : b[j] = s[(i + 1) + j - 1]
      BY <2>1, SubSeqProperties
    <2> HIDE DEF b
    <2>3. /\ Len(s) - (i + 1) + 1 = Len(s) - i
          /\ \A j \in 1 .. (Len(s) - i) : (i + 1) + j - 1 = i + j
      BY <1>1
    <2>4. i + 1 <= Len(s) \/ Len(s) - i = 0
      BY <1>1
    <2>5. i + 1 <= Len(s) => Len(b) = Len(s) - i
      BY <2>2, <2>3
    <2>6. ~(i + 1 <= Len(s)) => Len(b) = 0
      BY <2>2
    <2>7. Len(b) = Len(s) - i
      BY <2>4, <2>5, <2>6
    <2>8. \A j \in 1 .. (Len(s) - i) : b[j] = s[i + j]
      BY <2>2, <2>3
    <2> QED
      BY <2>2, <2>7, <2>8
  <1>4. RemoveAt(s, i) = a \o b
    BY DEF RemoveAt
  <1> HIDE DEF a, b
  <1>5. /\ a \o b \in Seq(S) /\ Len(a \o b) = Len(s) - 1
        /\ \A j \in 1 .. (Len(s) - 1) : (a \o b)[j] = IF j <= i - 1 THEN a[j] ELSE b[j - (i - 1)]
    <2>1. /\ a \o b \in Seq(S) /\ Len(a \o b) = Len(a) + Len(b)
          /\ \A j \in 1 .. (Len(a) + Len(b)) : (a \o b)[j] = IF j <= Len(a) THEN a[j] ELSE b[j - Len(a)]
      BY <1>2, <1>3, ConcatProperties
    <2>2. Len(a) + Len(b) = Len(s) - 1
      BY <1>1, <1>2, <1>3
    <2> QED
      BY <1>2, <2>1, <2>2
  <1> DEFINE c == a \o b
  <1> HIDE DEF c
  <1>6. DOMAIN c = 1 .. (Len(s) - 1)
    BY <1>5, LenProperties DEF c
  <1>7. ASSUME NEW j \in 1 .. (Len(s) - 1)
        PROVE  IF j < i THEN j \in DOMAIN s /\ c[j] = s[j]
               ELSE j + 1 \in DOMAIN s /\ c[j] = s[j + 1]
    <2>1. CASE j < i
      BY <1>1, <1>2, <1>5, <2>1 DEF c
    <2>2. CASE ~(j < i)
      <3>1. j - (i - 1) \in 1 .. (Len(s) - i) /\ i + (j - (i - 1)) = j + 1 /\ j + 1 \in DOMAIN s
        BY <1>1, <2>2
      <3>2. ~(j <= i - 1)
        BY <1>1, <2>2
      <3>3. c[j] = b[j - (i - 1)]
        BY <1>5, <3>2 DEF c
      <3> QED
        BY <1>3, <2>2, <3>1, <3>3
    <2> QED
      BY <2>1, <2>2
  <1>8. DOMAIN c \subseteq Nat /\ i \in Nat
    BY <1>1, <1>6
  <1>9. \A j \in DOMAIN c :
            IF j < i THEN j \in DOMAIN s /\ c[j] = s[j]
            ELSE j + 1 \in DOMAIN s /\ c[j] = s[j + 1]
    BY <1>6, <1>7
  <1> QED
    BY <1>4, <1>5, <1>8, <1>9 DEF c

LEMMA FrontFacts ==
    ASSUME NEW S, NEW s \in Seq(S), s # <<>>
    PROVE  /\ Front(s) \in Seq(S) /\ Len(s) \in DOMAIN s /\ Last(s) = s[Len(s)]
           /\ \A i \in DOMAIN Front(s) : i \in DOMAIN s /\ i < Len(s) /\ Front(s)[i] = s[i]
           /\ \A i \in DOMAIN s : i \in DOMAIN Front(s) \/ i = Len(s)
           /\ Front(s) # <<>> => 1 # Len(s) /\ 1 \in DOMAIN s
  <1>1. /\ Len(s) \in Nat \ {0} /\ DOMAIN s = 1 .. Len(s)
        /\ \A j \in 1 .. Len(s) : s[j] \in S
    BY LenProperties, EmptySeq
  <1>2. /\ Front(s) \in Seq(S) /\ Len(Front(s)) = Len(s) - 1
        /\ \A j \in 1 .. (Len(s) - 1) : Front(s)[j] = s[j]
    <2> DEFINE a == SubSeq(s, 1, Len(s) - 1)
    <2>1. 1 \in Int /\ Len(s) - 1 \in Int /\ \A j \in 1 .. (Len(s) - 1) : s[j] \in S
      BY <1>1
    <2>2. /\ a \in Seq(S) /\ Len(a) = IF 1 <= Len(s) - 1 THEN (Len(s) - 1) - 1 + 1 ELSE 0
          /\ \A j \in 1 .. ((Len(s) - 1) - 1 + 1) : a[j] = s[1 + j - 1]
      BY <2>1, SubSeqProperties
    <2>3. Front(s) = a
      BY DEF Front
    <2> HIDE DEF a
    <2>4. /\ (Len(s) - 1) - 1 + 1 = Len(s) - 1
          /\ \A j \in 1 .. (Len(s) - 1) : 1 + j - 1 = j
      BY <1>1
    <2>5. 1 <= Len(s) - 1 \/ Len(s) - 1 = 0
      BY <1>1
    <2>6. 1 <= Len(s) - 1 => Len(a) = Len(s) - 1
      BY <2>2, <2>4
    <2>7. ~(1 <= Len(s) - 1) => Len(a) = 0
      BY <2>2
    <2>8. Len(a) = Len(s) - 1
      BY <2>5, <2>6, <2>7
    <2>9. \A j \in 1 .. (Len(s) - 1) : a[j] = s[j]
      BY <2>2, <2>4
    <2> QED
      BY <2>2, <2>3, <2>8, <2>9
  <1>3. DOMAIN Front(s) = 1 .. (Len(s) - 1)
    BY <1>2, LenProperties
  <1>4. Front(s) # <<>> => Len(Front(s)) # 0
    BY <1>2, EmptySeq
  <1> QED
    BY <1>1, <1>2, <1>3, <1>4 DEF Last

-----------------------------------------------------------------------------
(* The tasks *)

LEMMA Numbers ==
    ASSUME ConstantsOK
    PROVE  /\ MaxReqs \in Nat /\ MaxRounds \in Nat /\ MaxPlugins \in Nat \ {0}
           /\ 1 \in Plugins /\ Kinds \subseteq Commands
  BY DEF ConstantsOK, Plugins

(* The record of k goes on; what it was spawned for stays.                 *)
Renews(k) ==
    /\ tasks' \in Seq(TaskRecs) /\ DOMAIN tasks' = DOMAIN tasks
    /\ \A u \in DOMAIN tasks : u # k => tasks'[u] = tasks[u]
    /\ tasks'[k].kind = tasks[k].kind /\ tasks'[k].id = tasks[k].id
    /\ tasks'[k].action = tasks[k].action /\ tasks'[k].root = tasks[k].root
    /\ tasks'[k].req = tasks[k].req

Renewed(k, pc, answer) ==
    Renews(k) /\ tasks'[k].pc = pc /\ tasks'[k].answer = answer

LEMMA TaskType ==
    ASSUME UiTypes, NEW k \in DOMAIN tasks
    PROVE  /\ tasks[k] \in TaskRecs
           /\ tasks[k].kind \in {"command", "confirm"} /\ tasks[k].id \in Nat \ {0}
           /\ tasks[k].action \in Commands /\ tasks[k].root \in Nat /\ tasks[k].req \in Reqs
           /\ tasks[k].opid \in Nat /\ tasks[k].rounds \in Nat /\ tasks[k].pc \in Pcs
           /\ tasks[k].answer \in {"none", "unconfirmed"} \cup Settled
           /\ tasks[k].sid \in Nat /\ tasks[k].cfg \in Nat
           /\ k \in Nat
  <1>1. tasks[k] \in TaskRecs /\ k \in Nat
    BY LenProperties DEF UiTypes
  <1> QED
    BY <1>1 DEF TaskRecs

LEMMA RenewFacts ==
    ASSUME UiTypes, NEW k \in DOMAIN tasks, NEW t \in TaskRecs,
           tasks' = [tasks EXCEPT ![k] = t],
           t.kind = tasks[k].kind, t.id = tasks[k].id, t.action = tasks[k].action,
           t.root = tasks[k].root, t.req = tasks[k].req
    PROVE  Renewed(k, t.pc, t.answer)
  <1>1. tasks \in Seq(TaskRecs)
    BY DEF UiTypes
  <1>2. /\ tasks' \in Seq(TaskRecs) /\ DOMAIN tasks' = DOMAIN tasks /\ tasks'[k] = t
        /\ \A u \in DOMAIN tasks : u # k => tasks'[u] = tasks[u]
    BY <1>1, UpdateFacts
  <1> QED
    BY <1>2 DEF Renewed, Renews

LEMMA GotoFacts ==
    ASSUME UiTypes, NEW k \in DOMAIN tasks, NEW pc \in Pcs, Goto(k, pc)
    PROVE  Renewed(k, pc, tasks[k].answer)
  <1> DEFINE t == [tasks[k] EXCEPT !.pc = pc]
  <1>1. tasks' = [tasks EXCEPT ![k] = t]
    BY DEF Goto
  <1>2. /\ t \in TaskRecs /\ t.pc = pc /\ t.answer = tasks[k].answer
        /\ t.kind = tasks[k].kind /\ t.id = tasks[k].id /\ t.action = tasks[k].action
        /\ t.root = tasks[k].root /\ t.req = tasks[k].req
    BY TaskType DEF TaskRecs
  <1> HIDE DEF t
  <1> QED
    BY <1>1, <1>2, RenewFacts

LEMMA AnswerFacts ==
    ASSUME UiTypes, NEW k \in DOMAIN tasks, NEW a \in {"unconfirmed"} \cup Settled, Answer(k, a)
    PROVE  Renewed(k, "answered", a)
  <1> DEFINE t == [tasks[k] EXCEPT !.pc = "answered", !.answer = a]
  <1>1. tasks' = [tasks EXCEPT ![k] = t]
    BY DEF Answer
  <1>2. /\ t \in TaskRecs /\ t.pc = "answered" /\ t.answer = a
        /\ t.kind = tasks[k].kind /\ t.id = tasks[k].id /\ t.action = tasks[k].action
        /\ t.root = tasks[k].root /\ t.req = tasks[k].req
    BY TaskType DEF TaskRecs, Pcs
  <1> HIDE DEF t
  <1> QED
    BY <1>1, <1>2, RenewFacts

(* Another round of an observation.                                        *)
LEMMA RoundFacts ==
    ASSUME UiTypes, NEW k \in DOMAIN tasks, tasks[k].rounds # 0,
           NEW o \in Nat,
           \/ tasks' = [tasks EXCEPT ![k].pc = "observe", ![k].rounds = @ - 1]
           \/ tasks' = [tasks EXCEPT ![k].pc = "observe", ![k].opid = o, ![k].rounds = @ - 1]
    PROVE  Renewed(k, "observe", tasks[k].answer)
  <1> DEFINE left == tasks[k].rounds - 1
             t == [tasks[k] EXCEPT !.pc = "observe", !.rounds = left]
             u == [tasks[k] EXCEPT !.pc = "observe", !.opid = o, !.rounds = left]
  <1>1. tasks' = [tasks EXCEPT ![k] = t] \/ tasks' = [tasks EXCEPT ![k] = u]
    BY TaskType DEF TaskRecs
  <1>2. left \in Nat
    BY TaskType
  <1> HIDE DEF left
  <1>3. /\ t \in TaskRecs /\ t.pc = "observe" /\ t.answer = tasks[k].answer
        /\ t.kind = tasks[k].kind /\ t.id = tasks[k].id /\ t.action = tasks[k].action
        /\ t.root = tasks[k].root /\ t.req = tasks[k].req
    BY <1>2, TaskType DEF TaskRecs, Pcs
  <1>4. /\ u \in TaskRecs /\ u.pc = "observe" /\ u.answer = tasks[k].answer
        /\ u.kind = tasks[k].kind /\ u.id = tasks[k].id /\ u.action = tasks[k].action
        /\ u.root = tasks[k].root /\ u.req = tasks[k].req
    BY <1>2, TaskType DEF TaskRecs, Pcs
  <1>5. ASSUME NEW v \in TaskRecs, tasks' = [tasks EXCEPT ![k] = v],
               v.pc = "observe", v.answer = tasks[k].answer,
               v.kind = tasks[k].kind, v.id = tasks[k].id, v.action = tasks[k].action,
               v.root = tasks[k].root, v.req = tasks[k].req
        PROVE  Renewed(k, "observe", tasks[k].answer)
    <2>1. Renewed(k, v.pc, v.answer)
      BY <1>5, RenewFacts
    <2> QED
      BY <1>5, <2>1
  <1> HIDE DEF t, u
  <1> QED
    BY <1>1, <1>3, <1>4, <1>5

LEMMA FoundFacts ==
    ASSUME UiTypes, NEW k \in DOMAIN tasks, NEW pc \in Pcs, NEW o \in Nat,
           \/ tasks' = [tasks EXCEPT ![k].pc = pc, ![k].opid = o]
           \/ tasks' = [tasks EXCEPT ![k].opid = o, ![k].pc = pc]
    PROVE  Renewed(k, pc, tasks[k].answer)
  <1> DEFINE t == [tasks[k] EXCEPT !.pc = pc, !.opid = o]
  <1>1. tasks' = [tasks EXCEPT ![k] = t]
    BY TaskType DEF TaskRecs
  <1>2. /\ t \in TaskRecs /\ t.pc = pc /\ t.answer = tasks[k].answer
        /\ t.kind = tasks[k].kind /\ t.id = tasks[k].id /\ t.action = tasks[k].action
        /\ t.root = tasks[k].root /\ t.req = tasks[k].req
    BY TaskType DEF TaskRecs
  <1> HIDE DEF t
  <1> QED
    BY <1>1, <1>2, RenewFacts

LEMMA EditFacts ==
    ASSUME UiTypes, NEW k \in DOMAIN tasks, NEW c \in Nat,
           tasks' = [tasks EXCEPT ![k].pc = "submit", ![k].cfg = c]
    PROVE  Renewed(k, "submit", tasks[k].answer)
  <1> DEFINE t == [tasks[k] EXCEPT !.pc = "submit", !.cfg = c]
  <1>1. tasks' = [tasks EXCEPT ![k] = t]
    BY TaskType DEF TaskRecs
  <1>2. tasks[k] \in TaskRecs /\ "submit" \in Pcs
    BY TaskType DEF Pcs, Waiting
  <1>3. /\ t \in TaskRecs /\ t.pc = "submit" /\ t.answer = tasks[k].answer
        /\ t.kind = tasks[k].kind /\ t.id = tasks[k].id /\ t.action = tasks[k].action
        /\ t.root = tasks[k].root /\ t.req = tasks[k].req
    BY <1>2 DEF TaskRecs
  <1> HIDE DEF t
  <1>4. Renewed(k, t.pc, t.answer)
    BY <1>1, <1>3, RenewFacts
  <1> QED
    BY <1>3, <1>4

(* How an observation goes on.                                             *)
LEMMA ObservedFacts ==
    ASSUME UiTypes, NEW k \in DOMAIN tasks, NEW o \in Outcomes, Observed(k, o)
    PROVE  \/ Renewed(k, "answered", "unconfirmed")
           \/ Renewed(k, "observe", tasks[k].answer)
           \/ o \in Settled /\ Renewed(k, "answered", o)
  <1>1. CASE o \in Settled
    BY <1>1, AnswerFacts DEF Observed
  <1>2. CASE o \notin Settled /\ Answer(k, "unconfirmed")
    BY <1>2, AnswerFacts
  <1>3. CASE /\ tasks[k].rounds # 0
             /\ tasks' = [tasks EXCEPT ![k].pc = "observe", ![k].rounds = @ - 1]
    BY <1>3, RoundFacts
  <1> QED
    BY <1>1, <1>2, <1>3 DEF Observed, Pending

(* A task is spawned.                                                      *)
Fresh == Len(tasks) + 1

LEMMA SpawnFacts ==
    ASSUME UiTypes, NEW t \in TaskRecs, tasks' = Append(tasks, t)
    PROVE  /\ tasks' \in Seq(TaskRecs)
           /\ DOMAIN tasks' = DOMAIN tasks \cup {Fresh} /\ Fresh \notin DOMAIN tasks
           /\ \A u \in DOMAIN tasks : tasks'[u] = tasks[u] /\ u < Fresh
           /\ tasks'[Fresh] = t /\ Fresh \in Nat
  <1>1. tasks \in Seq(TaskRecs)
    BY DEF UiTypes
  <1>2. /\ tasks' \in Seq(TaskRecs) /\ Len(tasks) \in Nat
        /\ DOMAIN tasks = 1 .. Len(tasks) /\ DOMAIN tasks' = 1 .. (Len(tasks) + 1)
        /\ \A u \in DOMAIN tasks : tasks'[u] = tasks[u] /\ u < Len(tasks) + 1
        /\ tasks'[Len(tasks) + 1] = t
    BY <1>1, AppendFacts
  <1>3. 1 .. (Len(tasks) + 1) = 1 .. Len(tasks) \cup {Len(tasks) + 1} /\ Len(tasks) + 1 \notin 1 .. Len(tasks)
    BY <1>2
  <1> QED
    BY <1>2, <1>3 DEF Fresh

LEMMA CmdsFinite ==
    ASSUME UiTypes
    PROVE  IsFiniteSet(Cmds) /\ Cardinality(Cmds) \in Nat /\ NextReq = 1 + Cardinality(Cmds)
  <1>1. Len(tasks) \in Nat /\ DOMAIN tasks = 1 .. Len(tasks)
    BY LenProperties DEF UiTypes
  <1>2. IsFiniteSet(DOMAIN tasks)
    BY <1>1, FS_Interval
  <1>3. Cmds \subseteq DOMAIN tasks
    BY DEF Cmds
  <1> QED
    BY <1>2, <1>3, FS_Subset, FS_CardinalityType DEF NextReq, Cmds

(* The request of a new command is the next one.                           *)
LEMMA CommandType ==
    ASSUME ConstantsOK, UiTypes, CanCommand, NEW a \in Commands
    PROVE  LET t == Task("command", nextId + 1, a, NextReq)
               e == [t EXCEPT !.pc = "edit", !.sid = seen.sid]
           IN  /\ NextReq \in Reqs /\ NextReq \in Nat
               /\ t \in TaskRecs /\ t.kind = "command" /\ t.id = nextId + 1 /\ t.action = a
               /\ t.root = root /\ t.req = NextReq /\ t.pc = "submit" /\ t.answer = "none"
               /\ e \in TaskRecs /\ e.kind = "command" /\ e.id = nextId + 1 /\ e.action = a
               /\ e.root = root /\ e.req = NextReq /\ e.pc = "edit" /\ e.answer = "none"
  <1>1. NextReq \in Reqs /\ NextReq \in Nat
    <2>1. NextReq \in Nat /\ NextReq >= 1 /\ NextReq <= MaxReqs
      BY CmdsFinite DEF CanCommand
    <2> QED
      BY <2>1, Numbers DEF Reqs
  <1>2. nextId + 1 \in Nat \ {0} /\ root \in Nat /\ seen.sid \in Nat /\ MaxRounds \in Nat
    BY Numbers DEF UiTypes, Vpns
  <1> DEFINE r == NextReq
             n == nextId + 1
  <1> HIDE DEF r, n
  <1>3. Task("command", n, a, r) \in TaskRecs
    BY <1>1, <1>2 DEF Task, TaskRecs, Pcs, Waiting, r, n
  <1>4. [Task("command", n, a, r) EXCEPT !.pc = "edit", !.sid = seen.sid] \in TaskRecs
    BY <1>2, <1>3 DEF TaskRecs, Pcs, Waiting
  <1> QED
    BY <1>1, <1>3, <1>4 DEF Task, r, n

-----------------------------------------------------------------------------
(* The calls on their way                                                  *)

InboxTyped == inbox \in Seq(Messages) /\ \A i \in DOMAIN inbox : inbox[i].task \in DOMAIN tasks

(* No request is submitted by the step, and none overtakes another.        *)
FromOld ==
    \A p, q \in DOMAIN inbox' :
        inbox'[p].call = "submitting" /\ inbox'[q].call = "submitting" =>
            \E u, v \in DOMAIN inbox :
                /\ inbox[u] = inbox'[p] /\ inbox[v] = inbox'[q]
                /\ u < v => p < q
                /\ u = v => p = q

LEMMA InboxType ==
    ASSUME UiTypes
    PROVE  /\ inbox \in Seq(Messages) /\ Len(inbox) \in Nat /\ DOMAIN inbox = 1 .. Len(inbox)
           /\ \A i \in DOMAIN inbox : /\ inbox[i] \in Messages /\ inbox[i].task \in DOMAIN tasks
                                      /\ inbox[i].call \in Calls /\ i \in Nat
  <1>1. inbox \in Seq(Messages)
    BY DEF UiTypes
  <1>2. /\ Len(inbox) \in Nat /\ DOMAIN inbox = 1 .. Len(inbox)
        /\ \A i \in DOMAIN inbox : inbox[i] \in Messages /\ i \in Nat
    BY <1>1, LenProperties
  <1> QED
    BY <1>1, <1>2 DEF UiTypes, Messages

LEMMA InboxSame ==
    ASSUME UiTypes, inbox' = inbox, DOMAIN tasks \subseteq DOMAIN tasks'
    PROVE  InboxTyped' /\ FromOld
  BY InboxType DEF InboxTyped, FromOld

LEMMA InboxAppended ==
    ASSUME UiTypes, NEW k \in DOMAIN tasks, NEW to \in Calls,
           inbox' = Append(inbox, [task |-> k, call |-> to]), DOMAIN tasks' = DOMAIN tasks
    PROVE  /\ InboxTyped'
           /\ to # "submitting" => FromOld
           /\ Len(inbox) + 1 \in DOMAIN inbox' /\ Len(inbox) + 1 \in Nat
           /\ inbox'[Len(inbox) + 1] = [task |-> k, call |-> to]
           /\ \A i \in DOMAIN inbox : i \in DOMAIN inbox' /\ inbox'[i] = inbox[i] /\ i < Len(inbox) + 1
           /\ \A i \in DOMAIN inbox' : i \in DOMAIN inbox \/ i = Len(inbox) + 1
  <1> DEFINE m == [task |-> k, call |-> to]
  <1>1. m \in Messages /\ m.task = k /\ m.call = to
    BY TaskType DEF Messages
  <1> HIDE DEF m
  <1>2. /\ inbox' \in Seq(Messages) /\ Len(inbox) \in Nat
        /\ \A i \in DOMAIN inbox : i \in DOMAIN inbox' /\ inbox'[i] = inbox[i] /\ i < Len(inbox) + 1
        /\ inbox'[Len(inbox) + 1] = m
        /\ \A i \in DOMAIN inbox' : i \in DOMAIN inbox \/ i = Len(inbox) + 1
        /\ DOMAIN inbox' = 1 .. (Len(inbox) + 1)
    BY <1>1, InboxType, AppendFacts DEF m
  <1>3. \A i \in DOMAIN inbox' : inbox'[i].task \in DOMAIN tasks'
    BY <1>1, <1>2, InboxType
  <1>4. to # "submitting" => FromOld
    <2>1. ASSUME to # "submitting", NEW p \in DOMAIN inbox', inbox'[p].call = "submitting"
          PROVE  p \in DOMAIN inbox /\ inbox[p] = inbox'[p]
      BY <1>1, <1>2, <2>1
    <2> QED
      BY <2>1 DEF FromOld
  <1>5. Len(inbox) + 1 \in DOMAIN inbox' /\ Len(inbox) + 1 \in Nat
    BY <1>2
  <1> QED
    BY <1>2, <1>3, <1>4, <1>5 DEF InboxTyped, m

LEMMA InboxTaken ==
    ASSUME UiTypes, inbox # <<>>, inbox' = Tail(inbox), DOMAIN tasks' = DOMAIN tasks
    PROVE  /\ InboxTyped' /\ FromOld
           /\ Head(inbox) = inbox[1] /\ 1 \in DOMAIN inbox /\ Head(inbox).task \in DOMAIN tasks
           /\ \A i \in DOMAIN inbox' : /\ i \in Nat /\ i + 1 \in DOMAIN inbox
                                       /\ inbox'[i] = inbox[i + 1] /\ i + 1 # 1
           /\ \A i \in DOMAIN inbox : i # 1 => i - 1 \in DOMAIN inbox' /\ inbox'[i - 1] = inbox[i]
  <1>1. /\ Head(inbox) = inbox[1] /\ 1 \in DOMAIN inbox /\ inbox' \in Seq(Messages)
        /\ \A i \in DOMAIN inbox' : /\ i \in Nat /\ i + 1 \in DOMAIN inbox
                                    /\ inbox'[i] = inbox[i + 1] /\ i + 1 # 1
        /\ \A i \in DOMAIN inbox : i \in Nat /\ (i # 1 => i - 1 \in DOMAIN inbox' /\ i - 1 \in Nat)
    BY InboxType, TailFacts
  <1>2. \A i \in DOMAIN inbox' : inbox'[i].task \in DOMAIN tasks'
    BY <1>1, InboxType
  <1>3. FromOld
    <2>1. ASSUME NEW p \in DOMAIN inbox', NEW q \in DOMAIN inbox'
          PROVE  \E u, v \in DOMAIN inbox :
                    /\ inbox[u] = inbox'[p] /\ inbox[v] = inbox'[q]
                    /\ u < v => p < q
                    /\ u = v => p = q
      <3>1. /\ p + 1 \in DOMAIN inbox /\ q + 1 \in DOMAIN inbox /\ p \in Nat /\ q \in Nat
            /\ inbox[p + 1] = inbox'[p] /\ inbox[q + 1] = inbox'[q]
        BY <1>1
      <3>2. (p + 1 < q + 1 => p < q) /\ (p + 1 = q + 1 => p = q)
        BY <3>1
      <3> QED
        BY <3>1, <3>2
    <2> QED
      BY <2>1 DEF FromOld
  <1>4. \A i \in DOMAIN inbox : i # 1 => i - 1 \in DOMAIN inbox' /\ inbox'[i - 1] = inbox[i]
    <2>1. ASSUME NEW i \in DOMAIN inbox, i # 1
          PROVE  i - 1 \in DOMAIN inbox' /\ inbox'[i - 1] = inbox[i]
      <3>1. i - 1 \in DOMAIN inbox' /\ i - 1 \in Nat /\ i \in Nat /\ (i - 1) + 1 = i
        BY <1>1, <2>1
      <3> QED
        BY <1>1, <3>1
    <2> QED
      BY <2>1
  <1> QED
    BY <1>1, <1>2, <1>3, <1>4, InboxType DEF InboxTyped

LEMMA InboxRemoved ==
    ASSUME UiTypes, NEW r \in DOMAIN inbox, inbox' = RemoveAt(inbox, r), DOMAIN tasks' = DOMAIN tasks
    PROVE  InboxTyped' /\ FromOld
  <1>1. /\ inbox' \in Seq(Messages) /\ DOMAIN inbox' \subseteq Nat /\ r \in Nat
        /\ \A j \in DOMAIN inbox' :
              IF j < r THEN j \in DOMAIN inbox /\ inbox'[j] = inbox[j]
              ELSE j + 1 \in DOMAIN inbox /\ inbox'[j] = inbox[j + 1]
    BY InboxType, RemoveFacts
  <1> DEFINE At(j) == IF j < r THEN j ELSE j + 1
  <1>2. \A j \in DOMAIN inbox' : At(j) \in DOMAIN inbox /\ inbox[At(j)] = inbox'[j]
    BY <1>1
  <1>3. \A p, q \in DOMAIN inbox' : (At(p) < At(q) => p < q) /\ (At(p) = At(q) => p = q)
    BY <1>1
  <1> HIDE DEF At
  <1>4. \A i \in DOMAIN inbox' : inbox'[i].task \in DOMAIN tasks'
    BY <1>2, InboxType
  <1>5. FromOld
    BY <1>2, <1>3 DEF FromOld
  <1> QED
    BY <1>1, <1>4, <1>5 DEF InboxTyped

-----------------------------------------------------------------------------
(* The steps of a task                                                     *)

(* What a step of task k, or of the plugin for it, makes of its record.    *)
Progress(k) ==
    /\ Renews(k)
    /\ tasks'[k].pc \in Waiting => tasks[k].pc \in Waiting /\ tasks'[k].answer = tasks[k].answer
    /\ tasks'[k].pc = "answered" => tasks'[k].answer # "none"
    /\ \/ tasks'[k].answer = tasks[k].answer
       \/ tasks'[k].answer = "unconfirmed"
       \/ tasks'[k].answer \in Settled /\ tasks'[k].answer = ops[tasks[k].req]
       \/ tasks'[k].answer = "failed" /\ tasks[k].pc \in Waiting /\ tasks'[k].pc = "answered"

(* A step in which no request is submitted.                                *)
TaskStep(k) ==
    Progress(k) /\ InboxTyped' /\ FromOld /\ UNCHANGED <<root, nextId, active, seen, chain, ops>>

LEMMA OpType ==
    ASSUME UiTypes, CoreTypes, NEW k \in DOMAIN tasks
    PROVE  tasks[k].req \in Reqs /\ ops[tasks[k].req] \in Outcomes
  BY TaskType DEF CoreTypes

(* The ways in which a record goes on.                                     *)
LEMMA Goes ==
    ASSUME UiTypes, NEW k \in DOMAIN tasks, NEW pc,
           Renewed(k, pc, tasks[k].answer), pc \notin Waiting, pc # "answered"
    PROVE  Progress(k) /\ DOMAIN tasks' = DOMAIN tasks
  BY DEF Renewed, Renews, Progress

LEMMA Answers ==
    ASSUME UiTypes, CoreTypes, NEW k \in DOMAIN tasks, NEW a, Renewed(k, "answered", a),
           a = "unconfirmed" \/ (a \in Settled /\ a = ops[tasks[k].req])
           \/ (a = "failed" /\ tasks[k].pc \in Waiting)
    PROVE  Progress(k) /\ DOMAIN tasks' = DOMAIN tasks
  BY DEF Renewed, Renews, Progress, Waiting, Settled

LEMMA MakeEditStep ==
    ASSUME UiTypes, CoreTypes, NEW k \in DOMAIN tasks, MakeEdit(k)
    PROVE  TaskStep(k) /\ cfg' \in Nat
  <1>1. tasks[k].pc \in Waiting /\ cfg \in Nat
    BY DEF MakeEdit, Waiting, CoreTypes
  <1>2. ASSUME tasks' = [tasks EXCEPT ![k].pc = "submit", ![k].cfg = cfg + 1]
        PROVE  Progress(k) /\ DOMAIN tasks' = DOMAIN tasks
    <2>1. cfg + 1 \in Nat
      BY <1>1
    <2>2. Renewed(k, "submit", tasks[k].answer)
      BY <1>2, <2>1, EditFacts
    <2> QED
      BY <1>1, <2>2 DEF Renewed, Renews, Progress, Waiting
  <1>3. ASSUME Answer(k, "failed")
        PROVE  Progress(k) /\ DOMAIN tasks' = DOMAIN tasks
    <2>1. Renewed(k, "answered", "failed")
      BY <1>3, AnswerFacts DEF Settled
    <2> QED
      BY <1>1, <2>1, Answers
  <1>4. Progress(k) /\ DOMAIN tasks' = DOMAIN tasks
    BY <1>2, <1>3 DEF MakeEdit
  <1>5. cfg' \in Nat
    BY <1>1 DEF MakeEdit
  <1> QED
    BY <1>4, <1>5, InboxSame DEF MakeEdit, TaskStep, uiVars

(* A request is submitted.                                                 *)
SubmitStep(k) ==
    /\ Renewed(k, "submitting", tasks[k].answer) /\ tasks[k].pc = "submit"
    /\ inbox' = Append(inbox, [task |-> k, call |-> "submitting"])
    /\ UNCHANGED <<root, nextId, active, seen, chain, ops>>

LEMMA SubmitKinds ==
    ASSUME UiTypes, CoreTypes, NEW k \in DOMAIN tasks, Submit(k)
    PROVE  TaskStep(k) \/ SubmitStep(k)
  <1>1. ASSUME Goto(k, "submitting"), inbox' = Append(inbox, [task |-> k, call |-> "submitting"])
        PROVE  SubmitStep(k)
    <2>1. Renewed(k, "submitting", tasks[k].answer)
      BY <1>1, GotoFacts DEF Pcs
    <2> QED
      BY <1>1, <2>1 DEF Submit, Call, SubmitStep, uiVars, coreVars
  <1>2. ASSUME Observe(k), inbox' = inbox
        PROVE  TaskStep(k)
    <2>1. Progress(k) /\ DOMAIN tasks' = DOMAIN tasks
      BY <1>2, GotoFacts, Goes DEF Pcs, Observe, Waiting
    <2> QED
      BY <1>2, <2>1, InboxSame DEF Submit, Call, TaskStep, uiVars, coreVars
  <1> QED
    BY <1>1, <1>2 DEF Submit, Call

(* A call that submits nothing.                                            *)
LEMMA CallStep ==
    ASSUME UiTypes, CoreTypes, NEW k \in DOMAIN tasks, NEW from, NEW to \in {"awaiting", "looking"},
           NEW onFailure, onFailure => Lookup(k) \/ Unobservable(k), Call(k, from, to, onFailure)
    PROVE  TaskStep(k)
  <1>1. ASSUME Goto(k, to), inbox' = Append(inbox, [task |-> k, call |-> to])
        PROVE  TaskStep(k)
    <2>1. Progress(k) /\ DOMAIN tasks' = DOMAIN tasks
      BY <1>1, GotoFacts, Goes DEF Pcs, Waiting
    <2>2. InboxTyped' /\ FromOld
      BY <1>1, <2>1, InboxAppended DEF Calls
    <2> QED
      BY <2>1, <2>2 DEF Call, TaskStep, uiVars, coreVars
  <1>2. ASSUME Lookup(k), inbox' = inbox
        PROVE  TaskStep(k)
    <2>1. Progress(k) /\ DOMAIN tasks' = DOMAIN tasks
      BY <1>2, GotoFacts, Goes DEF Pcs, Lookup, Waiting
    <2> QED
      BY <1>2, <2>1, InboxSame DEF Call, TaskStep, uiVars, coreVars
  <1>3. ASSUME Unobservable(k), inbox' = inbox
        PROVE  TaskStep(k)
    <2>1. Progress(k) /\ DOMAIN tasks' = DOMAIN tasks
      BY <1>3, AnswerFacts, Answers DEF Unobservable
    <2> QED
      BY <1>3, <2>1, InboxSame DEF Call, TaskStep, uiVars, coreVars
  <1> QED
    BY <1>1, <1>2, <1>3 DEF Call

LEMMA TimeoutStep ==
    ASSUME UiTypes, CoreTypes, NEW k \in DOMAIN tasks, CallTimesOut(k)
    PROVE  TaskStep(k)
  <1>1. ASSUME NEW pc \in {"observe", "lookup"}, Goto(k, pc)
        PROVE  Progress(k) /\ DOMAIN tasks' = DOMAIN tasks
    BY <1>1, GotoFacts, Goes DEF Pcs, Waiting
  <1>2. ASSUME Answer(k, "unconfirmed")
        PROVE  Progress(k) /\ DOMAIN tasks' = DOMAIN tasks
    BY <1>2, AnswerFacts, Answers
  <1>3. Progress(k) /\ DOMAIN tasks' = DOMAIN tasks
    BY <1>1, <1>2 DEF CallTimesOut
  <1>4. inbox' = inbox \/ \E i \in DOMAIN inbox : inbox' = RemoveAt(inbox, i)
    BY DEF CallTimesOut
  <1>5. InboxTyped' /\ FromOld
    BY <1>3, <1>4, InboxSame, InboxRemoved
  <1> QED
    BY <1>3, <1>5 DEF CallTimesOut, TaskStep, uiVars, coreVars

LEMMA AwaitStep ==
    ASSUME UiTypes, CoreTypes, HandleAwait
    PROVE  \E k \in DOMAIN tasks : TaskStep(k)
  <1> DEFINE k == Head(inbox).task
  <1>1. k \in DOMAIN tasks
    BY InboxType, TailFacts DEF HandleAwait
  <1>2. tasks[k].req \in Reqs /\ ops[tasks[k].req] \in Outcomes
    BY <1>1, OpType
  <1>3. /\ inbox # <<>> /\ inbox' = Tail(inbox)
        /\ UNCHANGED <<root, nextId, active, seen, chain, ops>>
        /\ \/ tasks' = [tasks EXCEPT ![k].opid = 0, ![k].pc = "lookup"]
           \/ ops[tasks[k].req] \in Settled /\ Answer(k, ops[tasks[k].req])
           \/ Goto(k, "parked")
    BY DEF HandleAwait, uiVars, coreVars
  <1> HIDE DEF k
  <1>4. ASSUME tasks' = [tasks EXCEPT ![k].opid = 0, ![k].pc = "lookup"]
        PROVE  Progress(k) /\ DOMAIN tasks' = DOMAIN tasks
    <2>1. Renewed(k, "lookup", tasks[k].answer)
      BY <1>1, <1>4, FoundFacts DEF Pcs
    <2> QED
      BY <1>1, <2>1, Goes DEF Waiting
  <1>5. ASSUME ops[tasks[k].req] \in Settled, Answer(k, ops[tasks[k].req])
        PROVE  Progress(k) /\ DOMAIN tasks' = DOMAIN tasks
    BY <1>1, <1>5, AnswerFacts, Answers
  <1>6. ASSUME Goto(k, "parked")
        PROVE  Progress(k) /\ DOMAIN tasks' = DOMAIN tasks
    BY <1>1, <1>6, GotoFacts, Goes DEF Pcs, Waiting
  <1>7. Progress(k) /\ DOMAIN tasks' = DOMAIN tasks
    BY <1>3, <1>4, <1>5, <1>6
  <1>8. InboxTyped' /\ FromOld
    BY <1>3, <1>7, InboxTaken
  <1> QED
    BY <1>1, <1>3, <1>7, <1>8 DEF TaskStep

LEMMA ParkedStep ==
    ASSUME UiTypes, CoreTypes, NEW k \in DOMAIN tasks, AnswerParked(k)
    PROVE  TaskStep(k)
  <1> DEFINE o == ops[tasks[k].req]
  <1>1. o \in Outcomes /\ Observed(k, o)
    BY OpType DEF AnswerParked
  <1>2. \/ Renewed(k, "answered", "unconfirmed")
        \/ Renewed(k, "observe", tasks[k].answer)
        \/ o \in Settled /\ Renewed(k, "answered", o)
    BY <1>1, ObservedFacts
  <1>3. Progress(k) /\ DOMAIN tasks' = DOMAIN tasks
    BY <1>2, Goes, Answers DEF Waiting
  <1> QED
    BY <1>3, InboxSame DEF AnswerParked, TaskStep, uiVars, coreVars

LEMMA LookupStep ==
    ASSUME UiTypes, CoreTypes, HandleLookup
    PROVE  \E k \in DOMAIN tasks : TaskStep(k)
  <1> DEFINE k == Head(inbox).task
  <1>1. k \in DOMAIN tasks
    BY InboxType, TailFacts DEF HandleLookup
  <1>2. tasks[k].req \in Reqs /\ ops[tasks[k].req] \in Outcomes /\ plugin \in Nat
    BY <1>1, OpType DEF CoreTypes, Plugins
  <1>3. /\ inbox # <<>> /\ inbox' = Tail(inbox)
        /\ UNCHANGED <<root, nextId, active, seen, chain, ops>>
        /\ \/ ops[tasks[k].req] \in Settled /\ Answer(k, ops[tasks[k].req])
           \/ Answer(k, "unconfirmed")
           \/ /\ tasks[k].rounds # 0
              /\ tasks' = [tasks EXCEPT ![k].pc = "observe", ![k].opid = plugin, ![k].rounds = @ - 1]
    BY DEF HandleLookup, uiVars, coreVars
  <1> HIDE DEF k
  <1>4. ASSUME ops[tasks[k].req] \in Settled, Answer(k, ops[tasks[k].req])
        PROVE  Progress(k) /\ DOMAIN tasks' = DOMAIN tasks
    BY <1>1, <1>4, AnswerFacts, Answers
  <1>5. ASSUME Answer(k, "unconfirmed")
        PROVE  Progress(k) /\ DOMAIN tasks' = DOMAIN tasks
    BY <1>1, <1>5, AnswerFacts, Answers
  <1>6. ASSUME tasks[k].rounds # 0,
               tasks' = [tasks EXCEPT ![k].pc = "observe", ![k].opid = plugin, ![k].rounds = @ - 1]
        PROVE  Progress(k) /\ DOMAIN tasks' = DOMAIN tasks
    <2>1. Renewed(k, "observe", tasks[k].answer)
      BY <1>1, <1>2, <1>6, RoundFacts
    <2> QED
      BY <1>1, <2>1, Goes DEF Waiting
  <1>7. Progress(k) /\ DOMAIN tasks' = DOMAIN tasks
    BY <1>3, <1>4, <1>5, <1>6
  <1>8. InboxTyped' /\ FromOld
    BY <1>3, <1>7, InboxTaken
  <1> QED
    BY <1>1, <1>3, <1>7, <1>8 DEF TaskStep

(* Every step of a task is one of these.                                   *)
LEMMA TaskSteps ==
    ASSUME UiTypes, CoreTypes, NEW k \in DOMAIN tasks,
           \/ MakeEdit(k) \/ Submit(k) \/ AwaitOperation(k) \/ LookupOperation(k)
           \/ AnswerParked(k) \/ CallTimesOut(k)
    PROVE  TaskStep(k) \/ SubmitStep(k)
  <1>1. CASE MakeEdit(k)
    BY <1>1, MakeEditStep
  <1>2. CASE Submit(k)
    BY <1>2, SubmitKinds
  <1>3. CASE AwaitOperation(k)
    BY <1>3, CallStep DEF AwaitOperation
  <1>4. CASE LookupOperation(k)
    BY <1>4, CallStep DEF LookupOperation
  <1>5. CASE AnswerParked(k)
    BY <1>5, ParkedStep
  <1>6. CASE CallTimesOut(k)
    BY <1>6, TimeoutStep
  <1> QED
    BY <1>1, <1>2, <1>3, <1>4, <1>5, <1>6

(* Rest of the state in the steps of a task: only a revision is made.      *)
LEMMA TaskRest ==
    ASSUME UiTypes, CoreTypes, NEW k \in DOMAIN tasks,
           \/ MakeEdit(k) \/ Submit(k) \/ AwaitOperation(k) \/ LookupOperation(k)
           \/ AnswerParked(k) \/ CallTimesOut(k)
    PROVE  /\ cfg' \in Nat
           /\ UNCHANGED <<pluginVars, chain, ops, intent, vpn, lost, health, user, quiet>>
  <1>1. CASE MakeEdit(k)
    BY <1>1, MakeEditStep DEF MakeEdit
  <1>2. CASE Submit(k) \/ AwaitOperation(k) \/ LookupOperation(k)
    BY <1>2 DEF Submit, AwaitOperation, LookupOperation, Call, coreVars, CoreTypes
  <1>3. CASE AnswerParked(k) \/ CallTimesOut(k)
    BY <1>3 DEF AnswerParked, CallTimesOut, coreVars, CoreTypes
  <1> QED
    BY <1>1, <1>2, <1>3

-----------------------------------------------------------------------------
(* The operation that the UI remembers                                     *)

LEMMA ActiveType ==
    ASSUME UiTypes, active # NoOp
    PROVE  /\ active \in Operations /\ active.id \in Nat \ {0} /\ active.action \in Commands
           /\ active.phase \in {"AwaitingBridge", "Confirming", "Unconfirmed"}
           /\ active.receipt \in 0 .. MaxReqs /\ active.recovery \in Seq(Blockers)
           /\ \A i \in DOMAIN active.recovery :
                 /\ active.recovery[i] \in Blockers /\ active.recovery[i].id \in Nat \ {0}
                 /\ active.recovery[i].action \in Commands /\ active.recovery[i].receipt \in Reqs
                 /\ i \in Nat
  <1>1. active \in Operations
    BY DEF UiTypes
  <1>2. active.recovery \in Seq(Blockers)
    BY <1>1 DEF Operations
  <1>3. \A i \in DOMAIN active.recovery : active.recovery[i] \in Blockers /\ i \in Nat
    BY <1>2, LenProperties
  <1>4. \A i \in DOMAIN active.recovery :
            /\ active.recovery[i].id \in Nat \ {0}
            /\ active.recovery[i].action \in Commands /\ active.recovery[i].receipt \in Reqs
    BY <1>3 DEF Blockers
  <1>5. /\ active.id \in Nat \ {0} /\ active.action \in Commands
        /\ active.phase \in {"AwaitingBridge", "Confirming", "Unconfirmed"}
        /\ active.receipt \in 0 .. MaxReqs
    BY <1>1 DEF Operations
  <1> QED
    BY <1>1, <1>2, <1>3, <1>4, <1>5

LEMMA NoOpFacts ==
    /\ NoOp.id = 0
    /\ \A o \in Operations : o # NoOp
    /\ \A id : Is(id) => active # NoOp /\ active.id = id
  <1>1. NoOp.id = 0
    BY DEF NoOp
  <1>2. \A o \in Operations : o.id # 0
    BY DEF Operations
  <1> QED
    BY <1>1, <1>2 DEF Is

LEMMA OpFacts ==
    ASSUME ConstantsOK, NEW n \in Nat \ {0}, NEW a \in Commands
    PROVE  /\ Op(n, a) \in Operations /\ Op(n, a).id = n /\ Op(n, a).action = a
           /\ Op(n, a).phase = "AwaitingBridge" /\ Op(n, a).receipt = 0
           /\ Op(n, a).recovery = <<>> /\ DOMAIN Op(n, a).recovery = {}
  <1>1. <<>> \in Seq(Blockers) /\ DOMAIN <<>> = {}
    OBVIOUS
  <1>2. 0 \in 0 .. MaxReqs
    BY Numbers
  <1> QED
    BY <1>1, <1>2 DEF Op, Operations

(* The command of the button or of an edit.                                *)
LEMMA BeginFacts ==
    ASSUME ConstantsOK, UiTypes, NEW a \in Commands, active' = Op(nextId + 1, a)
    PROVE  /\ active' \in Operations /\ active'.id = nextId + 1 /\ active'.action = a
           /\ active'.phase = "AwaitingBridge" /\ active'.receipt = 0
           /\ active'.recovery = <<>> /\ DOMAIN active'.recovery = {}
  <1>1. nextId + 1 \in Nat \ {0}
    BY DEF UiTypes
  <1> QED
    BY <1>1, OpFacts

(* The stop fence above what is not known to be over.                      *)
LEMMA FenceFacts ==
    ASSUME ConstantsOK, UiTypes, active # NoOp, active.receipt # 0,
           active' = BeginRecovery(nextId + 1)
    PROVE  /\ active' \in Operations /\ active'.id = nextId + 1 /\ active'.action = "Stop"
           /\ active'.phase = "AwaitingBridge" /\ active'.receipt = 0
           /\ Len(active.recovery) + 1 \in DOMAIN active'.recovery /\ Len(active.recovery) \in Nat
           /\ active'.recovery[Len(active.recovery) + 1].id = active.id
           /\ active'.recovery[Len(active.recovery) + 1].action = active.action
           /\ active'.recovery[Len(active.recovery) + 1].receipt = active.receipt
           /\ \A i \in DOMAIN active.recovery :
                 /\ i \in DOMAIN active'.recovery /\ active'.recovery[i] = active.recovery[i]
                 /\ i < Len(active.recovery) + 1
           /\ \A i \in DOMAIN active'.recovery :
                 i \in DOMAIN active.recovery \/ i = Len(active.recovery) + 1
           /\ active.recovery = <<>> => Len(active.recovery) = 0
  <1> DEFINE b == [id |-> active.id, action |-> active.action, receipt |-> active.receipt]
             n == nextId + 1
             s == Append(active.recovery, b)
  <1>1. b \in Blockers /\ b.id = active.id /\ b.action = active.action /\ b.receipt = active.receipt
    <2>1. active.receipt \in Reqs
      BY ActiveType, Numbers DEF Reqs
    <2> QED
      BY <2>1, ActiveType DEF Blockers
  <1>2. n \in Nat \ {0}
    BY DEF UiTypes
  <1>3. active' = [Op(n, "Stop") EXCEPT !.recovery = s]
    BY DEF BeginRecovery
  <1> HIDE DEF b, n
  <1>4. /\ s \in Seq(Blockers) /\ Len(active.recovery) \in Nat
        /\ \A i \in DOMAIN active.recovery :
              i \in DOMAIN s /\ s[i] = active.recovery[i] /\ i < Len(active.recovery) + 1
        /\ s[Len(active.recovery) + 1] = b
        /\ \A i \in DOMAIN s : i \in DOMAIN active.recovery \/ i = Len(active.recovery) + 1
        /\ DOMAIN s = 1 .. (Len(active.recovery) + 1)
    BY <1>1, ActiveType, AppendFacts
  <1>5. Len(active.recovery) + 1 \in DOMAIN s
    BY <1>4
  <1> HIDE DEF s
  <1>6. Op(n, "Stop") \in Operations /\ Op(n, "Stop").id = n /\ Op(n, "Stop").action = "Stop"
        /\ Op(n, "Stop").phase = "AwaitingBridge" /\ Op(n, "Stop").receipt = 0
    BY <1>2, OpFacts DEF Commands
  <1>7. /\ active' \in Operations /\ active'.id = n /\ active'.action = "Stop"
        /\ active'.phase = "AwaitingBridge" /\ active'.receipt = 0 /\ active'.recovery = s
    BY <1>3, <1>4, <1>6 DEF Operations
  <1>8. active.recovery = <<>> => Len(active.recovery) = 0
    BY EmptySeq, ActiveType
  <1> QED
    BY <1>1, <1>4, <1>5, <1>7, <1>8 DEF n

LEMMA MarkFacts ==
    ASSUME UiTypes, NEW id, Is(id), NEW r \in Reqs, active' = MarkUnconfirmed(id, r)
    PROVE  /\ active' \in Operations /\ active'.id = active.id /\ active'.action = active.action
           /\ active'.phase = "Unconfirmed" /\ active'.receipt = r
           /\ active'.recovery = active.recovery
  <1>1. active \in Operations
    BY NoOpFacts, ActiveType
  <1>2. active' = [active EXCEPT !.phase = "Unconfirmed", !.receipt = r]
    BY DEF MarkUnconfirmed
  <1>3. r \in 0 .. MaxReqs
    BY DEF Reqs
  <1> QED
    BY <1>1, <1>2, <1>3 DEF Operations

LEMMA ConfirmingFacts ==
    ASSUME UiTypes, active # NoOp, active' = [active EXCEPT !.phase = "Confirming"]
    PROVE  /\ active' \in Operations /\ active'.id = active.id /\ active'.action = active.action
           /\ active'.phase = "Confirming" /\ active'.receipt = active.receipt
           /\ active'.recovery = active.recovery
  BY ActiveType DEF Operations

(* A failed fence gives the command below it back.                         *)
LEMMA BackFacts ==
    ASSUME UiTypes, NEW id, Is(id), active' = FinishFailure(id), active.recovery # <<>>
    PROVE  LET n == Len(active.recovery) IN
           /\ n \in DOMAIN active.recovery
           /\ active' \in Operations /\ active'.id = active.recovery[n].id
           /\ active'.action = active.recovery[n].action
           /\ active'.phase = "Unconfirmed" /\ active'.receipt = active.recovery[n].receipt
           /\ \A i \in DOMAIN active'.recovery :
                 /\ i \in DOMAIN active.recovery /\ i < n
                 /\ active'.recovery[i] = active.recovery[i]
           /\ \A i \in DOMAIN active.recovery : i \in DOMAIN active'.recovery \/ i = n
           /\ active'.recovery # <<>> => n # 1
  <1> DEFINE n == Len(active.recovery)
             b == active.recovery[n]
             s == Front(active.recovery)
  <1>1. active # NoOp /\ active.recovery \in Seq(Blockers)
    BY NoOpFacts, ActiveType
  <1>2. /\ s \in Seq(Blockers) /\ n \in DOMAIN active.recovery /\ Last(active.recovery) = b
        /\ \A i \in DOMAIN s : i \in DOMAIN active.recovery /\ i < n /\ s[i] = active.recovery[i]
        /\ \A i \in DOMAIN active.recovery : i \in DOMAIN s \/ i = n
        /\ s # <<>> => n # 1
    BY <1>1, FrontFacts
  <1>3. active' = [id |-> b.id, action |-> b.action, phase |-> "Unconfirmed",
                   receipt |-> b.receipt, recovery |-> s]
    BY <1>2 DEF FinishFailure
  <1>4. b.id \in Nat \ {0} /\ b.action \in Commands /\ b.receipt \in 0 .. MaxReqs
    BY <1>1, <1>2, ActiveType DEF Reqs
  <1> HIDE DEF b, s
  <1>5. /\ active' \in Operations /\ active'.id = b.id /\ active'.action = b.action
        /\ active'.phase = "Unconfirmed" /\ active'.receipt = b.receipt /\ active'.recovery = s
    BY <1>2, <1>3, <1>4 DEF Operations
  <1> QED
    BY <1>2, <1>5 DEF b

-----------------------------------------------------------------------------
(* What the steps of tasks leave of the invariant                          *)

(* The tasks are the same, whatever they have come to.                     *)
Kept ==
    /\ DOMAIN tasks' = DOMAIN tasks
    /\ \A u \in DOMAIN tasks :
          /\ tasks'[u].kind = tasks[u].kind /\ tasks'[u].id = tasks[u].id
          /\ tasks'[u].action = tasks[u].action /\ tasks'[u].root = tasks[u].root
          /\ tasks'[u].req = tasks[u].req

LEMMA KeptCmds ==
    ASSUME Kept
    PROVE  Cmds' = Cmds /\ Cmds \subseteq DOMAIN tasks
  BY DEF Kept, Cmds

LEMMA RenewsKeep ==
    ASSUME NEW k \in DOMAIN tasks, Renews(k)
    PROVE  Kept
  BY DEF Renews, Kept

LEMMA SameKept ==
    ASSUME tasks' = tasks
    PROVE  Kept
  BY DEF Kept

LEMMA KeptTaskInv ==
    ASSUME TaskInv, Kept, UNCHANGED <<root, nextId>>
    PROVE  TaskInv'
  <1>1. Cmds' = Cmds /\ Cmds \subseteq DOMAIN tasks /\ Cardinality(Cmds') = Cardinality(Cmds)
    BY KeptCmds
  <1>2. \A k \in Cmds : tasks'[k].req = tasks[k].req /\ tasks'[k].id = tasks[k].id
                        /\ tasks'[k].root = tasks[k].root
    BY <1>1 DEF Kept
  <1>3. \A k \in Cmds : tasks[k].req <= Cardinality(Cmds)
    BY DEF TaskInv
  <1>4. (\A k \in Cmds : tasks[k].req <= Cardinality(Cmds))'
    BY <1>1, <1>2, <1>3
  <1>5. /\ (\A j, k \in Cmds : tasks[j].req = tasks[k].req => j = k)'
        /\ (\A j, k \in Cmds : tasks[j].root = tasks[k].root /\ j < k => tasks[j].id < tasks[k].id)'
    BY <1>1, <1>2 DEF TaskInv
  <1>6. (\A k \in DOMAIN tasks :
          /\ tasks[k].root <= root
          /\ tasks[k].root = root => tasks[k].id <= nextId
          /\ \E c \in Cmds : /\ tasks[c].root = tasks[k].root /\ tasks[c].id = tasks[k].id
                             /\ tasks[c].req = tasks[k].req)'
    BY <1>1, <1>2 DEF TaskInv, Kept
  <1> QED
    BY <1>4, <1>5, <1>6 DEF TaskInv

LEMMA FlightFromOld ==
    ASSUME FromOld, NEW k
    PROVE  InFlight(k)' => InFlight(k)
  BY DEF FromOld, InFlight

LEMMA ResolvedStays ==
    ASSUME NEW k \in DOMAIN tasks, Kept,
           tasks'[k].pc \in Waiting => tasks[k].pc \in Waiting,
           InFlight(k)' => InFlight(k),
           ops'[tasks[k].req] = "queued" => ops[tasks[k].req] = "queued" \/ InFlight(k)
    PROVE  Resolved(k) => Resolved(k)'
  BY DEF Kept, Resolved, Unresolved, InFlight

LEMMA ResolvedMeans ==
    ASSUME NEW k \in Cmds
    PROVE  Resolved(k) <=> /\ ops[tasks[k].req] # "queued" /\ ~InFlight(k)
                           /\ tasks[k].pc \notin Waiting
  BY DEF Resolved, Unresolved, InFlight, Cmds

LEMMA TaskStepKeeps ==
    ASSUME CommandInv, NEW k \in DOMAIN tasks, Progress(k), FromOld,
           UNCHANGED <<root, nextId, chain, ops>>
    PROVE  /\ TaskInv' /\ SubmitInv' /\ ReceiptInv' /\ OrderInv' /\ Kept
           /\ \A c \in Cmds : Resolved(c) => Resolved(c)'
           /\ \A c \in Cmds : tasks'[c].pc \in Waiting => tasks[c].pc \in Waiting
  <1>1. Kept /\ Cmds' = Cmds /\ Cmds \subseteq DOMAIN tasks
    BY RenewsKeep, KeptCmds DEF Progress
  <1>2. TaskInv'
    BY <1>1, KeptTaskInv DEF CommandInv
  <1>3. \A u \in DOMAIN tasks : u # k => tasks'[u] = tasks[u]
    BY DEF Progress, Renews
  <1>4. \A u \in DOMAIN tasks : tasks'[u].pc \in Waiting =>
            tasks[u].pc \in Waiting /\ tasks'[u].answer = tasks[u].answer
    BY <1>3 DEF Progress
  <1>5. \A c \in Cmds : Resolved(c) => Resolved(c)'
    BY <1>1, <1>4, FlightFromOld, ResolvedStays
  <1>6. SubmitInv'
    <2>1. ASSUME NEW i \in DOMAIN inbox', inbox'[i].call = "submitting"
          PROVE  /\ inbox'[i].task \in Cmds' /\ tasks'[inbox'[i].task].pc \notin Waiting
                 /\ ops'[tasks'[inbox'[i].task].req] = "none"
      <3>1. PICK u \in DOMAIN inbox : inbox[u] = inbox'[i]
        BY <2>1 DEF FromOld
      <3>2. /\ inbox[u].task \in Cmds /\ tasks[inbox[u].task].pc \notin Waiting
            /\ ops[tasks[inbox[u].task].req] = "none"
        BY <2>1, <3>1 DEF CommandInv, SubmitInv
      <3> QED
        BY <1>1, <1>4, <3>1, <3>2 DEF Kept
    <2>2. ASSUME NEW i \in DOMAIN inbox', NEW j \in DOMAIN inbox',
                 inbox'[i].call = "submitting", inbox'[j].call = "submitting",
                 inbox'[i].task = inbox'[j].task
          PROVE  i = j
      <3>1. PICK u \in DOMAIN inbox, v \in DOMAIN inbox :
                inbox[u] = inbox'[i] /\ inbox[v] = inbox'[j] /\ (u = v => i = j)
        BY <2>2 DEF FromOld
      <3>2. u = v
        BY <2>2, <3>1 DEF CommandInv, SubmitInv
      <3> QED
        BY <3>1, <3>2
    <2>3. ASSUME NEW u \in DOMAIN tasks, tasks'[u].pc \in Waiting
          PROVE  u \in Cmds' /\ tasks'[u].answer = "none" /\ ops'[tasks'[u].req] = "none"
      <3>1. u \in Cmds /\ tasks[u].answer = "none" /\ ops[tasks[u].req] = "none"
        BY <1>4, <2>3 DEF CommandInv, SubmitInv
      <3> QED
        BY <1>1, <1>4, <2>3, <3>1 DEF Kept
    <2>4. ASSUME NEW u \in DOMAIN tasks, tasks'[u].pc = "answered"
          PROVE  tasks'[u].answer # "none"
      BY <1>3, <2>4 DEF CommandInv, SubmitInv, Progress
    <2>5. ASSUME NEW u \in DOMAIN tasks, tasks'[u].answer \in {"true", "false"}
          PROVE  ops'[tasks'[u].req] = tasks'[u].answer
      <3>1. \/ tasks'[u].answer = tasks[u].answer
            \/ tasks'[u].answer = ops[tasks[u].req]
        BY <1>3, <2>5 DEF Progress
      <3>2. tasks'[u].req = tasks[u].req
        BY <1>1 DEF Kept
      <3>3. tasks[u].answer \in {"true", "false"} => ops[tasks[u].req] = tasks[u].answer
        BY DEF CommandInv, SubmitInv
      <3> QED
        BY <2>5, <3>1, <3>2, <3>3
    <2>6. ASSUME NEW u \in DOMAIN tasks, tasks'[u].answer \in Settled,
                 NEW c \in Cmds, tasks'[c].req = tasks'[u].req
          PROVE  Resolved(c)'
      <3>1. tasks[c].req = tasks[u].req
        BY <1>1, <2>6 DEF Kept
      <3>2. CASE tasks'[u].answer = tasks[u].answer
        <4>1. Resolved(c)
          BY <2>6, <3>1, <3>2 DEF CommandInv, SubmitInv
        <4> QED
          BY <1>5, <4>1
      <3>3. CASE tasks'[u].answer = ops[tasks[u].req]
        <4>1. ops[tasks[c].req] \in Settled
          BY <2>6, <3>1, <3>3
        <4>2. ops[tasks[c].req] # "queued" /\ ops[tasks[c].req] # "none"
          BY <4>1 DEF Settled
        <4>3. tasks[c].pc \notin Waiting /\ ~InFlight(c)
          BY <1>1, <4>2 DEF CommandInv, SubmitInv, InFlight
        <4> QED
          BY <1>5, <4>2, <4>3, ResolvedMeans
      <3>4. CASE u = k /\ tasks[k].pc \in Waiting /\ tasks'[k].pc = "answered"
        <4>1. k \in Cmds /\ ops[tasks[k].req] = "none"
          BY <3>4 DEF CommandInv, SubmitInv
        <4>2. c = k
          BY <3>1, <3>4, <4>1 DEF CommandInv, TaskInv
        <4>3. ~InFlight(k)
          BY <3>4 DEF CommandInv, SubmitInv, InFlight
        <4>4. ~InFlight(k)' /\ ops'[tasks'[k].req] = "none"
          BY <1>1, <4>1, <4>3, FlightFromOld DEF Kept
        <4> QED
          BY <3>4, <4>2, <4>4 DEF Resolved, Unresolved, InFlight, Waiting
      <3> QED
        BY <1>3, <2>6, <3>2, <3>3, <3>4 DEF Progress, Settled
    <2> QED
      BY <1>1, <2>1, <2>2, <2>3, <2>4, <2>5, <2>6 DEF SubmitInv, Kept
  <1>7. ReceiptInv'
    BY <1>1 DEF CommandInv, ReceiptInv, Kept
  <1>8. OrderInv'
    <2> SUFFICES ASSUME NEW j \in Cmds, NEW u \in Cmds, Before(j, u)'
                 PROVE  /\ \A p, q \in DOMAIN inbox' :
                              /\ inbox'[p].call = "submitting" /\ inbox'[p].task = j
                              /\ inbox'[q].call = "submitting" /\ inbox'[q].task = u
                              => p < q
                        /\ ops'[tasks'[u].req] # "none" => ~InFlight(j)'
                        /\ tasks'[u].action = "Stop" =>
                              /\ \A a, b \in DOMAIN chain' :
                                    tasks'[j].req \in chain'[a].reqs /\ tasks'[u].req \in chain'[b].reqs
                                    => a < b
                              /\ ops'[tasks'[u].req] \in {"true", "false"} => ops'[tasks'[j].req] # "queued"
      BY <1>1 DEF OrderInv
    <2>1. Before(j, u)
      BY <1>1 DEF Before, Kept
    <2>2. ASSUME NEW p \in DOMAIN inbox', NEW q \in DOMAIN inbox',
                 inbox'[p].call = "submitting", inbox'[p].task = j,
                 inbox'[q].call = "submitting", inbox'[q].task = u
          PROVE  p < q
      <3>1. PICK x \in DOMAIN inbox, y \in DOMAIN inbox :
                inbox[x] = inbox'[p] /\ inbox[y] = inbox'[q] /\ (x < y => p < q)
        BY <2>2 DEF FromOld
      <3>2. x < y
        BY <2>1, <2>2, <3>1 DEF CommandInv, OrderInv
      <3> QED
        BY <3>1, <3>2
    <2>3. ops'[tasks'[u].req] # "none" => ~InFlight(j)'
      BY <1>1, <2>1, FlightFromOld DEF CommandInv, OrderInv, Kept
    <2>4. tasks'[u].action = "Stop" =>
              /\ \A a, b \in DOMAIN chain' :
                    tasks'[j].req \in chain'[a].reqs /\ tasks'[u].req \in chain'[b].reqs => a < b
              /\ ops'[tasks'[u].req] \in {"true", "false"} => ops'[tasks'[j].req] # "queued"
      BY <1>1, <2>1 DEF CommandInv, OrderInv, Kept
    <2> QED
      BY <2>2, <2>3, <2>4
  <1>9. \A c \in Cmds : tasks'[c].pc \in Waiting => tasks[c].pc \in Waiting
    BY <1>1, <1>4
  <1> QED
    BY <1>1, <1>2, <1>5, <1>6, <1>7, <1>8, <1>9

LEMMA OfCommandStays ==
    ASSUME Kept, root' = root, NEW id, NEW a, NEW r, OfCommand(id, a, r)
    PROVE  \E c \in Cmds' : /\ tasks'[c].root = root' /\ tasks'[c].id = id /\ tasks'[c].action = a
                            /\ r = 0 \/ tasks'[c].req = r
  <1>1. Cmds' = Cmds /\ Cmds \subseteq DOMAIN tasks
    BY KeptCmds
  <1>2. PICK c \in Cmds : /\ tasks[c].root = root /\ tasks[c].id = id /\ tasks[c].action = a
                          /\ r = 0 \/ tasks[c].req = r
    BY DEF OfCommand
  <1>3. /\ tasks'[c].root = root' /\ tasks'[c].id = id /\ tasks'[c].action = a
        /\ tasks'[c].req = tasks[c].req
    BY <1>1, <1>2 DEF Kept
  <1> QED
    BY <1>1, <1>2, <1>3

(* Nothing is forgotten while the operation state stays.                   *)
LEMMA RememberStays ==
    ASSUME RememberInv, Kept, UNCHANGED <<root, nextId, active>>,
           \A c \in Cmds : Resolved(c) => Resolved(c)',
           \A c \in Cmds : tasks'[c].pc \in Waiting => tasks[c].pc \in Waiting
    PROVE  RememberInv'
  <1>1. Cmds' = Cmds /\ Cmds \subseteq DOMAIN tasks /\ DOMAIN tasks' = DOMAIN tasks
    BY KeptCmds DEF Kept
  <1>2. \A u \in DOMAIN tasks : tasks'[u].root = tasks[u].root /\ tasks'[u].id = tasks[u].id
    BY DEF Kept
  <1>3. Remembered' = Remembered
    BY DEF Remembered
  <1>4. ASSUME active # NoOp
        PROVE  /\ active.id <= nextId
               /\ OfCommand(active.id, active.action, active.receipt)'
               /\ active.phase = "AwaitingBridge" =>
                     /\ active.id = nextId
                     /\ \A k \in DOMAIN tasks' \ Cmds' :
                           ~(tasks'[k].root = root' /\ tasks'[k].id = active.id)
               /\ active.phase # "AwaitingBridge" => active.receipt # 0
               /\ active.recovery # <<>> => active.action = "Stop"
    <2>1. OfCommand(active.id, active.action, active.receipt)'
      <3>1. OfCommand(active.id, active.action, active.receipt)
        BY <1>4 DEF RememberInv
      <3>2. \E c \in Cmds' : /\ tasks'[c].root = root' /\ tasks'[c].id = active.id
                             /\ tasks'[c].action = active.action
                             /\ (active.receipt = 0 \/ tasks'[c].req = active.receipt)
        BY <3>1, OfCommandStays
      <3> QED
        BY <3>2 DEF OfCommand
    <2> QED
      BY <1>1, <1>2, <1>4, <2>1 DEF RememberInv
  <1>5. ASSUME active # NoOp, NEW i \in DOMAIN active.recovery
        PROVE  /\ OfCommand(active.recovery[i].id, active.recovery[i].action,
                            active.recovery[i].receipt)'
               /\ active.recovery[i].id < active.id
               /\ i # 1 => active.recovery[i].action = "Stop"
               /\ \A j \in DOMAIN active.recovery :
                      i < j => active.recovery[i].id < active.recovery[j].id
    <2>1. OfCommand(active.recovery[i].id, active.recovery[i].action, active.recovery[i].receipt)'
      <3>1. OfCommand(active.recovery[i].id, active.recovery[i].action, active.recovery[i].receipt)
        BY <1>5 DEF RememberInv
      <3>2. \E c \in Cmds' : /\ tasks'[c].root = root' /\ tasks'[c].id = active.recovery[i].id
                             /\ tasks'[c].action = active.recovery[i].action
                             /\ (active.recovery[i].receipt = 0 \/ tasks'[c].req = active.recovery[i].receipt)
        BY <3>1, OfCommandStays
      <3> QED
        BY <3>2 DEF OfCommand
    <2> QED
      BY <1>5, <2>1 DEF RememberInv
  <1>6. ASSUME NEW k \in Cmds, tasks'[k].root = root
        PROVE  /\ tasks'[k].pc \in Waiting =>
                     active # NoOp /\ active.id = tasks'[k].id /\ active.phase = "AwaitingBridge"
               /\ ~Resolved(k)' => tasks'[k].id \in Remembered'
    BY <1>1, <1>2, <1>3, <1>6 DEF RememberInv
  <1> QED
    BY <1>1, <1>4, <1>5, <1>6 DEF RememberInv

LEMMA TaskStepRemembers ==
    ASSUME CommandInv, NEW k \in DOMAIN tasks, TaskStep(k)
    PROVE  /\ TaskInv' /\ SubmitInv' /\ ReceiptInv' /\ OrderInv' /\ RememberInv'
  BY TaskStepKeeps, RememberStays DEF TaskStep, CommandInv

(* A command that waits is the active one, and there is none after it.     *)
LEMMA WaitingIsNewest ==
    ASSUME CommandInv, NEW k \in Cmds, tasks[k].root = root, tasks[k].pc \in Waiting
    PROVE  /\ active # NoOp /\ active.id = tasks[k].id /\ active.phase = "AwaitingBridge"
           /\ tasks[k].id = nextId /\ nextId \in Nat
           /\ \A j \in DOMAIN tasks : ~Before(k, j)
  <1>1. active # NoOp /\ active.id = tasks[k].id /\ active.phase = "AwaitingBridge"
    BY DEF CommandInv, RememberInv
  <1>2. tasks[k].id = nextId /\ nextId \in Nat
    BY <1>1 DEF CommandInv, RememberInv, Types, UiTypes
  <1>3. ASSUME NEW j \in DOMAIN tasks
        PROVE  ~Before(k, j)
    <2>1. tasks[j].id \in Nat /\ (tasks[j].root = root => tasks[j].id <= nextId)
      BY TaskType DEF CommandInv, TaskInv, Types
    <2> QED
      BY <1>2, <2>1 DEF Before
  <1> QED
    BY <1>1, <1>2, <1>3

(* The submission of a request is the last one on its way.                 *)
LEMMA SubmitKeeps ==
    ASSUME CommandInv, NEW k \in DOMAIN tasks, SubmitStep(k)
    PROVE  /\ TaskInv' /\ SubmitInv' /\ ReceiptInv' /\ OrderInv' /\ RememberInv' /\ InboxTyped'
           /\ tasks' \in Seq(TaskRecs)
  <1> DEFINE n == Len(inbox) + 1
  <1>1. Kept /\ Cmds' = Cmds /\ Cmds \subseteq DOMAIN tasks /\ UiTypes
    BY RenewsKeep, KeptCmds DEF SubmitStep, Renewed, CommandInv, Types
  <1>2. TaskInv'
    BY <1>1, KeptTaskInv DEF CommandInv, SubmitStep
  <1>3. /\ \A u \in DOMAIN tasks : u # k => tasks'[u] = tasks[u]
        /\ tasks'[k].pc = "submitting" /\ tasks'[k].answer = tasks[k].answer
        /\ tasks' \in Seq(TaskRecs)
    BY DEF SubmitStep, Renewed, Renews
  <1>4. k \in Cmds /\ tasks[k].answer = "none" /\ ops[tasks[k].req] = "none" /\ tasks[k].pc \in Waiting
    BY DEF CommandInv, SubmitInv, SubmitStep, Waiting
  <1>5. ~InFlight(k)
    BY <1>4 DEF CommandInv, SubmitInv, InFlight
  <1>6. /\ InboxTyped' /\ n \in DOMAIN inbox' /\ n \in Nat
        /\ inbox'[n] = [task |-> k, call |-> "submitting"]
        /\ \A i \in DOMAIN inbox : i \in DOMAIN inbox' /\ inbox'[i] = inbox[i] /\ i < n
        /\ \A i \in DOMAIN inbox' : i \in DOMAIN inbox \/ i = n
    BY <1>1, InboxAppended DEF SubmitStep, Calls, Kept
  <1> HIDE DEF n
  <1>7. inbox'[n].task = k /\ inbox'[n].call = "submitting"
    BY <1>6
  <1>8. \A u \in DOMAIN tasks : u # k => (InFlight(u)' => InFlight(u))
    BY <1>6, <1>7 DEF InFlight
  <1>9. \A u \in DOMAIN tasks : tasks'[u].pc \in Waiting => u # k /\ tasks[u].pc \in Waiting
    BY <1>3 DEF Waiting
  <1>10. \A c \in Cmds : Resolved(c) => Resolved(c)'
    <2> SUFFICES ASSUME NEW c \in Cmds, Resolved(c)
                 PROVE  Resolved(c)'
      OBVIOUS
    <2>1. c # k
      BY <1>4 DEF Resolved
    <2> QED
      BY <1>1, <1>8, <1>9, <2>1, ResolvedStays DEF SubmitStep
  <1>11. SubmitInv'
    <2>1. ASSUME NEW i \in DOMAIN inbox', inbox'[i].call = "submitting"
          PROVE  /\ inbox'[i].task \in Cmds' /\ tasks'[inbox'[i].task].pc \notin Waiting
                 /\ ops'[tasks'[inbox'[i].task].req] = "none"
      <3>1. CASE i = n
        BY <1>1, <1>3, <1>4, <1>7, <3>1 DEF SubmitStep, Kept, Waiting
      <3>2. CASE i \in DOMAIN inbox
        <4>1. /\ inbox[i].task \in Cmds /\ tasks[inbox[i].task].pc \notin Waiting
              /\ ops[tasks[inbox[i].task].req] = "none" /\ inbox'[i] = inbox[i]
          BY <1>6, <2>1, <3>2 DEF CommandInv, SubmitInv
        <4> QED
          BY <1>1, <1>9, <4>1 DEF SubmitStep, Kept
      <3> QED
        BY <1>6, <3>1, <3>2
    <2>2. ASSUME NEW i \in DOMAIN inbox', NEW j \in DOMAIN inbox',
                 inbox'[i].call = "submitting", inbox'[j].call = "submitting",
                 inbox'[i].task = inbox'[j].task
          PROVE  i = j
      <3>1. CASE i \in DOMAIN inbox /\ j \in DOMAIN inbox
        BY <1>6, <2>2, <3>1 DEF CommandInv, SubmitInv
      <3>2. \A u \in DOMAIN inbox : inbox[u].call = "submitting" => inbox[u].task # k
        BY <1>5 DEF InFlight
      <3>3. CASE i = n \/ j = n
        BY <1>6, <1>7, <2>2, <3>2, <3>3
      <3> QED
        BY <1>6, <3>1, <3>3
    <2>3. ASSUME NEW u \in DOMAIN tasks, tasks'[u].pc \in Waiting
          PROVE  u \in Cmds' /\ tasks'[u].answer = "none" /\ ops'[tasks'[u].req] = "none"
      <3>1. u # k /\ u \in Cmds /\ tasks[u].answer = "none" /\ ops[tasks[u].req] = "none"
        BY <1>9, <2>3 DEF CommandInv, SubmitInv
      <3> QED
        BY <1>1, <1>3, <3>1 DEF SubmitStep
    <2>4. ASSUME NEW u \in DOMAIN tasks
          PROVE  /\ tasks'[u].pc = "answered" => tasks'[u].answer # "none"
                 /\ tasks'[u].answer = tasks[u].answer /\ tasks'[u].req = tasks[u].req
      BY <1>1, <1>3 DEF CommandInv, SubmitInv, Kept
    <2>5. ASSUME NEW u \in DOMAIN tasks, tasks'[u].answer \in {"true", "false"}
          PROVE  ops'[tasks'[u].req] = tasks'[u].answer
      BY <2>4, <2>5 DEF CommandInv, SubmitInv, SubmitStep
    <2>6. ASSUME NEW u \in DOMAIN tasks, tasks'[u].answer \in Settled,
                 NEW c \in Cmds, tasks'[c].req = tasks'[u].req
          PROVE  Resolved(c)'
      <3>1. Resolved(c)
        BY <1>1, <2>4, <2>6 DEF CommandInv, SubmitInv
      <3> QED
        BY <1>10, <3>1
    <2> QED
      BY <1>1, <2>1, <2>2, <2>3, <2>4, <2>5, <2>6 DEF SubmitInv, Kept
  <1>12. ReceiptInv'
    BY <1>1 DEF CommandInv, ReceiptInv, Kept, SubmitStep
  <1>13. OrderInv'
    <2> SUFFICES ASSUME NEW j \in Cmds, NEW u \in Cmds, Before(j, u)'
                 PROVE  /\ \A p, q \in DOMAIN inbox' :
                              /\ inbox'[p].call = "submitting" /\ inbox'[p].task = j
                              /\ inbox'[q].call = "submitting" /\ inbox'[q].task = u
                              => p < q
                        /\ ops'[tasks'[u].req] # "none" => ~InFlight(j)'
                        /\ tasks'[u].action = "Stop" =>
                              /\ \A a, b \in DOMAIN chain' :
                                    tasks'[j].req \in chain'[a].reqs /\ tasks'[u].req \in chain'[b].reqs
                                    => a < b
                              /\ ops'[tasks'[u].req] \in {"true", "false"} => ops'[tasks'[j].req] # "queued"
      BY <1>1 DEF OrderInv
    <2>1. Before(j, u)
      BY <1>1 DEF Before, Kept, SubmitStep
    <2>2. j # k
      BY <1>1, <1>4, <2>1, WaitingIsNewest DEF Before
    <2>3. ASSUME NEW p \in DOMAIN inbox', NEW q \in DOMAIN inbox',
                 inbox'[p].call = "submitting", inbox'[p].task = j,
                 inbox'[q].call = "submitting", inbox'[q].task = u
          PROVE  p < q
      <3>1. p \in DOMAIN inbox /\ inbox[p] = inbox'[p] /\ p < n
        BY <1>6, <1>7, <2>2, <2>3
      <3>2. CASE q \in DOMAIN inbox
        BY <1>6, <2>1, <2>3, <3>1, <3>2 DEF CommandInv, OrderInv
      <3> QED
        BY <1>6, <3>1, <3>2
    <2>4. ops'[tasks'[u].req] # "none" => ~InFlight(j)'
      BY <1>1, <1>8, <2>1, <2>2 DEF CommandInv, OrderInv, Kept, SubmitStep
    <2>5. tasks'[u].action = "Stop" =>
              /\ \A a, b \in DOMAIN chain' :
                    tasks'[j].req \in chain'[a].reqs /\ tasks'[u].req \in chain'[b].reqs => a < b
              /\ ops'[tasks'[u].req] \in {"true", "false"} => ops'[tasks'[j].req] # "queued"
      BY <1>1, <2>1 DEF CommandInv, OrderInv, Kept, SubmitStep
    <2> QED
      BY <2>3, <2>4, <2>5
  <1>14. RememberInv'
    BY <1>1, <1>9, <1>10, RememberStays DEF CommandInv, SubmitStep
  <1> QED
    BY <1>2, <1>3, <1>6, <1>11, <1>12, <1>13, <1>14

-----------------------------------------------------------------------------
(* Completions                                                             *)

LEMMA SameCommand ==
    ASSUME UiTypes, TaskInv, NEW c \in Cmds, NEW d \in Cmds,
           tasks[c].root = tasks[d].root, tasks[c].id = tasks[d].id
    PROVE  c = d
  <1>1. c \in Nat /\ d \in Nat /\ tasks[c].id \in Nat
    BY TaskType DEF Cmds
  <1>2. ~(c < d) /\ ~(d < c)
    BY <1>1 DEF TaskInv
  <1> QED
    BY <1>1, <1>2

(* The command that a completion of the active operation is about; no      *)
(* command is waiting then.                                                *)
About(k, c) ==
    /\ tasks[c].root = root /\ tasks[c].id = active.id /\ tasks[c].req = tasks[k].req
    /\ tasks[c].action = active.action
    /\ \A d \in Cmds : tasks[d].root = root /\ tasks[d].id = active.id => d = c
    /\ \A d \in Cmds : tasks[d].root = root => tasks[d].pc \notin Waiting
    /\ tasks[k].kind = "command" => k = c
    /\ tasks[k].answer \in Settled => Resolved(c)

LEMMA Completed ==
    ASSUME CommandInv, NEW k \in DOMAIN tasks, tasks[k].root = root, Is(tasks[k].id),
           tasks[k].pc = "answered"
    PROVE  \E c \in Cmds : About(k, c)
  <1>1. active # NoOp /\ active.id = tasks[k].id /\ UiTypes /\ TaskInv
    BY NoOpFacts DEF CommandInv, Types
  <1>2. PICK c \in Cmds : /\ tasks[c].root = root /\ tasks[c].id = active.id
                          /\ tasks[c].req = tasks[k].req
    BY <1>1 DEF TaskInv
  <1>3. \A d \in Cmds : tasks[d].root = root /\ tasks[d].id = active.id => d = c
    BY <1>1, <1>2, SameCommand
  <1>4. tasks[c].action = active.action
    BY <1>1, <1>3 DEF CommandInv, RememberInv, OfCommand
  <1>5. tasks[k].kind = "command" => k = c
    BY <1>1, <1>3 DEF Cmds
  <1>6. ASSUME NEW d \in Cmds, tasks[d].root = root, tasks[d].pc \in Waiting
        PROVE  FALSE
    <2>1. active.id = tasks[d].id /\ active.phase = "AwaitingBridge"
      BY <1>6 DEF CommandInv, RememberInv
    <2>2. d = c
      BY <1>3, <1>6, <2>1
    <2>3. k \in Cmds
      BY <1>1, <2>1 DEF CommandInv, RememberInv
    <2>4. k = c
      BY <1>5, <2>3 DEF Cmds
    <2> QED
      BY <1>6, <2>2, <2>4 DEF Waiting
  <1>7. tasks[k].answer \in Settled => Resolved(c)
    BY <1>2 DEF CommandInv, SubmitInv
  <1> QED
    BY <1>2, <1>3, <1>4, <1>5, <1>6, <1>7 DEF About

(* With nothing left to remember.                                          *)
LEMMA NothingLeft ==
    ASSUME active' = NoOp, Cmds' = Cmds, Kept, root' = root,
           \A d \in Cmds : tasks[d].root = root => Resolved(d)'
    PROVE  RememberInv'
  <1>1. \A d \in Cmds : tasks'[d].root = tasks[d].root
    BY KeptCmds DEF Kept
  <1>2. \A d \in Cmds : Resolved(d)' => tasks'[d].pc \notin Waiting
    BY DEF Resolved
  <1> QED
    BY <1>1, <1>2 DEF RememberInv

(* An unconfirmed answer names the receipt to ask for.                     *)
LEMMA MarkRemembers ==
    ASSUME CommandInv, NEW k \in DOMAIN tasks, NEW c \in Cmds, About(k, c), Is(tasks[k].id),
           active' = MarkUnconfirmed(tasks[k].id, tasks[k].req),
           Kept, UNCHANGED <<root, nextId>>,
           \A d \in Cmds : Resolved(d) => Resolved(d)',
           \A d \in Cmds : tasks'[d].pc \in Waiting => tasks[d].pc \in Waiting
    PROVE  RememberInv' /\ active' \in Operations
  <1>1. UiTypes /\ active # NoOp
    BY NoOpFacts DEF CommandInv, Types
  <1>2. tasks[k].req \in Reqs /\ tasks[k].req # 0
    BY <1>1, TaskType DEF Reqs
  <1>3. /\ active' \in Operations /\ active'.id = active.id /\ active'.action = active.action
        /\ active'.phase = "Unconfirmed" /\ active'.receipt = tasks[k].req
        /\ active'.recovery = active.recovery
    BY <1>1, <1>2, MarkFacts
  <1>4. active' # NoOp
    BY <1>3, NoOpFacts
  <1>5. Cmds' = Cmds /\ Cmds \subseteq DOMAIN tasks
    BY KeptCmds
  <1>6. \A d \in Cmds : tasks'[d].root = tasks[d].root /\ tasks'[d].id = tasks[d].id
    BY <1>5 DEF Kept
  <1>7. OfCommand(active.id, active.action, active.receipt)'
    <2>1. OfCommand(active.id, active.action, tasks[k].req)
      BY DEF About, OfCommand
    <2>2. \E d \in Cmds' : /\ tasks'[d].root = root' /\ tasks'[d].id = active.id
                           /\ tasks'[d].action = active.action
                           /\ (tasks[k].req = 0 \/ tasks'[d].req = tasks[k].req)
      BY <2>1, OfCommandStays
    <2> QED
      BY <1>3, <2>2 DEF OfCommand
  <1>8. ASSUME NEW i \in DOMAIN active.recovery
        PROVE  OfCommand(active.recovery[i].id, active.recovery[i].action,
                         active.recovery[i].receipt)'
    <2>1. OfCommand(active.recovery[i].id, active.recovery[i].action, active.recovery[i].receipt)
      BY <1>1 DEF CommandInv, RememberInv
    <2>2. \E d \in Cmds' : /\ tasks'[d].root = root' /\ tasks'[d].id = active.recovery[i].id
                           /\ tasks'[d].action = active.recovery[i].action
                           /\ (active.recovery[i].receipt = 0
                               \/ tasks'[d].req = active.recovery[i].receipt)
      BY <2>1, OfCommandStays
    <2> QED
      BY <1>3, <2>2 DEF OfCommand
  <1>9. Remembered' = Remembered
    BY <1>1, <1>3, <1>4 DEF Remembered
  <1>10. ASSUME NEW d \in Cmds, tasks'[d].root = root
         PROVE  tasks'[d].pc \notin Waiting /\ (~Resolved(d)' => tasks'[d].id \in Remembered')
    BY <1>6, <1>9, <1>10 DEF About, CommandInv, RememberInv
  <1>11. /\ active'.id <= nextId' /\ (active'.recovery # <<>> => active'.action = "Stop")
         /\ \A i \in DOMAIN active'.recovery :
               /\ active'.recovery[i].id < active'.id
               /\ i # 1 => active'.recovery[i].action = "Stop"
               /\ \A j \in DOMAIN active'.recovery :
                     i < j => active'.recovery[i].id < active'.recovery[j].id
    BY <1>1, <1>3 DEF CommandInv, RememberInv
  <1>12. active'.phase # "AwaitingBridge" /\ active'.receipt # 0
    BY <1>2, <1>3
  <1>13. \A i \in DOMAIN active'.recovery :
             OfCommand(active.recovery[i].id, active.recovery[i].action, active.recovery[i].receipt)'
    BY <1>3, <1>8
  <1> QED
    BY <1>3, <1>5, <1>7, <1>10, <1>11, <1>12, <1>13 DEF RememberInv

(* The command below a failed fence is the active one again.               *)
LEMMA BackRemembers ==
    ASSUME CommandInv, NEW k \in DOMAIN tasks, NEW c \in Cmds, About(k, c), Is(tasks[k].id),
           active' = FinishFailure(tasks[k].id), active.recovery # <<>>, Resolved(c)',
           Kept, UNCHANGED <<root, nextId>>,
           \A d \in Cmds : Resolved(d) => Resolved(d)',
           \A d \in Cmds : tasks'[d].pc \in Waiting => tasks[d].pc \in Waiting
    PROVE  RememberInv' /\ active' \in Operations
  <1> DEFINE n == Len(active.recovery)
  <1>1. UiTypes /\ active # NoOp
    BY NoOpFacts DEF CommandInv, Types
  <1>2. /\ n \in DOMAIN active.recovery
        /\ active' \in Operations /\ active'.id = active.recovery[n].id
        /\ active'.action = active.recovery[n].action
        /\ active'.phase = "Unconfirmed" /\ active'.receipt = active.recovery[n].receipt
        /\ \A i \in DOMAIN active'.recovery :
              /\ i \in DOMAIN active.recovery /\ i < n
              /\ active'.recovery[i] = active.recovery[i]
        /\ \A i \in DOMAIN active.recovery : i \in DOMAIN active'.recovery \/ i = n
        /\ active'.recovery # <<>> => n # 1
    BY <1>1, BackFacts
  <1> HIDE DEF n
  <1>3. active' # NoOp /\ active.recovery[n].receipt # 0
    BY <1>1, <1>2, NoOpFacts, ActiveType DEF Reqs
  <1>4. Cmds' = Cmds /\ Cmds \subseteq DOMAIN tasks
    BY KeptCmds
  <1>5. \A d \in Cmds : tasks'[d].root = tasks[d].root /\ tasks'[d].id = tasks[d].id
    BY <1>4 DEF Kept
  <1>6. ASSUME NEW i \in DOMAIN active.recovery
        PROVE  \E d \in Cmds' : /\ tasks'[d].root = root' /\ tasks'[d].id = active.recovery[i].id
                                /\ tasks'[d].action = active.recovery[i].action
                                /\ (active.recovery[i].receipt = 0
                                    \/ tasks'[d].req = active.recovery[i].receipt)
    <2>1. OfCommand(active.recovery[i].id, active.recovery[i].action, active.recovery[i].receipt)
      BY <1>1 DEF CommandInv, RememberInv
    <2> QED
      BY <2>1, OfCommandStays
  <1>7. OfCommand(active.id, active.action, active.receipt)'
    BY <1>2, <1>6 DEF OfCommand
  <1>8. \A i \in DOMAIN active'.recovery :
            OfCommand(active.recovery[i].id, active.recovery[i].action, active.recovery[i].receipt)'
    BY <1>2, <1>6 DEF OfCommand
  <1>9. \A x \in Remembered : x = active.id \/ x \in Remembered'
    BY <1>1, <1>2, <1>3 DEF Remembered
  <1>10. ASSUME NEW d \in Cmds, tasks'[d].root = root
         PROVE  tasks'[d].pc \notin Waiting /\ (~Resolved(d)' => tasks'[d].id \in Remembered')
    <2>1. tasks[d].root = root /\ tasks'[d].id = tasks[d].id
      BY <1>5, <1>10
    <2>2. tasks'[d].pc \notin Waiting
      BY <2>1 DEF About
    <2>3. ASSUME ~Resolved(d)'
          PROVE  tasks[d].id \in Remembered'
      <3>1. tasks[d].id \in Remembered
        BY <2>1, <2>3 DEF CommandInv, RememberInv
      <3>2. tasks[d].id # active.id
        BY <2>1, <2>3 DEF About
      <3> QED
        BY <1>9, <3>1, <3>2
    <2> QED
      BY <2>1, <2>2, <2>3
  <1>11. /\ active'.id <= nextId' /\ (active'.recovery # <<>> => active'.action = "Stop")
         /\ \A i \in DOMAIN active'.recovery :
               /\ active'.recovery[i].id < active'.id
               /\ i # 1 => active'.recovery[i].action = "Stop"
               /\ \A j \in DOMAIN active'.recovery :
                     i < j => active'.recovery[i].id < active'.recovery[j].id
    <2>1. /\ active.id <= nextId
          /\ \A i \in DOMAIN active.recovery :
               /\ active.recovery[i].id < active.id
               /\ i # 1 => active.recovery[i].action = "Stop"
               /\ \A j \in DOMAIN active.recovery :
                     i < j => active.recovery[i].id < active.recovery[j].id
      BY <1>1 DEF CommandInv, RememberInv
    <2>2. active'.id <= nextId'
      <3>1. active.recovery[n].id < active.id /\ active.id \in Nat /\ nextId \in Nat
            /\ active.recovery[n].id \in Nat
        BY <1>1, <1>2, <2>1, ActiveType DEF UiTypes
      <3> QED
        BY <1>2, <2>1, <3>1
    <2> QED
      BY <1>2, <2>1, <2>2
  <1>12. active'.phase # "AwaitingBridge" /\ active'.receipt # 0
    BY <1>2, <1>3
  <1> QED
    BY <1>2, <1>4, <1>7, <1>8, <1>10, <1>11, <1>12 DEF RememberInv

(* A stop that was applied has ended whatever it fenced.                   *)
LEMMA SuccessEndsAll ==
    ASSUME CommandInv, NEW k \in DOMAIN tasks, NEW c \in Cmds, About(k, c), Is(tasks[k].id),
           tasks[k].answer \in {"true", "false"},
           NEW d \in Cmds, tasks[d].root = root
    PROVE  Resolved(d)
  <1>1. active # NoOp /\ UiTypes /\ Resolved(c) /\ ops[tasks[c].req] = tasks[k].answer
    BY NoOpFacts DEF CommandInv, Types, About, Settled, SubmitInv
  <1>2. ASSUME NEW i \in DOMAIN active.recovery, tasks[d].id = active.recovery[i].id
        PROVE  Resolved(d)
    <2>1. active.recovery # <<>>
      BY <1>2
    <2>2. active.action = "Stop" /\ active.recovery[i].id < active.id
      BY <1>1, <2>1 DEF CommandInv, RememberInv
    <2>3. Before(d, c) /\ tasks[c].action = "Stop"
      BY <1>2, <2>2 DEF About, Before
    <2>4. ops[tasks[d].req] # "queued" /\ ~InFlight(d)
      BY <1>1, <2>3 DEF CommandInv, OrderInv
    <2> QED
      BY <2>4, ResolvedMeans DEF About
  <1>3. tasks[d].id = active.id => Resolved(d)
    BY <1>1 DEF About
  <1>4. ~Resolved(d) => tasks[d].id \in Remembered
    BY DEF CommandInv, RememberInv
  <1> QED
    BY <1>1, <1>2, <1>3, <1>4 DEF Remembered

(* What a completion makes of the operation state.                         *)
Ends(k) ==
    \/ active' = active /\ (tasks[k].root # root \/ ~Is(tasks[k].id))
    \/ /\ tasks[k].root = root /\ Is(tasks[k].id)
       /\ \/ active' = MarkUnconfirmed(tasks[k].id, tasks[k].req)
          \/ tasks[k].answer \in Settled /\ active' = FinishFailure(tasks[k].id)
          \/ tasks[k].answer \in {"true", "false"} /\ active' = NoOp

LEMMA CompleteEnds ==
    ASSUME CommandInv, NEW k \in DOMAIN tasks, Complete(k)
    PROVE  /\ Ends(k) /\ tasks[k].pc = "answered" /\ Renewed(k, "done", tasks[k].answer)
           /\ seen' \in Vpns /\ UNCHANGED <<root, nextId, inbox, chain, ops>>
  <1>1. UiTypes /\ CoreTypes
    BY DEF CommandInv, Types
  <1>2. tasks[k].pc = "answered" /\ tasks[k].answer \in {"unconfirmed"} \cup Settled
    <2>1. tasks[k].pc = "answered"
      BY DEF Complete
    <2>2. tasks[k].answer # "none" /\ tasks[k].answer \in {"none", "unconfirmed"} \cup Settled
      BY <1>1, <2>1, TaskType DEF CommandInv, SubmitInv
    <2> QED
      BY <2>1, <2>2
  <1>3. Renewed(k, "done", tasks[k].answer)
    BY <1>1, GotoFacts DEF Complete, Pcs
  <1>4. seen' \in Vpns /\ UNCHANGED <<root, nextId, inbox, chain, ops>>
    BY <1>1 DEF Complete, UiTypes, CoreTypes, coreVars
  <1>5. /\ tasks[k].root # root => active' = active
        /\ tasks[k].root = root => \/ tasks[k].answer = "unconfirmed"
                                      /\ active' = MarkUnconfirmed(tasks[k].id, tasks[k].req)
                                   \/ tasks[k].answer \in {"failed", "false"}
                                      /\ active' = FinishFailure(tasks[k].id)
                                   \/ tasks[k].answer \notin {"unconfirmed", "failed"}
                                      /\ active' = FinishSuccess(tasks[k].id)
    BY DEF Complete
  <1>6. Ends(k)
    <2>1. CASE tasks[k].root # root
      BY <1>5, <2>1 DEF Ends
    <2>2. CASE ~Is(tasks[k].id)
      BY <1>5, <2>2 DEF Ends, MarkUnconfirmed, FinishFailure, FinishSuccess
    <2>3. CASE tasks[k].root = root /\ Is(tasks[k].id)
      <3>1. FinishSuccess(tasks[k].id) = NoOp
        BY <2>3 DEF FinishSuccess
      <3> QED
        BY <1>2, <1>5, <2>3, <3>1 DEF Ends, Settled
    <2> QED
      BY <2>1, <2>2, <2>3
  <1> QED
    BY <1>2, <1>3, <1>4, <1>5, <1>6

LEMMA CompleteKeeps ==
    ASSUME CommandInv, NEW k \in DOMAIN tasks, Complete(k)
    PROVE  UiTypes' /\ TaskInv' /\ SubmitInv' /\ ReceiptInv' /\ OrderInv' /\ RememberInv'
  <1>1. /\ Ends(k) /\ tasks[k].pc = "answered" /\ Renewed(k, "done", tasks[k].answer)
        /\ seen' \in Vpns /\ UNCHANGED <<root, nextId, inbox, chain, ops>>
    BY CompleteEnds
  <1>2. UiTypes /\ CoreTypes
    BY DEF CommandInv, Types
  <1>3. Progress(k) /\ DOMAIN tasks' = DOMAIN tasks
    BY <1>1, Goes, <1>2 DEF Waiting
  <1>4. InboxTyped' /\ FromOld
    BY <1>1, <1>2, <1>3, InboxSame
  <1>5. /\ TaskInv' /\ SubmitInv' /\ ReceiptInv' /\ OrderInv' /\ Kept
        /\ \A d \in Cmds : Resolved(d) => Resolved(d)'
        /\ \A d \in Cmds : tasks'[d].pc \in Waiting => tasks[d].pc \in Waiting
    BY <1>1, <1>3, <1>4, TaskStepKeeps
  <1>6. RememberInv' /\ active' \in Operations \cup {NoOp}
    <2>1. CASE active' = active
      <3>1. RememberInv'
        BY <1>1, <1>5, <2>1, RememberStays DEF CommandInv
      <3> QED
        BY <1>2, <2>1, <3>1 DEF UiTypes
    <2>2. CASE tasks[k].root = root /\ Is(tasks[k].id)
      <3>1. PICK c \in Cmds : About(k, c)
        BY <1>1, <2>2, Completed
      <3>2. CASE active' = MarkUnconfirmed(tasks[k].id, tasks[k].req)
        BY <1>1, <1>5, <2>2, <3>1, <3>2, MarkRemembers
      <3>3. CASE /\ tasks[k].answer \in Settled /\ active' = FinishFailure(tasks[k].id)
                 /\ active.recovery # <<>>
        <4>1. Resolved(c)'
          BY <1>5, <3>1, <3>3 DEF About
        <4> QED
          BY <1>1, <1>5, <2>2, <3>1, <3>3, <4>1, BackRemembers
      <3>4. CASE /\ tasks[k].answer \in Settled /\ active' = FinishFailure(tasks[k].id)
                 /\ active.recovery = <<>>
        <4>1. active' = NoOp
          BY <2>2, <3>4 DEF FinishFailure
        <4>2. active # NoOp /\ Resolved(c) /\ Cmds' = Cmds
          BY <1>5, <2>2, <3>1, <3>4, NoOpFacts, KeptCmds DEF About
        <4>3. ASSUME NEW d \in Cmds, tasks[d].root = root
              PROVE  Resolved(d)
          <5>1. Remembered = {active.id}
            BY <3>4, <4>2 DEF Remembered
          <5>2. tasks[d].id = active.id => d = c
            BY <3>1, <4>3 DEF About
          <5>3. ~Resolved(d) => tasks[d].id \in Remembered
            BY <4>3 DEF CommandInv, RememberInv
          <5> QED
            BY <4>2, <5>1, <5>2, <5>3
        <4>4. RememberInv'
          BY <1>1, <1>5, <4>1, <4>2, <4>3, NothingLeft
        <4> QED
          BY <4>1, <4>4
      <3>5. CASE tasks[k].answer \in {"true", "false"} /\ active' = NoOp
        <4>1. \A d \in Cmds : tasks[d].root = root => Resolved(d)
          BY <2>2, <3>1, <3>5, SuccessEndsAll
        <4>2. Cmds' = Cmds
          BY <1>5, KeptCmds
        <4>3. RememberInv'
          BY <1>1, <1>5, <3>5, <4>1, <4>2, NothingLeft
        <4> QED
          BY <3>5, <4>3
      <3> QED
        BY <1>1, <2>2, <3>2, <3>3, <3>4, <3>5, <2>1 DEF Ends
    <2> QED
      BY <1>1, <2>1, <2>2 DEF Ends
  <1>7. tasks' \in Seq(TaskRecs)
    BY <1>1 DEF Renewed, Renews
  <1> QED
    BY <1>1, <1>2, <1>4, <1>5, <1>6, <1>7 DEF UiTypes, InboxTyped

-----------------------------------------------------------------------------
(* A new task                                                              *)

(* A command is spawned, with the next id and the next request.            *)
CommandSpawn(t) ==
    /\ t \in TaskRecs /\ t.kind = "command" /\ t.id = nextId + 1 /\ t.root = root
    /\ t.req = NextReq /\ t.pc \in Waiting /\ t.answer = "none"
    /\ tasks' = Append(tasks, t) /\ nextId' = nextId + 1
    /\ UNCHANGED <<root, seen, inbox, chain, ops>>

(* A confirmation asks again about the active command.                     *)
ConfirmSpawn(t) ==
    /\ t \in TaskRecs /\ t.kind = "confirm" /\ t.root = root /\ t.pc \notin Waiting
    /\ t.pc # "answered" /\ t.answer = "none"
    /\ \E c \in Cmds : tasks[c].root = root /\ tasks[c].id = t.id /\ tasks[c].req = t.req
    /\ tasks' = Append(tasks, t)
    /\ UNCHANGED <<root, nextId, seen, inbox, chain, ops>>

Spawned(t) == CommandSpawn(t) \/ ConfirmSpawn(t)

LEMMA SpawnKeeps ==
    ASSUME CommandInv, NEW t, Spawned(t)
    PROVE  /\ tasks' \in Seq(TaskRecs) /\ InboxTyped' /\ nextId' \in Nat
           /\ TaskInv' /\ SubmitInv' /\ ReceiptInv' /\ OrderInv'
           /\ DOMAIN tasks' = DOMAIN tasks \cup {Fresh} /\ Fresh \notin DOMAIN tasks
           /\ \A u \in DOMAIN tasks : tasks'[u] = tasks[u]
           /\ tasks'[Fresh] = t
           /\ Cmds \subseteq DOMAIN tasks
           /\ Cmds' = IF t.kind = "command" THEN Cmds \cup {Fresh} ELSE Cmds
           /\ \A c \in Cmds : Resolved(c) => Resolved(c)'
  <1>1. UiTypes /\ CoreTypes /\ TaskInv /\ SubmitInv /\ ReceiptInv /\ OrderInv
    BY DEF CommandInv, Types
  <1>2. /\ t \in TaskRecs /\ tasks' = Append(tasks, t) /\ t.root = root /\ t.answer = "none"
        /\ t.pc # "answered" /\ UNCHANGED <<root, seen, inbox, chain, ops>>
    BY DEF Spawned, CommandSpawn, ConfirmSpawn, Waiting
  <1>3. /\ tasks' \in Seq(TaskRecs)
        /\ DOMAIN tasks' = DOMAIN tasks \cup {Fresh} /\ Fresh \notin DOMAIN tasks
        /\ \A u \in DOMAIN tasks : tasks'[u] = tasks[u] /\ u < Fresh
        /\ tasks'[Fresh] = t /\ Fresh \in Nat
    BY <1>1, <1>2, SpawnFacts
  <1>4. Cmds \subseteq DOMAIN tasks
    BY DEF Cmds
  <1>5. Cmds' = IF t.kind = "command" THEN Cmds \cup {Fresh} ELSE Cmds
    BY <1>3 DEF Cmds
  <1>6. InboxTyped'
    BY <1>1, <1>2, <1>3, InboxSame
  <1>7. \A u \in DOMAIN tasks : InFlight(u)' <=> InFlight(u)
    BY <1>2 DEF InFlight
  <1>8. \A c \in Cmds : Resolved(c) => Resolved(c)'
    BY <1>2, <1>3, <1>4 DEF Resolved, Unresolved
  <1>9. \A u \in DOMAIN tasks : /\ tasks[u].id \in Nat /\ tasks[u].req \in Reqs /\ u \in Nat
                                /\ tasks[u].root \in Nat /\ tasks[u].root <= root
                                /\ tasks[u].root = root => tasks[u].id <= nextId
                                /\ tasks[u].id <= nextId => tasks[u].id < nextId + 1
    BY <1>1, TaskType DEF TaskInv, UiTypes
  <1>10. root \in Nat /\ nextId \in Nat /\ nextId' \in Nat
    BY <1>1 DEF UiTypes, Spawned, CommandSpawn, ConfirmSpawn
  (* The request of a new command is not among the earlier ones.           *)
  <1>11. /\ IsFiniteSet(Cmds) /\ Cardinality(Cmds) \in Nat /\ NextReq = 1 + Cardinality(Cmds)
         /\ \A u \in DOMAIN tasks : tasks[u].req # NextReq /\ tasks[u].req <= Cardinality(Cmds)
    <2>1. IsFiniteSet(Cmds) /\ Cardinality(Cmds) \in Nat /\ NextReq = 1 + Cardinality(Cmds)
      BY <1>1, CmdsFinite
    <2>2. ASSUME NEW u \in DOMAIN tasks
          PROVE  tasks[u].req <= Cardinality(Cmds)
      BY <1>1 DEF TaskInv
    <2>3. \A u \in DOMAIN tasks : tasks[u].req \in Nat
      BY <1>9 DEF Reqs
    <2> QED
      BY <2>1, <2>2, <2>3
  <1>12. t.kind = "command" => t.id = nextId + 1 /\ t.req = NextReq /\ nextId' = nextId + 1
                               /\ t.pc \in Waiting
    BY DEF Spawned, CommandSpawn, ConfirmSpawn
  <1>13. t.kind # "command" =>
            /\ \E c \in Cmds : tasks[c].root = root /\ tasks[c].id = t.id /\ tasks[c].req = t.req
            /\ t.pc \notin Waiting /\ nextId' = nextId
    BY DEF Spawned, CommandSpawn, ConfirmSpawn
  <1>14. TaskInv'
    <2>1. Cardinality(Cmds') = IF t.kind = "command" THEN Cardinality(Cmds) + 1 ELSE Cardinality(Cmds)
      <3>1. Fresh \notin Cmds
        BY <1>3, <1>4
      <3> QED
        BY <1>5, <1>11, <3>1, FS_AddElement
    <2>2. (\A c \in Cmds : tasks[c].req <= Cardinality(Cmds))'
      <3>1. \A c \in Cmds : tasks'[c].req \in Nat /\ tasks'[c].req <= Cardinality(Cmds)
        BY <1>3, <1>4, <1>9, <1>11 DEF Reqs
      <3>2. t.kind = "command" => tasks'[Fresh].req = Cardinality(Cmds) + 1
        BY <1>3, <1>11, <1>12
      <3> QED
        BY <1>5, <1>11, <2>1, <3>1, <3>2
    <2>3. (\A j, k \in Cmds : tasks[j].req = tasks[k].req => j = k)'
      <3>1. \A c \in Cmds : tasks'[c] = tasks[c] /\ tasks'[c].req # NextReq
        BY <1>3, <1>4, <1>11
      <3>2. t.kind = "command" => tasks'[Fresh].req = NextReq
        BY <1>3, <1>12
      <3> QED
        BY <1>1, <1>5, <3>1, <3>2 DEF TaskInv
    <2>4. (\A j, k \in Cmds : tasks[j].root = tasks[k].root /\ j < k => tasks[j].id < tasks[k].id)'
      <3> SUFFICES ASSUME NEW j \in Cmds', NEW k \in Cmds', tasks'[j].root = tasks'[k].root, j < k
                   PROVE  tasks'[j].id < tasks'[k].id
        OBVIOUS
      <3>1. j \in Cmds /\ j \in DOMAIN tasks
        <4>1. k \in DOMAIN tasks \/ k = Fresh
          BY <1>4, <1>5
        <4>2. j # Fresh
          BY <1>3, <1>9, <4>1
        <4> QED
          BY <1>4, <1>5, <4>2
      <3>2. CASE k \in Cmds
        BY <1>1, <1>3, <1>4, <3>1, <3>2 DEF TaskInv
      <3>3. CASE k = Fresh /\ t.kind = "command"
        <4>1. tasks'[j] = tasks[j] /\ tasks'[k] = t
          BY <1>3, <3>1, <3>3
        <4>2. tasks[j].root = root
          BY <1>2, <4>1
        <4> QED
          BY <1>9, <1>12, <3>1, <3>3, <4>1, <4>2
      <3> QED
        BY <1>5, <3>2, <3>3
    <2>5. (\A k \in DOMAIN tasks :
            /\ tasks[k].root <= root
            /\ tasks[k].root = root => tasks[k].id <= nextId
            /\ \E c \in Cmds : /\ tasks[c].root = tasks[k].root /\ tasks[c].id = tasks[k].id
                               /\ tasks[c].req = tasks[k].req)'
      <3>1. ASSUME NEW k \in DOMAIN tasks
            PROVE  /\ tasks'[k].root <= root'
                   /\ tasks'[k].root = root' => tasks'[k].id <= nextId'
                   /\ \E c \in Cmds' : /\ tasks'[c].root = tasks'[k].root /\ tasks'[c].id = tasks'[k].id
                                       /\ tasks'[c].req = tasks'[k].req
        <4>1. tasks'[k] = tasks[k] /\ nextId <= nextId' /\ root' = root
          BY <1>2, <1>3, <1>10, <1>12, <1>13
        <4>2. PICK c \in Cmds : /\ tasks[c].root = tasks[k].root /\ tasks[c].id = tasks[k].id
                                /\ tasks[c].req = tasks[k].req
          BY <1>1 DEF TaskInv
        <4>3. c \in Cmds' /\ tasks'[c] = tasks[c]
          BY <1>3, <1>4, <1>5
        <4>4. tasks[k].root = root => tasks[k].id <= nextId'
          BY <1>9, <1>10, <4>1
        <4> QED
          BY <1>9, <4>1, <4>2, <4>3, <4>4
      <3>2. CASE t.kind = "command"
        <4>1. /\ tasks'[Fresh].root <= root'
              /\ tasks'[Fresh].id <= nextId'
              /\ Fresh \in Cmds'
          BY <1>2, <1>3, <1>5, <1>10, <1>12, <3>2
        <4> QED
          BY <1>3, <3>1, <4>1
      <3>3. CASE t.kind # "command"
        <4>1. PICK c \in Cmds : tasks[c].root = root /\ tasks[c].id = t.id /\ tasks[c].req = t.req
          BY <1>13, <3>3
        <4>2. c \in Cmds' /\ tasks'[c] = tasks[c] /\ tasks[c].id <= nextId'
          BY <1>3, <1>4, <1>5, <1>9, <1>13, <3>3, <4>1
        <4>3. tasks'[Fresh].root <= root' /\ tasks'[Fresh].id <= nextId'
          BY <1>2, <1>3, <1>10, <4>1, <4>2
        <4>4. \E d \in Cmds' : /\ tasks'[d].root = tasks'[Fresh].root
                               /\ tasks'[d].id = tasks'[Fresh].id
                               /\ tasks'[d].req = tasks'[Fresh].req
          BY <1>2, <1>3, <4>1, <4>2
        <4> QED
          BY <1>3, <3>1, <4>3, <4>4
      <3> QED
        BY <3>2, <3>3
    <2> QED
      BY <2>2, <2>3, <2>4, <2>5 DEF TaskInv
  <1>15. ASSUME t.kind = "command"
         PROVE  ops[NextReq] = "none" /\ \A i \in DOMAIN chain : NextReq \notin chain[i].reqs
    <2>1. NextReq \in Reqs
      BY <1>2, <1>12, <1>15 DEF TaskRecs
    <2>2. ops[NextReq] = "none"
      BY <1>1, <1>4, <1>11, <2>1 DEF ReceiptInv
    <2> QED
      BY <1>1, <2>1, <2>2 DEF ReceiptInv
  <1>16. SubmitInv'
    <2>1. ASSUME NEW i \in DOMAIN inbox', inbox'[i].call = "submitting"
          PROVE  /\ inbox'[i].task \in Cmds' /\ tasks'[inbox'[i].task].pc \notin Waiting
                 /\ ops'[tasks'[inbox'[i].task].req] = "none"
      <3>1. /\ inbox[i].task \in Cmds /\ tasks[inbox[i].task].pc \notin Waiting
            /\ ops[tasks[inbox[i].task].req] = "none"
        BY <1>1, <1>2, <2>1 DEF SubmitInv
      <3> QED
        BY <1>2, <1>3, <1>4, <1>5, <3>1
    <2>2. (\A i, j \in DOMAIN inbox :
             /\ inbox[i].call = "submitting" /\ inbox[j].call = "submitting"
             /\ inbox[i].task = inbox[j].task
             => i = j)'
      BY <1>1, <1>2 DEF SubmitInv
    <2>3. ASSUME NEW u \in DOMAIN tasks
          PROVE  /\ tasks'[u].pc \in Waiting => /\ u \in Cmds' /\ tasks'[u].answer = "none"
                                                /\ ops'[tasks'[u].req] = "none"
                 /\ tasks'[u].pc = "answered" => tasks'[u].answer # "none"
                 /\ tasks'[u].answer \in {"true", "false"} => ops'[tasks'[u].req] = tasks'[u].answer
      BY <1>1, <1>2, <1>3, <1>5 DEF SubmitInv
    <2>4. ASSUME NEW u \in DOMAIN tasks, tasks'[u].answer \in Settled,
                 NEW c \in Cmds', tasks'[c].req = tasks'[u].req
          PROVE  Resolved(c)'
      <3>1. tasks'[u] = tasks[u] /\ tasks[u].req # NextReq
        BY <1>3, <1>11
      <3>2. c \in Cmds /\ tasks'[c] = tasks[c]
        BY <1>3, <1>4, <1>5, <1>12, <2>4, <3>1
      <3>3. Resolved(c)
        BY <1>1, <2>4, <3>1, <3>2 DEF SubmitInv
      <3> QED
        BY <1>8, <3>2, <3>3
    <2>5. /\ tasks'[Fresh].pc \in Waiting => /\ Fresh \in Cmds' /\ tasks'[Fresh].answer = "none"
                                             /\ ops'[tasks'[Fresh].req] = "none"
          /\ tasks'[Fresh].pc # "answered" /\ tasks'[Fresh].answer = "none"
      BY <1>2, <1>3, <1>5, <1>12, <1>13, <1>15
    <2>6. tasks'[Fresh].answer \notin Settled /\ tasks'[Fresh].answer \notin {"true", "false"}
      BY <2>5 DEF Settled
    <2> QED
      BY <1>3, <2>1, <2>2, <2>3, <2>4, <2>5, <2>6 DEF SubmitInv
  <1>17. ReceiptInv'
    BY <1>1, <1>2, <1>3, <1>4, <1>5 DEF ReceiptInv
  <1>18. OrderInv'
    <2> SUFFICES ASSUME NEW j \in Cmds', NEW u \in Cmds', Before(j, u)'
                 PROVE  /\ \A p, q \in DOMAIN inbox' :
                              /\ inbox'[p].call = "submitting" /\ inbox'[p].task = j
                              /\ inbox'[q].call = "submitting" /\ inbox'[q].task = u
                              => p < q
                        /\ ops'[tasks'[u].req] # "none" => ~InFlight(j)'
                        /\ tasks'[u].action = "Stop" =>
                              /\ \A a, b \in DOMAIN chain' :
                                    tasks'[j].req \in chain'[a].reqs /\ tasks'[u].req \in chain'[b].reqs
                                    => a < b
                              /\ ops'[tasks'[u].req] \in {"true", "false"} => ops'[tasks'[j].req] # "queued"
      BY DEF OrderInv
    <2>1. CASE j \in Cmds /\ u \in Cmds
      <3>1. Before(j, u) /\ tasks'[j] = tasks[j] /\ tasks'[u] = tasks[u]
        BY <1>2, <1>3, <1>4, <2>1 DEF Before
      <3>2. /\ \A p, q \in DOMAIN inbox :
                  /\ inbox[p].call = "submitting" /\ inbox[p].task = j
                  /\ inbox[q].call = "submitting" /\ inbox[q].task = u
                  => p < q
            /\ ops[tasks[u].req] # "none" => ~InFlight(j)
            /\ tasks[u].action = "Stop" =>
                  /\ \A a, b \in DOMAIN chain :
                        tasks[j].req \in chain[a].reqs /\ tasks[u].req \in chain[b].reqs => a < b
                  /\ ops[tasks[u].req] \in {"true", "false"} => ops[tasks[j].req] # "queued"
        BY <1>1, <2>1, <3>1 DEF OrderInv
      <3>3. ~InFlight(j) => ~InFlight(j)'
        BY <1>4, <1>7, <2>1
      <3> QED
        BY <1>2, <3>1, <3>2, <3>3
    (* The new command is not before another one, and its operation does   *)
    (* not yet exist.                                                      *)
    <2>2. CASE j = Fresh /\ t.kind = "command"
      <3>1. tasks'[u].id > nextId + 1 /\ tasks'[u].root = root
        BY <1>2, <1>3, <1>10, <1>12, <2>2 DEF Before
      <3>2. u \in DOMAIN tasks \/ u = Fresh
        BY <1>4, <1>5
      <3> QED
        BY <1>3, <1>9, <1>10, <1>12, <2>2, <3>1, <3>2
    <2>3. CASE u = Fresh /\ t.kind = "command"
      <3>1. tasks'[u].req = NextReq
        BY <1>3, <1>12, <2>3
      <3>2. \A q \in DOMAIN inbox : inbox[q].task \in DOMAIN tasks
        BY <1>1 DEF UiTypes
      <3> QED
        BY <1>2, <1>3, <1>15, <2>3, <3>1, <3>2
    <2> QED
      BY <1>5, <2>1, <2>2, <2>3
  <1> QED
    BY <1>3, <1>4, <1>5, <1>6, <1>8, <1>10, <1>14, <1>16, <1>17, <1>18

(* Nothing is remembered but the command of the button or of an edit.      *)
LEMMA BeginRemembers ==
    ASSUME ConstantsOK, CommandInv, NEW t, CommandSpawn(t), active = NoOp,
           active' = Op(nextId + 1, t.action)
    PROVE  RememberInv' /\ active' \in Operations
  <1>1. UiTypes /\ CoreTypes /\ t.action \in Commands
    BY DEF CommandInv, Types, CommandSpawn, TaskRecs
  <1>2. /\ active' \in Operations /\ active'.id = nextId + 1 /\ active'.action = t.action
        /\ active'.phase = "AwaitingBridge" /\ active'.receipt = 0
        /\ active'.recovery = <<>> /\ DOMAIN active'.recovery = {}
    BY <1>1, BeginFacts
  <1>3. active' # NoOp
    BY <1>2, NoOpFacts
  <1>4. /\ TaskInv' /\ DOMAIN tasks' = DOMAIN tasks \cup {Fresh} /\ Fresh \notin DOMAIN tasks
        /\ \A u \in DOMAIN tasks : tasks'[u] = tasks[u]
        /\ tasks'[Fresh] = t /\ Cmds \subseteq DOMAIN tasks
        /\ Cmds' = IF t.kind = "command" THEN Cmds \cup {Fresh} ELSE Cmds
        /\ \A c \in Cmds : Resolved(c) => Resolved(c)'
    BY SpawnKeeps DEF Spawned
  <1>5. /\ t.kind = "command" /\ t.id = nextId + 1 /\ nextId' = nextId + 1 /\ root' = root
        /\ t.root = root
    BY DEF CommandSpawn
  <1>6. nextId \in Nat /\ \A u \in DOMAIN tasks : tasks[u].root = root => tasks[u].id # nextId + 1
    <2>1. nextId \in Nat
      BY <1>1 DEF UiTypes
    <2>2. \A u \in DOMAIN tasks : tasks[u].id \in Nat /\ (tasks[u].root = root => tasks[u].id <= nextId)
      BY <1>1, TaskType DEF CommandInv, TaskInv
    <2> QED
      BY <2>1, <2>2
  <1>7. OfCommand(active.id, active.action, active.receipt)'
    BY <1>2, <1>4, <1>5 DEF OfCommand
  <1>8. \A k \in DOMAIN tasks' \ Cmds' : ~(tasks'[k].root = root' /\ tasks'[k].id = active'.id)
    BY <1>2, <1>4, <1>5, <1>6
  <1>9. ASSUME NEW k \in Cmds', tasks'[k].root = root'
        PROVE  /\ tasks'[k].pc \in Waiting =>
                     active' # NoOp /\ active'.id = tasks'[k].id /\ active'.phase = "AwaitingBridge"
               /\ ~Resolved(k)' => tasks'[k].id \in Remembered'
    <2>1. CASE k = Fresh
      BY <1>2, <1>3, <1>4, <1>5, <2>1 DEF Remembered
    <2>2. CASE k \in Cmds
      <3>1. tasks'[k] = tasks[k] /\ tasks[k].root = root
        BY <1>4, <1>5, <1>9, <2>2
      <3>2. tasks[k].pc \notin Waiting /\ Resolved(k)
        BY <2>2, <3>1 DEF CommandInv, RememberInv, Remembered
      <3> QED
        BY <1>4, <2>2, <3>1, <3>2
    <2> QED
      BY <1>4, <1>5, <2>1, <2>2
  <1>10. active'.id <= nextId' /\ active'.id = nextId'
    BY <1>2, <1>5, <1>6
  <1> QED
    BY <1>2, <1>7, <1>8, <1>9, <1>10 DEF RememberInv

(* The fence is remembered, and all that was remembered before.            *)
LEMMA FenceRemembers ==
    ASSUME ConstantsOK, CommandInv, NEW t, CommandSpawn(t), t.action = "Stop",
           active # NoOp, active.phase # "AwaitingBridge", active' = BeginRecovery(nextId + 1)
    PROVE  RememberInv' /\ active' \in Operations
  <1> DEFINE n == Len(active.recovery) + 1
  <1>1. UiTypes /\ CoreTypes /\ active.receipt # 0
    BY DEF CommandInv, Types, RememberInv
  <1>2. /\ active' \in Operations /\ active'.id = nextId + 1 /\ active'.action = "Stop"
        /\ active'.phase = "AwaitingBridge" /\ active'.receipt = 0
        /\ n \in DOMAIN active'.recovery /\ Len(active.recovery) \in Nat
        /\ active'.recovery[n].id = active.id
        /\ active'.recovery[n].action = active.action
        /\ active'.recovery[n].receipt = active.receipt
        /\ \A i \in DOMAIN active.recovery :
              /\ i \in DOMAIN active'.recovery /\ active'.recovery[i] = active.recovery[i]
              /\ i < n
        /\ \A i \in DOMAIN active'.recovery : i \in DOMAIN active.recovery \/ i = n
        /\ active.recovery = <<>> => Len(active.recovery) = 0
    BY <1>1, FenceFacts
  <1>3. active' # NoOp /\ (active.recovery = <<>> => n = 1)
    BY <1>2, NoOpFacts
  <1> HIDE DEF n
  <1>4. /\ TaskInv' /\ DOMAIN tasks' = DOMAIN tasks \cup {Fresh} /\ Fresh \notin DOMAIN tasks
        /\ \A u \in DOMAIN tasks : tasks'[u] = tasks[u]
        /\ tasks'[Fresh] = t /\ Cmds \subseteq DOMAIN tasks
        /\ Cmds' = IF t.kind = "command" THEN Cmds \cup {Fresh} ELSE Cmds
        /\ \A c \in Cmds : Resolved(c) => Resolved(c)'
    BY SpawnKeeps DEF Spawned
  <1>5. /\ t.kind = "command" /\ t.id = nextId + 1 /\ nextId' = nextId + 1 /\ root' = root
        /\ t.root = root
    BY DEF CommandSpawn
  <1>6. nextId \in Nat /\ \A u \in DOMAIN tasks : tasks[u].root = root => tasks[u].id # nextId + 1
    <2>1. nextId \in Nat
      BY <1>1 DEF UiTypes
    <2>2. \A u \in DOMAIN tasks : tasks[u].id \in Nat /\ (tasks[u].root = root => tasks[u].id <= nextId)
      BY <1>1, TaskType DEF CommandInv, TaskInv
    <2> QED
      BY <2>1, <2>2
  <1>7. OfCommand(active.id, active.action, active.receipt)'
    BY <1>2, <1>4, <1>5 DEF OfCommand
  <1>8. \A k \in DOMAIN tasks' \ Cmds' : ~(tasks'[k].root = root' /\ tasks'[k].id = active'.id)
    BY <1>2, <1>4, <1>5, <1>6
  <1>9. \A x \in Remembered : x \in Remembered'
    <2>1. ASSUME NEW i \in DOMAIN active.recovery
          PROVE  active.recovery[i].id \in Remembered'
      BY <1>2, <1>3, <2>1 DEF Remembered
    <2>2. active.id \in Remembered'
      BY <1>2, <1>3 DEF Remembered
    <2> QED
      BY <2>1, <2>2 DEF Remembered
  <1>10. ASSUME NEW k \in Cmds', tasks'[k].root = root'
         PROVE  /\ tasks'[k].pc \in Waiting =>
                     active' # NoOp /\ active'.id = tasks'[k].id /\ active'.phase = "AwaitingBridge"
                /\ ~Resolved(k)' => tasks'[k].id \in Remembered'
    <2>1. CASE k = Fresh
      BY <1>2, <1>3, <1>4, <1>5, <2>1 DEF Remembered
    <2>2. CASE k \in Cmds
      <3>1. tasks'[k] = tasks[k] /\ tasks[k].root = root
        BY <1>4, <1>5, <1>10, <2>2
      <3>2. tasks[k].pc \notin Waiting /\ (~Resolved(k) => tasks[k].id \in Remembered)
        BY <2>2, <3>1 DEF CommandInv, RememberInv
      <3> QED
        BY <1>4, <1>9, <2>2, <3>1, <3>2
    <2> QED
      BY <1>4, <1>5, <2>1, <2>2
  <1>11. active'.id <= nextId' /\ active'.id = nextId'
    BY <1>2, <1>5, <1>6
  <1>12. /\ \A i \in DOMAIN active.recovery :
               /\ OfCommand(active.recovery[i].id, active.recovery[i].action,
                            active.recovery[i].receipt)
               /\ active.recovery[i].id < active.id
               /\ i # 1 => active.recovery[i].action = "Stop"
               /\ \A j \in DOMAIN active.recovery :
                     i < j => active.recovery[i].id < active.recovery[j].id
         /\ OfCommand(active.id, active.action, active.receipt)
         /\ active.id <= nextId /\ (active.recovery # <<>> => active.action = "Stop")
    BY DEF CommandInv, RememberInv
  <1>13. ASSUME NEW id, NEW a, NEW r, OfCommand(id, a, r)
         PROVE  \E c \in Cmds' : /\ tasks'[c].root = root' /\ tasks'[c].id = id
                                 /\ tasks'[c].action = a /\ (r = 0 \/ tasks'[c].req = r)
    BY <1>4, <1>5, <1>13 DEF OfCommand
  <1>14. ASSUME NEW i \in DOMAIN active'.recovery
         PROVE  \E c \in Cmds' : /\ tasks'[c].root = root'
                                 /\ tasks'[c].id = active'.recovery[i].id
                                 /\ tasks'[c].action = active'.recovery[i].action
                                 /\ (active'.recovery[i].receipt = 0
                                     \/ tasks'[c].req = active'.recovery[i].receipt)
    <2>1. CASE i \in DOMAIN active.recovery
      BY <1>2, <1>12, <1>13, <2>1
    <2>2. CASE i = n
      BY <1>2, <1>12, <1>13, <2>2
    <2> QED
      BY <1>2, <2>1, <2>2
  <1>15. active.id \in Nat /\ \A i \in DOMAIN active.recovery : active.recovery[i].id \in Nat /\ i \in Nat
    BY <1>1, ActiveType
  <1>16. ASSUME NEW i \in DOMAIN active'.recovery
         PROVE  /\ active'.recovery[i].id < active'.id
                /\ i # 1 => active'.recovery[i].action = "Stop"
                /\ \A j \in DOMAIN active'.recovery :
                      i < j => active'.recovery[i].id < active'.recovery[j].id
    <2>1. CASE i \in DOMAIN active.recovery
      <3>1. active'.recovery[i] = active.recovery[i] /\ active.recovery[i].id < active.id
        BY <1>2, <1>12, <2>1
      <3>2. active'.recovery[i].id < active'.id
        BY <1>2, <1>6, <1>12, <1>15, <2>1, <3>1
      <3>3. i # 1 => active'.recovery[i].action = "Stop"
        BY <1>12, <2>1, <3>1
      <3>4. ASSUME NEW j \in DOMAIN active'.recovery, i < j
            PROVE  active'.recovery[i].id < active'.recovery[j].id
        BY <1>2, <1>12, <2>1, <3>1, <3>4
      <3> QED
        BY <3>2, <3>3, <3>4
    <2>2. CASE i = n
      <3>1. active'.recovery[i].id < active'.id
        BY <1>2, <1>6, <1>12, <1>15, <2>2
      <3>2. i # 1 => active'.recovery[i].action = "Stop"
        BY <1>2, <1>3, <1>12, <2>2
      <3>3. n \in Nat /\ \A j \in DOMAIN active'.recovery : ~(i < j)
        BY <1>2, <1>15, <2>2 DEF n
      <3> QED
        BY <3>1, <3>2, <3>3
    <2> QED
      BY <1>2, <2>1, <2>2
  <1>17. \A i \in DOMAIN active'.recovery :
             OfCommand(active.recovery[i].id, active.recovery[i].action, active.recovery[i].receipt)'
    BY <1>14 DEF OfCommand
  <1> QED
    BY <1>2, <1>7, <1>8, <1>10, <1>11, <1>16, <1>17 DEF RememberInv

(* A confirmation forgets nothing.                                         *)
LEMMA ConfirmRemembers ==
    ASSUME CommandInv, NEW t, ConfirmSpawn(t), active # NoOp, active.phase # "AwaitingBridge",
           active' = [active EXCEPT !.phase = "Confirming"]
    PROVE  RememberInv' /\ active' \in Operations
  <1>1. UiTypes /\ CoreTypes
    BY DEF CommandInv, Types
  <1>2. /\ active' \in Operations /\ active'.id = active.id /\ active'.action = active.action
        /\ active'.phase = "Confirming" /\ active'.receipt = active.receipt
        /\ active'.recovery = active.recovery
    BY <1>1, ConfirmingFacts
  <1>3. active' # NoOp
    BY <1>2, NoOpFacts
  <1>4. /\ \A u \in DOMAIN tasks : tasks'[u] = tasks[u]
        /\ Cmds \subseteq DOMAIN tasks
        /\ Cmds' = IF t.kind = "command" THEN Cmds \cup {Fresh} ELSE Cmds
        /\ \A c \in Cmds : Resolved(c) => Resolved(c)'
    BY SpawnKeeps DEF Spawned
  <1>5. Cmds' = Cmds /\ UNCHANGED <<root, nextId>>
    BY <1>4 DEF ConfirmSpawn
  <1>6. ASSUME NEW id, NEW a, NEW r, OfCommand(id, a, r)
        PROVE  \E c \in Cmds' : /\ tasks'[c].root = root' /\ tasks'[c].id = id
                                /\ tasks'[c].action = a /\ (r = 0 \/ tasks'[c].req = r)
    BY <1>4, <1>5, <1>6 DEF OfCommand
  <1>7. Remembered' = Remembered
    BY <1>2, <1>3 DEF Remembered
  <1>8. ASSUME NEW k \in Cmds', tasks'[k].root = root'
        PROVE  tasks'[k].pc \notin Waiting /\ (~Resolved(k)' => tasks'[k].id \in Remembered')
    BY <1>4, <1>5, <1>7, <1>8 DEF CommandInv, RememberInv
  <1>9. OfCommand(active.id, active.action, active.receipt)'
    <2>1. OfCommand(active.id, active.action, active.receipt)
      BY DEF CommandInv, RememberInv
    <2>2. \E c \in Cmds' : /\ tasks'[c].root = root' /\ tasks'[c].id = active.id
                           /\ tasks'[c].action = active.action
                           /\ (active.receipt = 0 \/ tasks'[c].req = active.receipt)
      BY <1>6, <2>1
    <2> QED
      BY <1>2, <2>2 DEF OfCommand
  <1>10. \A i \in DOMAIN active'.recovery :
             OfCommand(active.recovery[i].id, active.recovery[i].action, active.recovery[i].receipt)'
    <2> SUFFICES ASSUME NEW i \in DOMAIN active.recovery
                 PROVE  OfCommand(active.recovery[i].id, active.recovery[i].action,
                                  active.recovery[i].receipt)'
      BY <1>2
    <2>1. OfCommand(active.recovery[i].id, active.recovery[i].action, active.recovery[i].receipt)
      BY DEF CommandInv, RememberInv
    <2>2. \E c \in Cmds' : /\ tasks'[c].root = root' /\ tasks'[c].id = active.recovery[i].id
                           /\ tasks'[c].action = active.recovery[i].action
                           /\ (active.recovery[i].receipt = 0
                               \/ tasks'[c].req = active.recovery[i].receipt)
      BY <1>6, <2>1
    <2> QED
      BY <1>2, <2>2 DEF OfCommand
  <1>11. /\ active'.id <= nextId' /\ (active'.recovery # <<>> => active'.action = "Stop")
         /\ \A i \in DOMAIN active'.recovery :
               /\ active'.recovery[i].id < active'.id
               /\ i # 1 => active'.recovery[i].action = "Stop"
               /\ \A j \in DOMAIN active'.recovery :
                     i < j => active'.recovery[i].id < active'.recovery[j].id
         /\ active'.phase # "AwaitingBridge" /\ active'.receipt # 0
    BY <1>2, <1>5 DEF CommandInv, RememberInv
  <1> QED
    BY <1>2, <1>3, <1>5, <1>8, <1>9, <1>10, <1>11 DEF RememberInv

-----------------------------------------------------------------------------
(* The handlers of the UI thread and the steps of the tasks                *)

LEMMA CoreStays ==
    ASSUME CoreTypes, QueueInv, cfg' \in Nat,
           UNCHANGED <<pluginVars, chain, ops, intent, vpn, lost, health, user, quiet>>
    PROVE  CoreTypes' /\ QueueInv'
  <1>1. CoreTypes'
    BY DEF CoreTypes, pluginVars
  <1>2. QueueInv'
    BY DEF QueueInv
  <1> QED
    BY <1>1, <1>2

LEMMA CommandParts ==
    ASSUME CommandInv
    PROVE  /\ UiTypes /\ CoreTypes /\ QueueInv /\ TaskInv /\ SubmitInv /\ ReceiptInv /\ OrderInv
           /\ RememberInv /\ cfg \in Nat
  BY DEF CommandInv, Types, CoreTypes

LEMMA FromParts ==
    ASSUME UiTypes', CoreTypes', QueueInv', TaskInv', SubmitInv', ReceiptInv', OrderInv', RememberInv'
    PROVE  CommandInv'
  BY DEF CommandInv, Types

LEMMA ButtonKeeps ==
    ASSUME ConstantsOK, CommandInv,
           ToggleVpn \/ BeginOwnedEdit("Restart") \/ BeginOwnedEdit("OwnedStop")
    PROVE  CommandInv'
  <1>1. UiTypes /\ CoreTypes /\ QueueInv /\ cfg \in Nat
    BY CommandParts
  <1>2. \E t : CommandSpawn(t) /\ active = NoOp /\ active' = Op(nextId + 1, t.action)
    <2>1. ASSUME ToggleVpn
          PROVE  \E t : CommandSpawn(t) /\ active = NoOp /\ active' = Op(nextId + 1, t.action)
      <3> DEFINE a == IF seen.up = "on" THEN "Stop" ELSE "Start"
                 t == Task("command", nextId + 1, a, NextReq)
      <3>1. a \in Commands
        BY DEF Commands
      <3>2. /\ CanCommand /\ active = NoOp /\ active' = Op(nextId + 1, a)
            /\ tasks' = Append(tasks, t) /\ nextId' = nextId + 1
            /\ UNCHANGED <<root, seen, inbox, chain, ops>>
        BY <2>1 DEF ToggleVpn, coreVars
      <3> HIDE DEF a
      <3>3. /\ t \in TaskRecs /\ t.kind = "command" /\ t.id = nextId + 1 /\ t.action = a
            /\ t.root = root /\ t.req = NextReq /\ t.pc = "submit" /\ t.answer = "none"
        BY <1>1, <3>1, <3>2, CommandType
      <3> HIDE DEF t
      <3> QED
        BY <3>2, <3>3 DEF CommandSpawn, Waiting
    <2>2. ASSUME NEW a \in Commands, BeginOwnedEdit(a)
          PROVE  \E t : CommandSpawn(t) /\ active = NoOp /\ active' = Op(nextId + 1, t.action)
      <3> DEFINE t == [Task("command", nextId + 1, a, NextReq) EXCEPT !.pc = "edit", !.sid = seen.sid]
      <3>1. /\ CanCommand /\ active = NoOp /\ active' = Op(nextId + 1, a)
            /\ tasks' = Append(tasks, t) /\ nextId' = nextId + 1
            /\ UNCHANGED <<root, seen, inbox, chain, ops>>
        BY <2>2 DEF BeginOwnedEdit, coreVars
      <3>2. /\ t \in TaskRecs /\ t.kind = "command" /\ t.id = nextId + 1 /\ t.action = a
            /\ t.root = root /\ t.req = NextReq /\ t.pc = "edit" /\ t.answer = "none"
        BY <1>1, <3>1, CommandType
      <3> HIDE DEF t
      <3> QED
        BY <3>1, <3>2 DEF CommandSpawn, Waiting
    <2> QED
      BY <2>1, <2>2 DEF Commands
  <1>3. PICK t : CommandSpawn(t) /\ active = NoOp /\ active' = Op(nextId + 1, t.action)
    BY <1>2
  <1>4. RememberInv' /\ active' \in Operations
    BY <1>3, BeginRemembers
  <1>5. /\ tasks' \in Seq(TaskRecs) /\ InboxTyped' /\ nextId' \in Nat
        /\ TaskInv' /\ SubmitInv' /\ ReceiptInv' /\ OrderInv'
    BY <1>3, SpawnKeeps DEF Spawned
  <1>6. root' \in Nat /\ seen' \in Vpns
    BY <1>1, <1>3 DEF CommandSpawn, UiTypes
  <1>7. UiTypes'
    BY <1>4, <1>5, <1>6 DEF UiTypes, InboxTyped
  <1>8. CoreTypes' /\ QueueInv'
    BY <1>1, CoreStays DEF ToggleVpn, BeginOwnedEdit, coreVars
  <1> QED
    BY <1>4, <1>5, <1>7, <1>8, FromParts

LEMMA RecoverKeeps ==
    ASSUME ConstantsOK, CommandInv, RecoverVpnOperation
    PROVE  CommandInv'
  <1> DEFINE t == Task("command", nextId + 1, "Stop", NextReq)
  <1>1. UiTypes /\ CoreTypes /\ QueueInv /\ cfg \in Nat
    BY CommandParts
  <1>2. /\ CanCommand /\ active # NoOp /\ active.phase # "AwaitingBridge"
        /\ active' = BeginRecovery(nextId + 1)
        /\ tasks' = Append(tasks, t) /\ nextId' = nextId + 1
        /\ UNCHANGED <<root, seen, inbox, chain, ops>>
    BY DEF RecoverVpnOperation, coreVars
  <1>3. /\ t \in TaskRecs /\ t.kind = "command" /\ t.id = nextId + 1 /\ t.action = "Stop"
        /\ t.root = root /\ t.req = NextReq /\ t.pc = "submit" /\ t.answer = "none"
    BY <1>1, <1>2, CommandType DEF Commands
  <1> HIDE DEF t
  <1>4. CommandSpawn(t)
    BY <1>2, <1>3 DEF CommandSpawn, Waiting
  <1>5. RememberInv' /\ active' \in Operations
    BY <1>2, <1>3, <1>4, FenceRemembers
  <1>6. /\ tasks' \in Seq(TaskRecs) /\ InboxTyped' /\ nextId' \in Nat
        /\ TaskInv' /\ SubmitInv' /\ ReceiptInv' /\ OrderInv'
    BY <1>4, SpawnKeeps DEF Spawned
  <1>7. root' \in Nat /\ seen' \in Vpns
    BY <1>1, <1>2 DEF UiTypes
  <1>8. UiTypes'
    BY <1>5, <1>6, <1>7 DEF UiTypes, InboxTyped
  <1>9. CoreTypes' /\ QueueInv'
    BY <1>1, CoreStays DEF RecoverVpnOperation, coreVars
  <1> QED
    BY <1>5, <1>6, <1>8, <1>9, FromParts

LEMMA ConfirmKeeps ==
    ASSUME ConstantsOK, CommandInv, ConfirmVpnOperation
    PROVE  CommandInv'
  <1> DEFINE P(k) == tasks[k].kind = "command" /\ tasks[k].req = active.receipt
             sub == tasks[CHOOSE k \in DOMAIN tasks : P(k)]
             t == [Task("confirm", active.id, active.action, active.receipt)
                   EXCEPT !.pc = "observe", !.opid = sub.opid]
  <1>1. UiTypes /\ CoreTypes /\ QueueInv /\ cfg \in Nat
    BY CommandParts
  <1>2. /\ active # NoOp /\ active.phase = "Unconfirmed"
        /\ active' = [active EXCEPT !.phase = "Confirming"]
        /\ tasks' = Append(tasks, t)
        /\ UNCHANGED <<root, nextId, seen, inbox, chain, ops>>
    BY DEF ConfirmVpnOperation, coreVars
  <1>3. PICK c \in Cmds : /\ tasks[c].root = root /\ tasks[c].id = active.id
                          /\ tasks[c].req = active.receipt
    <2>1. active.receipt # 0 /\ OfCommand(active.id, active.action, active.receipt)
      BY <1>2 DEF CommandInv, RememberInv
    <2> QED
      BY <2>1 DEF OfCommand
  <1>4. sub.opid \in Nat
    <2>1. c \in DOMAIN tasks /\ P(c)
      BY <1>3 DEF Cmds
    <2>2. (CHOOSE k \in DOMAIN tasks : P(k)) \in DOMAIN tasks
      BY <2>1
    <2> QED
      BY <1>1, <2>2, TaskType
  <1> HIDE DEF P, sub
  <1>5. /\ active.id \in Nat \ {0} /\ active.action \in Commands /\ active.receipt \in Reqs
        /\ root \in Nat /\ MaxRounds \in Nat
    <2>1. active.receipt \in Reqs
      BY <1>1, <1>3, TaskType DEF Cmds
    <2> QED
      BY <1>1, <1>2, <2>1, ActiveType, Numbers DEF UiTypes
  <1>6. /\ t \in TaskRecs /\ t.kind = "confirm" /\ t.id = active.id /\ t.root = root
        /\ t.req = active.receipt /\ t.pc = "observe" /\ t.answer = "none"
    <2> DEFINE b == Task("confirm", active.id, active.action, active.receipt)
    <2>1. /\ b \in TaskRecs /\ b.kind = "confirm" /\ b.id = active.id /\ b.root = root
          /\ b.req = active.receipt /\ b.answer = "none"
      BY <1>5 DEF Task, TaskRecs, Pcs, Waiting
    <2> HIDE DEF b
    <2>2. t = [b EXCEPT !.pc = "observe", !.opid = sub.opid]
      BY DEF b
    <2>3. "observe" \in Pcs
      BY DEF Pcs
    <2> HIDE DEF t
    <2> QED
      BY <1>4, <2>1, <2>2, <2>3 DEF TaskRecs
  <1> HIDE DEF t
  <1>7. ConfirmSpawn(t)
    BY <1>2, <1>3, <1>6 DEF ConfirmSpawn, Waiting
  <1>8. RememberInv' /\ active' \in Operations
    BY <1>2, <1>7, ConfirmRemembers
  <1>9. /\ tasks' \in Seq(TaskRecs) /\ InboxTyped' /\ nextId' \in Nat
        /\ TaskInv' /\ SubmitInv' /\ ReceiptInv' /\ OrderInv'
    BY <1>7, SpawnKeeps DEF Spawned
  <1>10. root' \in Nat /\ seen' \in Vpns
    BY <1>1, <1>2 DEF UiTypes
  <1>11. UiTypes'
    BY <1>8, <1>9, <1>10 DEF UiTypes, InboxTyped
  <1>12. CoreTypes' /\ QueueInv'
    BY <1>1, CoreStays DEF ConfirmVpnOperation, coreVars
  <1> QED
    BY <1>8, <1>9, <1>11, <1>12, FromParts

(* A new root knows of no command.                                         *)
LEMMA RootKeeps ==
    ASSUME CommandInv, ReplaceRoot
    PROVE  CommandInv'
  <1>1. UiTypes /\ CoreTypes /\ QueueInv /\ cfg \in Nat
    BY CommandParts
  <1>2. /\ root' = root + 1 /\ nextId' = 0 /\ active' = NoOp /\ seen' = vpn /\ root \in Nat
        /\ UNCHANGED <<tasks, inbox, chain, ops>>
    BY <1>1 DEF ReplaceRoot, coreVars, UiTypes
  <1>3. Cmds' = Cmds /\ Cmds \subseteq DOMAIN tasks
    BY <1>2 DEF Cmds
  <1>4. \A u \in DOMAIN tasks : /\ tasks[u].root \in Nat /\ tasks[u].root <= root
    BY <1>1, TaskType DEF CommandInv, TaskInv
  <1>5. \A u \in DOMAIN tasks : tasks[u].root # root' /\ tasks[u].root <= root'
    BY <1>2, <1>4
  <1>6. UiTypes'
    BY <1>1, <1>2 DEF UiTypes, CoreTypes
  <1>7. CoreTypes' /\ QueueInv'
    BY <1>1, CoreStays DEF ReplaceRoot, coreVars
  <1>8. TaskInv'
    BY <1>2, <1>3, <1>5 DEF CommandInv, TaskInv
  <1>9. SubmitInv' /\ ReceiptInv'
    BY <1>2, <1>3 DEF CommandInv, SubmitInv, ReceiptInv, Resolved, Unresolved
  <1>10. OrderInv'
    BY <1>2, <1>3, <1>5 DEF OrderInv, Before
  <1>11. RememberInv'
    BY <1>2, <1>3, <1>5 DEF RememberInv
  <1> QED
    BY <1>6, <1>7, <1>8, <1>9, <1>10, <1>11, FromParts

(* Nothing but what is shown, a revision or the history changes.           *)
LEMMA BesideKeeps ==
    ASSUME CommandInv, UNCHANGED <<root, nextId, active, tasks, inbox, chain, ops>>,
           seen' \in Vpns, CoreTypes', QueueInv'
    PROVE  CommandInv'
  <1>1. UiTypes /\ Cmds' = Cmds
    BY CommandParts DEF Cmds
  <1>2. UiTypes'
    BY <1>1 DEF UiTypes
  <1>3. TaskInv' /\ SubmitInv' /\ ReceiptInv' /\ OrderInv'
    BY <1>1 DEF CommandInv, TaskInv, SubmitInv, ReceiptInv, OrderInv, Resolved, Unresolved,
                InFlight, Before
  <1>4. RememberInv'
    <2>1. Kept
      BY SameKept
    <2>2. \A c \in Cmds : Resolved(c) => Resolved(c)'
      BY DEF Resolved, Unresolved
    <2> QED
      BY <2>1, <2>2, RememberStays DEF CommandInv
  <1> QED
    BY <1>2, <1>3, <1>4, FromParts

LEMMA UiKeeps ==
    ASSUME ConstantsOK, CommandInv, UiNext
    PROVE  CommandInv'
  <1>1. UiTypes /\ CoreTypes /\ QueueInv /\ cfg \in Nat
    BY CommandParts
  <1>2. CASE ToggleVpn \/ BeginOwnedEdit("Restart") \/ BeginOwnedEdit("OwnedStop")
    BY <1>2, ButtonKeeps
  <1>3. CASE PlainEdit
    <2>1. cfg' \in Nat /\ seen' \in Vpns
      BY <1>1, <1>3 DEF PlainEdit, uiVars, UiTypes
    <2>2. CoreTypes' /\ QueueInv'
      BY <1>1, <1>3, <2>1, CoreStays DEF PlainEdit
    <2> QED
      BY <1>3, <2>1, <2>2, BesideKeeps DEF PlainEdit, uiVars
  <1>4. CASE ConfirmVpnOperation
    BY <1>4, ConfirmKeeps
  <1>5. CASE RecoverVpnOperation
    BY <1>5, RecoverKeeps
  <1>6. CASE RefreshStatus
    <2>1. seen' \in Vpns
      BY <1>1, <1>6 DEF RefreshStatus, CoreTypes
    <2>2. CoreTypes' /\ QueueInv'
      BY <1>1, <1>6, CoreStays DEF RefreshStatus, coreVars
    <2> QED
      BY <1>6, <2>1, <2>2, BesideKeeps DEF RefreshStatus, coreVars
  <1>7. CASE ReplaceRoot
    BY <1>7, RootKeeps
  <1>8. ASSUME NEW k \in DOMAIN tasks, Complete(k)
        PROVE  CommandInv'
    <2>1. CoreTypes' /\ QueueInv'
      BY <1>1, <1>8, CoreStays DEF Complete, coreVars
    <2> QED
      BY <1>8, <2>1, CompleteKeeps, FromParts
  <1> QED
    BY <1>2, <1>3, <1>4, <1>5, <1>6, <1>7, <1>8 DEF UiNext

LEMMA TaskKeeps ==
    ASSUME CommandInv, TaskNext
    PROVE  CommandInv'
  <1>1. UiTypes /\ CoreTypes /\ QueueInv
    BY CommandParts
  <1>2. PICK k \in DOMAIN tasks : \/ MakeEdit(k) \/ Submit(k) \/ AwaitOperation(k)
                                  \/ LookupOperation(k) \/ AnswerParked(k) \/ CallTimesOut(k)
    BY DEF TaskNext
  <1>3. CoreTypes' /\ QueueInv'
    <2>1. /\ cfg' \in Nat
          /\ UNCHANGED <<pluginVars, chain, ops, intent, vpn, lost, health, user, quiet>>
      BY <1>1, <1>2, TaskRest
    <2> QED
      BY <1>1, <2>1, CoreStays
  <1>4. TaskStep(k) \/ SubmitStep(k)
    BY <1>1, <1>2, TaskSteps
  <1>5. CASE TaskStep(k)
    <2>1. UiTypes'
      BY <1>1, <1>5 DEF TaskStep, Progress, Renews, InboxTyped, UiTypes
    <2> QED
      BY <1>3, <1>5, <2>1, TaskStepRemembers, FromParts
  <1>6. CASE SubmitStep(k)
    <2>1. /\ TaskInv' /\ SubmitInv' /\ ReceiptInv' /\ OrderInv' /\ RememberInv' /\ InboxTyped'
          /\ tasks' \in Seq(TaskRecs)
      BY <1>6, SubmitKeeps
    <2>2. UiTypes'
      BY <1>1, <1>6, <2>1 DEF SubmitStep, InboxTyped, UiTypes
    <2> QED
      BY <1>3, <2>1, <2>2, FromParts
  <1> QED
    BY <1>4, <1>5, <1>6

-----------------------------------------------------------------------------
(* The queue                                                               *)

Stages == {"queued", "starting", "stopping", "stopped"}

LEMMA EntryType ==
    ASSUME QueueInv
    PROVE  /\ chain \in Seq(Entries) /\ Len(chain) \in Nat /\ DOMAIN chain = 1 .. Len(chain)
           /\ \A i \in DOMAIN chain :
                 /\ chain[i] \in Entries /\ i \in Nat /\ chain[i].intent \in Nat
                 /\ chain[i].kind \in {"start", "rollback", "Stop", "Restart", "OwnedStop"}
                 /\ chain[i].reqs \subseteq Reqs /\ chain[i].plugin \in Plugins
                 /\ chain[i].sid \in Nat /\ chain[i].cfg \in Nat
                 /\ chain[i].auto \in BOOLEAN /\ chain[i].stage \in Stages
           /\ chain # <<>> => 1 \in DOMAIN chain /\ Head(chain) = chain[1]
  <1>1. chain \in Seq(Entries)
    BY DEF QueueInv
  <1>2. /\ Len(chain) \in Nat /\ DOMAIN chain = 1 .. Len(chain)
        /\ \A i \in DOMAIN chain : chain[i] \in Entries /\ i \in Nat
    BY <1>1, LenProperties
  <1>3. \A i \in DOMAIN chain :
                 /\ chain[i].intent \in Nat
                 /\ chain[i].kind \in {"start", "rollback", "Stop", "Restart", "OwnedStop"}
                 /\ chain[i].reqs \subseteq Reqs /\ chain[i].plugin \in Plugins
                 /\ chain[i].sid \in Nat /\ chain[i].cfg \in Nat
                 /\ chain[i].auto \in BOOLEAN /\ chain[i].stage \in Stages
    BY <1>2 DEF Entries, Stages
  <1>4. chain # <<>> => 1 \in DOMAIN chain /\ Head(chain) = chain[1]
    BY <1>1, TailFacts
  <1> QED
    BY <1>1, <1>2, <1>3, <1>4

LEMMA HealthType ==
    ASSUME QueueInv
    PROVE  /\ health \in Healths \cup {NoHealth}
           /\ health.stage \in {"none", "watch", "stopping", "stopped"}
           /\ health.stage # "none" => /\ health \in Healths /\ health.intent \in Nat
                                       /\ health.sid \in Nat /\ health.plugin \in Plugins
           /\ NoHealth.stage = "none"
  BY DEF QueueInv, Healths, NoHealth

(* The head goes on to its next stage.                                     *)
LEMMA StageKeeps ==
    ASSUME QueueInv, chain # <<>>, NEW s \in Stages, Stage(s),
           UNCHANGED <<intent, health>>,
           s = "starting" => chain[1].kind \in {"start", "Restart"},
           s = "stopped" => chain[1].kind = "Restart"
    PROVE  /\ QueueInv' /\ DOMAIN chain' = DOMAIN chain
           /\ \A i \in DOMAIN chain : /\ chain'[i].reqs = chain[i].reqs
                                      /\ chain'[i].kind = chain[i].kind
                                      /\ chain'[i].auto = chain[i].auto
  <1> DEFINE e == [chain[1] EXCEPT !.stage = s]
  <1>1. 1 \in DOMAIN chain /\ chain \in Seq(Entries)
    BY EntryType
  <1>2. chain' = [chain EXCEPT ![1] = e]
    BY DEF Stage
  <1>3. /\ e \in Entries /\ e.stage = s /\ e.reqs = chain[1].reqs /\ e.kind = chain[1].kind
        /\ e.auto = chain[1].auto /\ e.intent = chain[1].intent
    BY <1>1, EntryType DEF Entries, Stages
  <1> HIDE DEF e
  <1>4. /\ chain' \in Seq(Entries) /\ DOMAIN chain' = DOMAIN chain /\ chain'[1] = e
        /\ \A i \in DOMAIN chain : i # 1 => chain'[i] = chain[i]
    BY <1>1, <1>2, <1>3, UpdateFacts
  <1>5. \A i \in DOMAIN chain : /\ chain'[i].reqs = chain[i].reqs
                                /\ chain'[i].kind = chain[i].kind
                                /\ chain'[i].auto = chain[i].auto
                                /\ chain'[i].intent = chain[i].intent
    BY <1>3, <1>4
  <1>6. \A i \in DOMAIN chain : i # 1 => chain'[i].stage = chain[i].stage
    BY <1>4
  <1>7. \A i \in DOMAIN chain' :
          /\ chain'[i].stage = "starting" => chain'[i].kind \in {"start", "Restart"}
          /\ chain'[i].stage = "stopped" => chain'[i].kind = "Restart"
    BY <1>3, <1>4, <1>5, <1>6 DEF QueueInv
  <1>8. /\ \A i \in DOMAIN chain' : chain'[i].intent <= intent'
        /\ \A i, j \in DOMAIN chain' : i < j => chain'[i].intent < chain'[j].intent
        /\ \A i \in DOMAIN chain' : i # 1 => chain'[i].stage = "queued" /\ chain'[i].kind # "rollback"
        /\ \A i \in DOMAIN chain' :
              /\ chain'[i].kind = "rollback" => health'.stage = "stopping"
              /\ health'.stage = "watch" => health'.intent < chain'[i].intent
        /\ health' \in Healths \cup {NoHealth}
        /\ health'.stage = "watch" => health'.intent <= intent'
    BY <1>4, <1>5, <1>6 DEF QueueInv
  <1> QED
    BY <1>4, <1>5, <1>7, <1>8 DEF QueueInv

(* The head leaves.                                                        *)
LEMMA TailKeeps ==
    ASSUME QueueInv, chain # <<>>, chain' = Tail(chain), intent' = intent,
           health' \in Healths \cup {NoHealth},
           health'.stage = "watch" => health' = health \/ health'.intent = chain[1].intent
    PROVE  /\ QueueInv' /\ 1 \in DOMAIN chain
           /\ \A i \in DOMAIN chain' : /\ i \in Nat /\ i + 1 \in DOMAIN chain
                                       /\ chain'[i] = chain[i + 1] /\ i + 1 # 1
           /\ \A i \in DOMAIN chain : i # 1 => i - 1 \in DOMAIN chain' /\ chain'[i - 1] = chain[i]
  <1>1. /\ 1 \in DOMAIN chain /\ chain' \in Seq(Entries)
        /\ \A i \in DOMAIN chain' : /\ i \in Nat /\ i + 1 \in DOMAIN chain
                                    /\ chain'[i] = chain[i + 1] /\ i + 1 # 1
        /\ \A i \in DOMAIN chain : i \in Nat /\ (i # 1 => i - 1 \in DOMAIN chain' /\ i - 1 \in Nat)
    BY TailFacts, EntryType
  <1>2. ASSUME NEW i \in DOMAIN chain, i # 1
        PROVE  i - 1 \in DOMAIN chain' /\ chain'[i - 1] = chain[i]
    <2>1. i - 1 \in DOMAIN chain' /\ i - 1 \in Nat /\ i \in Nat /\ (i - 1) + 1 = i
      BY <1>1, <1>2
    <2> QED
      BY <1>1, <2>1
  <1>3. \A i \in DOMAIN chain' :
            /\ chain'[i].intent <= intent' /\ chain'[i].stage = "queued"
            /\ chain'[i].kind # "rollback"
    BY <1>1 DEF QueueInv
  <1>4. \A i, j \in DOMAIN chain' : i < j => chain'[i].intent < chain'[j].intent
    <2>1. ASSUME NEW i \in DOMAIN chain', NEW j \in DOMAIN chain', i < j
          PROVE  chain'[i].intent < chain'[j].intent
      <3>1. i + 1 < j + 1
        BY <1>1, <2>1
      <3> QED
        BY <1>1, <3>1 DEF QueueInv
    <2> QED
      BY <2>1
  <1>5. ASSUME health'.stage = "watch"
        PROVE  health'.intent <= intent' /\ \A i \in DOMAIN chain' : health'.intent < chain'[i].intent
    <2>1. CASE health' = health
      BY <1>1, <1>5, <2>1 DEF QueueInv
    <2>2. CASE health'.intent = chain[1].intent
      <3>1. \A i \in DOMAIN chain' : 1 < i + 1
        <4>1. \A i \in DOMAIN chain' : i + 1 \in Nat /\ i + 1 # 1 /\ i \in Nat
          BY <1>1
        <4> QED
          BY <4>1
      <3>2. \A i \in DOMAIN chain' : chain[1].intent < chain[i + 1].intent
        BY <1>1, <3>1 DEF QueueInv
      <3> QED
        BY <1>1, <2>2, <3>2 DEF QueueInv
    <2> QED
      BY <1>5, <2>1, <2>2
  <1> QED
    BY <1>1, <1>2, <1>3, <1>4, <1>5 DEF QueueInv

(* An operation queues up.                                                 *)
LEMMA AppendKeeps ==
    ASSUME CoreTypes, QueueInv, NEW e \in Entries, e.intent = intent + 1, e.stage = "queued",
           chain' = Append(chain, e), intent' = intent + 1,
           health' \in Healths \cup {NoHealth},
           health'.stage = "watch" => health' = health,
           e.kind = "rollback" => chain = <<>> /\ health'.stage = "stopping",
           health'.stage # "stopping" => \A i \in DOMAIN chain : chain[i].kind # "rollback"
    PROVE  /\ QueueInv' /\ Len(chain) + 1 \in DOMAIN chain' /\ Len(chain) \in Nat
           /\ \A i \in DOMAIN chain : /\ i \in DOMAIN chain' /\ chain'[i] = chain[i]
                                      /\ i < Len(chain) + 1
           /\ chain'[Len(chain) + 1] = e
           /\ \A i \in DOMAIN chain' : i \in DOMAIN chain \/ i = Len(chain) + 1
  <1> DEFINE n == Len(chain) + 1
  <1>1. /\ chain' \in Seq(Entries) /\ Len(chain) \in Nat /\ DOMAIN chain = 1 .. Len(chain)
        /\ n \in DOMAIN chain' /\ DOMAIN chain' = 1 .. n
        /\ \A i \in DOMAIN chain : i \in DOMAIN chain' /\ chain'[i] = chain[i] /\ i < n
        /\ chain'[n] = e
        /\ \A i \in DOMAIN chain' : i \in DOMAIN chain \/ i = n
    <2>1. /\ chain' \in Seq(Entries) /\ Len(chain) \in Nat /\ DOMAIN chain = 1 .. Len(chain)
          /\ DOMAIN chain' = 1 .. n
          /\ \A i \in DOMAIN chain : i \in DOMAIN chain' /\ chain'[i] = chain[i] /\ i < n
          /\ chain'[n] = e
          /\ \A i \in DOMAIN chain' : i \in DOMAIN chain \/ i = n
      BY EntryType, AppendFacts
    <2> QED
      BY <2>1
  <1>2. chain = <<>> => n = 1
    BY EntryType, EmptySeq
  <1> HIDE DEF n
  <1>3. intent \in Nat /\ intent' = intent + 1 /\ \A i \in DOMAIN chain : chain[i].intent \in Nat
    BY EntryType DEF CoreTypes
  <1>4. \A i \in DOMAIN chain' : chain'[i].intent <= intent'
    BY <1>1, <1>3 DEF QueueInv
  <1>5. ASSUME NEW i \in DOMAIN chain', NEW j \in DOMAIN chain', i < j
        PROVE  chain'[i].intent < chain'[j].intent
    <2>1. i \in DOMAIN chain
      BY <1>1, <1>5
    <2>2. CASE j \in DOMAIN chain
      BY <1>1, <1>5, <2>1, <2>2 DEF QueueInv
    <2>3. CASE j = n
      BY <1>1, <1>3, <2>1, <2>3 DEF QueueInv
    <2> QED
      BY <1>1, <2>2, <2>3
  <1>6. \A i \in DOMAIN chain' : i # 1 => chain'[i].stage = "queued" /\ chain'[i].kind # "rollback"
    BY <1>1, <1>2 DEF QueueInv
  <1>7. \A i \in DOMAIN chain' :
          /\ chain'[i].stage = "starting" => chain'[i].kind \in {"start", "Restart"}
          /\ chain'[i].stage = "stopped" => chain'[i].kind = "Restart"
          /\ chain'[i].kind = "rollback" => health'.stage = "stopping"
    BY <1>1 DEF QueueInv
  <1>8. ASSUME health'.stage = "watch"
        PROVE  health'.intent <= intent' /\ \A i \in DOMAIN chain' : health'.intent < chain'[i].intent
    <2>1. health' = health /\ health.intent <= intent /\ health.intent \in Nat
      BY <1>8, HealthType DEF QueueInv
    <2>2. health.intent < intent + 1 /\ health.intent <= intent + 1
      BY <1>3, <2>1
    <2> QED
      BY <1>1, <1>3, <1>8, <2>1, <2>2 DEF QueueInv
  <1> QED
    BY <1>1, <1>4, <1>5, <1>6, <1>7, <1>8 DEF QueueInv, n

(* A start joins the one under way.                                        *)
LEMMA JoinKeeps ==
    ASSUME QueueInv, NEW i \in DOMAIN chain, NEW reqs \in SUBSET Reqs, NEW auto \in BOOLEAN,
           chain' = [chain EXCEPT ![i].reqs = @ \cup reqs, ![i].auto = @ \/ auto],
           intent' = intent, health' = health \/ (health' = NoHealth /\ health.stage = "stopped")
    PROVE  /\ QueueInv' /\ DOMAIN chain' = DOMAIN chain
           /\ chain'[i].reqs = chain[i].reqs \cup reqs /\ chain'[i].auto = (chain[i].auto \/ auto)
           /\ \A j \in DOMAIN chain : /\ j # i => chain'[j] = chain[j]
                                      /\ chain'[j].kind = chain[j].kind
  <1> DEFINE r == chain[i].reqs \cup reqs
             a == (chain[i].auto \/ auto)
             e == [chain[i] EXCEPT !.reqs = r, !.auto = a]
  <1>1. chain[i] \in Entries /\ chain \in Seq(Entries)
    BY EntryType
  <1>2. chain' = [chain EXCEPT ![i] = e]
    BY <1>1 DEF Entries
  <1>3. r \in SUBSET Reqs /\ a \in BOOLEAN
    BY EntryType
  <1> HIDE DEF r, a
  <1>4. /\ e \in Entries /\ e.reqs = r /\ e.auto = a /\ e.kind = chain[i].kind
        /\ e.intent = chain[i].intent /\ e.stage = chain[i].stage
    BY <1>1, <1>3 DEF Entries
  <1> HIDE DEF e
  <1>5. /\ chain' \in Seq(Entries) /\ DOMAIN chain' = DOMAIN chain /\ chain'[i] = e
        /\ \A j \in DOMAIN chain : j # i => chain'[j] = chain[j]
    <2>1. e \in Entries
      BY <1>4
    <2> DEFINE c == [chain EXCEPT ![i] = e]
    <2>2. /\ c \in Seq(Entries) /\ DOMAIN c = DOMAIN chain /\ c[i] = e
          /\ \A j \in DOMAIN chain : j # i => c[j] = chain[j]
      BY <1>1, <2>1, UpdateFacts
    <2>3. chain' = c
      BY <1>2
    <2> HIDE DEF c
    <2> QED
      BY <2>2, <2>3
  <1>6. \A j \in DOMAIN chain : /\ chain'[j].kind = chain[j].kind
                                /\ chain'[j].intent = chain[j].intent
                                /\ chain'[j].stage = chain[j].stage
    BY <1>4, <1>5
  <1>7. /\ health' \in Healths \cup {NoHealth} /\ (health'.stage = "watch" => health' = health)
        /\ \A j \in DOMAIN chain : chain[j].kind = "rollback" => health'.stage = "stopping"
    BY HealthType DEF QueueInv
  <1>8. QueueInv'
    BY <1>5, <1>6, <1>7 DEF QueueInv
  <1> QED
    BY <1>4, <1>5, <1>6, <1>8 DEF r, a

-----------------------------------------------------------------------------
(* The platform operations                                                 *)

(* Receipts settle from the head of the queue, and none comes to be        *)
(* anywhere else.                                                          *)
LEMMA PlatformKeeps ==
    ASSUME CommandInv, UNCHANGED <<root, nextId, active, tasks, inbox>>, seen' \in Vpns,
           CoreTypes', QueueInv', ReceiptInv',
           \A r \in Reqs : ops'[r] = ops[r] \/ (ops[r] = "queued" /\ ops'[r] \in Settled),
           \A i, j \in DOMAIN chain', r, s \in Reqs :
               r \in chain'[i].reqs /\ s \in chain'[j].reqs =>
                  \E a, b \in DOMAIN chain :
                      r \in chain[a].reqs /\ s \in chain[b].reqs /\ (a < b => i < j),
           \A r, s \in Reqs :
               ops[s] = "queued" /\ ops'[s] # "queued" /\ ops'[r] = "queued" =>
                  \E a, b \in DOMAIN chain :
                      r \in chain[a].reqs /\ s \in chain[b].reqs /\ ~(a < b)
    PROVE  CommandInv'
  <1>1. /\ UiTypes /\ TaskInv /\ SubmitInv /\ OrderInv /\ RememberInv
        /\ Cmds' = Cmds /\ Cmds \subseteq DOMAIN tasks
    BY CommandParts DEF Cmds
  <1>2. \A k \in DOMAIN tasks : tasks[k].req \in Reqs
    BY <1>1, TaskType
  <1>3. /\ \A r \in Reqs : ops[r] = "none" <=> ops'[r] = "none"
        /\ \A r \in Reqs : ops[r] # "queued" => ops'[r] = ops[r]
    BY DEF Settled
  <1>4. UiTypes' /\ TaskInv'
    BY <1>1 DEF UiTypes, TaskInv
  <1>5. \A c \in Cmds : Resolved(c) => Resolved(c)'
    BY <1>1, <1>2, <1>3 DEF Resolved, Unresolved
  <1>6. SubmitInv'
    <2>1. ASSUME NEW i \in DOMAIN inbox, inbox[i].call = "submitting"
          PROVE  /\ inbox[i].task \in Cmds /\ tasks[inbox[i].task].pc \notin Waiting
                 /\ ops'[tasks[inbox[i].task].req] = "none"
      <3>1. /\ inbox[i].task \in Cmds /\ tasks[inbox[i].task].pc \notin Waiting
            /\ ops[tasks[inbox[i].task].req] = "none"
        BY <1>1, <2>1 DEF SubmitInv
      <3> QED
        BY <1>1, <1>2, <1>3, <3>1
    <2>2. ASSUME NEW k \in DOMAIN tasks
          PROVE  /\ tasks[k].pc \in Waiting => /\ k \in Cmds /\ tasks[k].answer = "none"
                                               /\ ops'[tasks[k].req] = "none"
                 /\ tasks[k].pc = "answered" => tasks[k].answer # "none"
                 /\ tasks[k].answer \in {"true", "false"} => ops'[tasks[k].req] = tasks[k].answer
                 /\ tasks[k].answer \in Settled =>
                       \A c \in Cmds : tasks[c].req = tasks[k].req => Resolved(c)'
      <3>1. /\ tasks[k].pc \in Waiting => k \in Cmds /\ tasks[k].answer = "none"
            /\ tasks[k].pc \in Waiting => ops'[tasks[k].req] = "none"
            /\ tasks[k].pc = "answered" => tasks[k].answer # "none"
        BY <1>1, <1>2, <1>3 DEF SubmitInv
      <3>2. tasks[k].answer \in {"true", "false"} => ops'[tasks[k].req] = tasks[k].answer
        BY <1>1, <1>2, <1>3 DEF SubmitInv
      <3>3. tasks[k].answer \in Settled =>
                \A c \in Cmds : tasks[c].req = tasks[k].req => Resolved(c)'
        BY <1>1, <1>5 DEF SubmitInv
      <3> QED
        BY <3>1, <3>2, <3>3
    <2>3. \A i, j \in DOMAIN inbox :
              /\ inbox[i].call = "submitting" /\ inbox[j].call = "submitting"
              /\ inbox[i].task = inbox[j].task
              => i = j
      BY <1>1 DEF SubmitInv
    <2> QED
      BY <1>1, <2>1, <2>2, <2>3 DEF SubmitInv
  <1>7. OrderInv'
    <2> SUFFICES ASSUME NEW j \in Cmds, NEW k \in Cmds, Before(j, k)
                 PROVE  /\ \A p, q \in DOMAIN inbox :
                              /\ inbox[p].call = "submitting" /\ inbox[p].task = j
                              /\ inbox[q].call = "submitting" /\ inbox[q].task = k
                              => p < q
                        /\ ops'[tasks[k].req] # "none" => ~InFlight(j)
                        /\ tasks[k].action = "Stop" =>
                              /\ \A a, b \in DOMAIN chain' :
                                    tasks[j].req \in chain'[a].reqs /\ tasks[k].req \in chain'[b].reqs
                                    => a < b
                              /\ ops'[tasks[k].req] \in {"true", "false"} => ops'[tasks[j].req] # "queued"
      BY <1>1 DEF OrderInv, Before, InFlight
    <2>1. tasks[j].req \in Reqs /\ tasks[k].req \in Reqs
      BY <1>1, <1>2
    <2>2. /\ \A p, q \in DOMAIN inbox :
                /\ inbox[p].call = "submitting" /\ inbox[p].task = j
                /\ inbox[q].call = "submitting" /\ inbox[q].task = k
                => p < q
          /\ ops[tasks[k].req] # "none" => ~InFlight(j)
          /\ tasks[k].action = "Stop" =>
                \A a, b \in DOMAIN chain :
                    tasks[j].req \in chain[a].reqs /\ tasks[k].req \in chain[b].reqs => a < b
          /\ tasks[k].action = "Stop" /\ ops[tasks[k].req] \in {"true", "false"}
                => ops[tasks[j].req] # "queued"
      BY <1>1 DEF OrderInv
    <2>3. ASSUME tasks[k].action = "Stop", NEW a \in DOMAIN chain', NEW b \in DOMAIN chain',
                 tasks[j].req \in chain'[a].reqs, tasks[k].req \in chain'[b].reqs
          PROVE  a < b
      <3>1. PICK i \in DOMAIN chain, m \in DOMAIN chain :
                tasks[j].req \in chain[i].reqs /\ tasks[k].req \in chain[m].reqs /\ (i < m => a < b)
        BY <2>1, <2>3
      <3> QED
        BY <2>2, <2>3, <3>1
    <2>4. ASSUME tasks[k].action = "Stop", ops'[tasks[k].req] \in {"true", "false"},
                 ops'[tasks[j].req] = "queued"
          PROVE  FALSE
      <3>1. ops[tasks[j].req] = "queued"
        BY <2>1, <2>4 DEF Settled
      <3>2. ops[tasks[k].req] = "queued" /\ ops'[tasks[k].req] # "queued"
        BY <2>1, <2>2, <2>4, <3>1
      <3>3. PICK i \in DOMAIN chain, m \in DOMAIN chain :
                tasks[j].req \in chain[i].reqs /\ tasks[k].req \in chain[m].reqs /\ ~(i < m)
        BY <2>1, <2>4, <3>2
      <3> QED
        BY <2>2, <2>4, <3>3
    <2> QED
      BY <1>3, <2>1, <2>2, <2>3, <2>4
  <1>8. RememberInv'
    BY <1>1, <1>5, SameKept, RememberStays
  <1> QED
    BY <1>4, <1>6, <1>7, <1>8, FromParts

(* The queue changes beside the receipts.                                  *)
LEMMA QueueBeside ==
    ASSUME CommandInv, UNCHANGED <<root, nextId, active, seen, tasks, inbox, ops>>,
           CoreTypes', QueueInv',
           \A i \in DOMAIN chain : i \in DOMAIN chain' /\ chain'[i].reqs = chain[i].reqs,
           \A i \in DOMAIN chain' : i \in DOMAIN chain \/ chain'[i].reqs = {}
    PROVE  CommandInv'
  <1>1. seen' \in Vpns /\ ReceiptInv /\ Cmds' = Cmds
    BY CommandParts DEF UiTypes, Cmds
  <1>2. ReceiptInv'
    <2>1. \A i \in DOMAIN chain', r \in Reqs :
              r \in chain'[i].reqs => i \in DOMAIN chain /\ r \in chain[i].reqs
      OBVIOUS
    <2>2. \A r \in Reqs : ops'[r] = "queued" <=> \E i \in DOMAIN chain' : r \in chain'[i].reqs
      BY <1>1, <2>1 DEF ReceiptInv
    <2>3. \A i, j \in DOMAIN chain' : chain'[i].reqs \cap chain'[j].reqs # {} => i = j
      <3>1. ASSUME NEW i \in DOMAIN chain', NEW j \in DOMAIN chain',
                   chain'[i].reqs \cap chain'[j].reqs # {}
            PROVE  i = j
        <4>1. i \in DOMAIN chain /\ j \in DOMAIN chain
          BY <3>1
        <4> QED
          BY <1>1, <3>1, <4>1 DEF ReceiptInv
      <3> QED
        BY <3>1
    <2>4. \A r \in Reqs : ops'[r] # "none" => \E c \in Cmds' : tasks'[c].req = r
      BY <1>1 DEF ReceiptInv
    <2> QED
      BY <2>2, <2>3, <2>4 DEF ReceiptInv
  <1>3. \A i, j \in DOMAIN chain', r, s \in Reqs :
            r \in chain'[i].reqs /\ s \in chain'[j].reqs =>
               \E a, b \in DOMAIN chain :
                   r \in chain[a].reqs /\ s \in chain[b].reqs /\ (a < b => i < j)
    <2>1. ASSUME NEW i \in DOMAIN chain', NEW j \in DOMAIN chain', NEW r \in Reqs, NEW s \in Reqs,
                 r \in chain'[i].reqs, s \in chain'[j].reqs
          PROVE  /\ i \in DOMAIN chain /\ j \in DOMAIN chain
                 /\ r \in chain[i].reqs /\ s \in chain[j].reqs
      BY <2>1
    <2> QED
      BY <2>1
  <1> QED
    BY <1>1, <1>2, <1>3, PlatformKeeps

(* The operation at the head settles.                                      *)
LEMMA SettleKeeps ==
    ASSUME CommandInv, chain # <<>>, NEW o \in Settled, Settle(o),
           UNCHANGED <<root, nextId, active, seen, tasks, inbox, intent, plugin, last, user>>,
           vpn' \in Vpns, cfg' \in Nat, lost' \in BOOLEAN, quiet' \in BOOLEAN,
           health' \in Healths \cup {NoHealth},
           health'.stage = "watch" => health' = health \/ health'.intent = chain[1].intent
    PROVE  CommandInv'
  <1>1. /\ UiTypes /\ CoreTypes /\ QueueInv /\ ReceiptInv /\ seen' \in Vpns /\ Cmds' = Cmds
    BY CommandParts DEF UiTypes, Cmds
  <1>2. /\ QueueInv' /\ 1 \in DOMAIN chain
        /\ \A i \in DOMAIN chain' : /\ i \in Nat /\ i + 1 \in DOMAIN chain
                                    /\ chain'[i] = chain[i + 1] /\ i + 1 # 1
        /\ \A i \in DOMAIN chain : i # 1 => i - 1 \in DOMAIN chain' /\ chain'[i - 1] = chain[i]
    BY <1>1, TailKeeps DEF Settle
  <1>3. /\ ops' \in [Reqs -> Outcomes]
        /\ \A r \in Reqs : r \in chain[1].reqs => ops'[r] = o
        /\ \A r \in Reqs : r \notin chain[1].reqs => ops'[r] = ops[r]
    <2>1. ops' = [r \in Reqs |-> IF r \in chain[1].reqs THEN o ELSE ops[r]]
      BY DEF Settle, Front1
    <2> QED
      BY <1>1, <2>1 DEF CoreTypes, Outcomes
  <1>4. startReq' \in Nat
    BY <1>1 DEF Settle, CoreTypes
  <1>5. CoreTypes'
    BY <1>1, <1>3, <1>4 DEF CoreTypes
  <1>6. /\ \A r \in Reqs : r \in chain[1].reqs => ops[r] = "queued"
        /\ \A r \in Reqs, i \in DOMAIN chain :
               r \in chain[1].reqs /\ r \in chain[i].reqs => i = 1
    BY <1>1, <1>2 DEF ReceiptInv
  <1>7. ReceiptInv'
    <2>1. ASSUME NEW r \in Reqs
          PROVE  ops'[r] = "queued" <=> \E i \in DOMAIN chain' : r \in chain'[i].reqs
      <3>1. ops'[r] = "queued" => ops[r] = "queued" /\ r \notin chain[1].reqs
        BY <1>3 DEF Settled
      <3>2. ASSUME ops'[r] = "queued"
            PROVE  \E i \in DOMAIN chain' : r \in chain'[i].reqs
        <4>1. PICK i \in DOMAIN chain : r \in chain[i].reqs
          BY <1>1, <3>1, <3>2 DEF ReceiptInv
        <4>2. i # 1
          BY <3>1, <3>2, <4>1
        <4> QED
          BY <1>2, <4>1, <4>2
      <3>3. ASSUME NEW i \in DOMAIN chain', r \in chain'[i].reqs
            PROVE  ops'[r] = "queued"
        <4>1. r \in chain[i + 1].reqs /\ i + 1 \in DOMAIN chain /\ i + 1 # 1
          BY <1>2, <3>3
        <4>2. r \notin chain[1].reqs
          BY <1>6, <4>1
        <4>3. ops[r] = "queued"
          BY <1>1, <4>1 DEF ReceiptInv
        <4> QED
          BY <1>3, <4>2, <4>3
      <3> QED
        BY <3>2, <3>3
    <2>2. ASSUME NEW i \in DOMAIN chain', NEW j \in DOMAIN chain',
                 chain'[i].reqs \cap chain'[j].reqs # {}
          PROVE  i = j
      <3>1. i + 1 = j + 1 /\ i \in Nat /\ j \in Nat
        BY <1>1, <1>2, <2>2 DEF ReceiptInv
      <3> QED
        BY <3>1
    <2>3. ASSUME NEW r \in Reqs, ops'[r] # "none"
          PROVE  \E c \in Cmds : tasks[c].req = r
      <3>1. ops[r] # "none"
        BY <1>3, <1>6, <2>3
      <3> QED
        BY <1>1, <3>1 DEF ReceiptInv
    <2> QED
      BY <1>1, <2>1, <2>2, <2>3 DEF ReceiptInv
  <1>8. \A r \in Reqs : ops'[r] = ops[r] \/ (ops[r] = "queued" /\ ops'[r] \in Settled)
    BY <1>3, <1>6
  <1>9. ASSUME NEW i \in DOMAIN chain', NEW j \in DOMAIN chain', NEW r \in Reqs, NEW s \in Reqs,
               r \in chain'[i].reqs, s \in chain'[j].reqs
        PROVE  \E a, b \in DOMAIN chain :
                  r \in chain[a].reqs /\ s \in chain[b].reqs /\ (a < b => i < j)
    <2>1. /\ i + 1 \in DOMAIN chain /\ j + 1 \in DOMAIN chain
          /\ r \in chain[i + 1].reqs /\ s \in chain[j + 1].reqs
      BY <1>2, <1>9
    <2>2. i + 1 < j + 1 => i < j
      BY <1>2
    <2> QED
      BY <2>1, <2>2
  <1>10. ASSUME NEW r \in Reqs, NEW s \in Reqs,
                ops[s] = "queued", ops'[s] # "queued", ops'[r] = "queued"
         PROVE  \E a, b \in DOMAIN chain :
                   r \in chain[a].reqs /\ s \in chain[b].reqs /\ ~(a < b)
    <2>1. s \in chain[1].reqs
      BY <1>3, <1>10
    <2>2. PICK i \in DOMAIN chain' : r \in chain'[i].reqs
      BY <1>7, <1>10 DEF ReceiptInv
    <2>3. i + 1 \in DOMAIN chain /\ r \in chain[i + 1].reqs /\ ~(i + 1 < 1)
      BY <1>2, <2>2
    <2> QED
      BY <1>2, <2>1, <2>3
  <1> QED
    BY <1>1, <1>2, <1>5, <1>7, <1>8, <1>9, <1>10, PlatformKeeps

-----------------------------------------------------------------------------
(* What asks for an operation                                              *)

(* The queue takes the receipts at entry i, the newest one unless a start  *)
(* joins another.                                                          *)
Adds(i, reqs) ==
    /\ i \in DOMAIN chain'
    /\ \A j \in DOMAIN chain :
          j \in DOMAIN chain' /\ (j # i => chain'[j].reqs = chain[j].reqs)
    /\ \A j \in DOMAIN chain' : j \in DOMAIN chain \/ j = i
    /\ i \in DOMAIN chain => chain'[i].reqs = chain[i].reqs \cup reqs
    /\ i \notin DOMAIN chain => /\ chain'[i].reqs = reqs
                                /\ \A j \in DOMAIN chain : j < i

LEMMA VpnType ==
    ASSUME CoreTypes
    PROVE  /\ vpn \in Vpns /\ vpn.up \in {"off", "starting", "on"} /\ vpn.sid \in Nat
           /\ vpn.stop \in BOOLEAN /\ Off \in Vpns /\ Off.up = "off"
  BY DEF CoreTypes, Vpns, Off

LEMMA EntryFacts ==
    ASSUME CoreTypes, NEW k \in {"start", "rollback", "Stop", "Restart", "OwnedStop"},
           NEW p \in Plugins, NEW reqs \in SUBSET Reqs, NEW auto \in BOOLEAN,
           NEW t, t.sid \in Nat, t.cfg \in Nat
    PROVE  LET e == Entry(k, p, reqs, auto, t)
           IN  /\ e \in Entries /\ e.kind = k /\ e.reqs = reqs /\ e.intent = intent + 1
               /\ e.stage = "queued" /\ e.auto = auto /\ e.plugin = p
  <1>1. intent + 1 \in Nat
    BY DEF CoreTypes
  <1> QED
    BY <1>1 DEF Entry, Entries

LEMMA NoScopeEntry ==
    ASSUME CoreTypes, NEW k \in {"start", "rollback"},
           NEW p \in Plugins, NEW reqs \in SUBSET Reqs, NEW auto \in BOOLEAN
    PROVE  LET e == Entry(k, p, reqs, auto, NoScope)
           IN  /\ e \in Entries /\ e.kind = k /\ e.reqs = reqs /\ e.intent = intent + 1
               /\ e.stage = "queued" /\ e.auto = auto /\ e.plugin = p
  <1>1. intent + 1 \in Nat
    BY DEF CoreTypes
  <1> QED
    BY <1>1 DEF Entry, Entries, NoScope

LEMMA EnqueueTypes ==
    ASSUME CoreTypes, NEW e, e.plugin \in Plugins, Enqueue(e)
    PROVE  /\ chain' = Append(chain, e) /\ intent' = intent + 1 /\ intent' \in Nat
           /\ last' \in [Plugins -> Nat] /\ last'[e.plugin] = intent + 1
           /\ vpn' \in Vpns /\ vpn'.up = vpn.up /\ vpn'.sid = vpn.sid
  <1>1. intent + 1 \in Nat /\ last \in [Plugins -> Nat]
    BY DEF CoreTypes
  <1>2. last' = [last EXCEPT ![e.plugin] = intent + 1]
    BY DEF Enqueue
  <1>3. last' \in [Plugins -> Nat] /\ last'[e.plugin] = intent + 1
    BY <1>1, <1>2
  <1> DEFINE s == (vpn.stop \/ (e.kind # "start" /\ vpn.up = "on"))
  <1>4. vpn' = [vpn EXCEPT !.stop = s]
    BY VpnType DEF Enqueue, Vpns
  <1>5. s \in BOOLEAN
    OBVIOUS
  <1> HIDE DEF s
  <1>6. vpn' \in Vpns /\ vpn'.up = vpn.up /\ vpn'.sid = vpn.sid
    BY <1>4, <1>5, VpnType DEF Vpns
  <1>7. chain' = Append(chain, e) /\ intent' = intent + 1
    BY DEF Enqueue
  <1> QED
    BY <1>1, <1>3, <1>6, <1>7

LEMMA EnqueueAdds ==
    ASSUME CoreTypes, QueueInv, NEW e \in Entries, e.intent = intent + 1, e.stage = "queued",
           Enqueue(e), health' \in Healths \cup {NoHealth},
           health'.stage = "watch" => health' = health,
           e.kind = "rollback" => chain = <<>> /\ health'.stage = "stopping",
           health'.stage # "stopping" => \A i \in DOMAIN chain : chain[i].kind # "rollback"
    PROVE  /\ QueueInv' /\ intent' \in Nat /\ last' \in [Plugins -> Nat] /\ vpn' \in Vpns
           /\ Len(chain) + 1 \notin DOMAIN chain
           /\ Adds(Len(chain) + 1, e.reqs)
           /\ chain'[Len(chain) + 1] = e
  <1>1. e.plugin \in Plugins
    BY DEF Entries
  <1>2. /\ chain' = Append(chain, e) /\ intent' = intent + 1 /\ intent' \in Nat
        /\ last' \in [Plugins -> Nat] /\ vpn' \in Vpns
    BY <1>1, EnqueueTypes
  <1>3. /\ QueueInv' /\ Len(chain) + 1 \in DOMAIN chain' /\ Len(chain) \in Nat
        /\ \A i \in DOMAIN chain : /\ i \in DOMAIN chain' /\ chain'[i] = chain[i]
                                   /\ i < Len(chain) + 1
        /\ chain'[Len(chain) + 1] = e
        /\ \A i \in DOMAIN chain' : i \in DOMAIN chain \/ i = Len(chain) + 1
    BY <1>2, AppendKeeps
  <1>4. Len(chain) + 1 \notin DOMAIN chain
    BY <1>3
  <1> QED
    BY <1>2, <1>3, <1>4 DEF Adds

LEMMA RequestAdds ==
    ASSUME CoreTypes, QueueInv, NEW p \in Plugins, NEW reqs \in SUBSET Reqs, NEW auto \in BOOLEAN,
           RequestStart(p, reqs, auto),
           health' = health \/ (health' = NoHealth /\ health.stage = "stopped")
    PROVE  /\ QueueInv' /\ intent' \in Nat /\ last' \in [Plugins -> Nat] /\ vpn' \in Vpns
           /\ startReq' \in Nat
           /\ \E i \in DOMAIN chain' : Adds(i, reqs)
  <1>1. health \in Healths \cup {NoHealth} /\ NoHealth.stage = "none"
    BY HealthType
  <1>2. CASE /\ startReq # 0
             /\ \E i \in DOMAIN chain :
                   /\ chain[i].intent = startReq
                   /\ chain' = [chain EXCEPT ![i].reqs = @ \cup reqs, ![i].auto = @ \/ auto]
             /\ UNCHANGED <<intent, last, startReq, vpn>>
    <2>1. PICK i \in DOMAIN chain :
              chain' = [chain EXCEPT ![i].reqs = @ \cup reqs, ![i].auto = @ \/ auto]
      BY <1>2
    <2>2. /\ QueueInv' /\ DOMAIN chain' = DOMAIN chain
          /\ chain'[i].reqs = chain[i].reqs \cup reqs
          /\ \A j \in DOMAIN chain : j # i => chain'[j] = chain[j]
      BY <1>2, <2>1, JoinKeeps
    <2>3. Adds(i, reqs)
      BY <2>2 DEF Adds
    <2> QED
      BY <1>2, <2>2, <2>3 DEF CoreTypes
  <1>3. CASE /\ Enqueue(Entry("start", p, reqs, auto, NoScope))
             /\ startReq' = IF p = plugin THEN intent + 1 ELSE startReq
    <2> DEFINE e == Entry("start", p, reqs, auto, NoScope)
    <2>1. Enqueue(e)
      BY <1>3
    <2>2. /\ e \in Entries /\ e.kind = "start" /\ e.reqs = reqs /\ e.intent = intent + 1
          /\ e.stage = "queued"
      BY NoScopeEntry
    <2> HIDE DEF e
    <2>3. health'.stage # "stopping" => \A i \in DOMAIN chain : chain[i].kind # "rollback"
      BY <1>1 DEF QueueInv
    <2>4. health'.stage = "watch" => health' = health
      BY <1>1
    <2>5. /\ QueueInv' /\ intent' \in Nat /\ last' \in [Plugins -> Nat] /\ vpn' \in Vpns
          /\ Adds(Len(chain) + 1, reqs)
      BY <1>1, <2>1, <2>2, <2>3, <2>4, EnqueueAdds
    <2>6. startReq' \in Nat
      BY <1>3 DEF CoreTypes
    <2> QED
      BY <2>5, <2>6 DEF Adds
  <1> QED
    BY <1>2, <1>3 DEF RequestStart

(* An operation without a receipt.                                         *)
LEMMA NoReceiptKeeps ==
    ASSUME CommandInv, UNCHANGED <<root, nextId, active, seen, tasks, inbox, ops>>,
           CoreTypes', QueueInv', NEW i, Adds(i, {})
    PROVE  CommandInv'
  <1>1. \A j \in DOMAIN chain : j \in DOMAIN chain' /\ chain'[j].reqs = chain[j].reqs
    BY DEF Adds
  <1>2. \A j \in DOMAIN chain' : j \in DOMAIN chain \/ chain'[j].reqs = {}
    BY DEF Adds
  <1> QED
    BY <1>1, <1>2, QueueBeside

(* Nothing but what is shown of the queue and the session changes.         *)
LEMMA SessionKeeps ==
    ASSUME CommandInv,
           UNCHANGED <<root, nextId, active, seen, tasks, inbox, ops, chain, intent>>,
           CoreTypes', health' = health \/ health' = NoHealth,
           health' = NoHealth => \A i \in DOMAIN chain : chain[i].kind # "rollback"
    PROVE  CommandInv'
  <1>1. QueueInv /\ health \in Healths \cup {NoHealth} /\ NoHealth.stage = "none" /\ seen' \in Vpns
    BY CommandParts, HealthType DEF UiTypes
  <1>2. QueueInv'
    BY <1>1 DEF QueueInv
  <1> QED
    BY <1>1, <1>2, BesideKeeps

(* The calls that ask about an operation.                                  *)
LEMMA ObserveKeeps ==
    ASSUME CommandInv, HandleAwait \/ HandleLookup
    PROVE  CommandInv'
  <1>1. UiTypes /\ CoreTypes /\ QueueInv /\ cfg \in Nat
    BY CommandParts
  <1>2. \E k \in DOMAIN tasks : TaskStep(k)
    BY <1>1, AwaitStep, LookupStep
  <1>3. PICK k \in DOMAIN tasks : TaskStep(k)
    BY <1>2
  <1>4. CoreTypes' /\ QueueInv'
    BY <1>1, CoreStays DEF HandleAwait, HandleLookup, coreVars
  <1>5. UiTypes'
    BY <1>1, <1>3 DEF TaskStep, Progress, Renews, InboxTyped, UiTypes
  <1> QED
    BY <1>3, <1>4, <1>5, TaskStepRemembers, FromParts

LEMMA RecreateKeeps ==
    ASSUME ConstantsOK, CommandInv, RecreatePlugin
    PROVE  CommandInv'
  <1>1. UiTypes /\ CoreTypes /\ QueueInv
    BY CommandParts
  <1>2. plugin' \in Plugins
    BY <1>1, Numbers DEF RecreatePlugin, CoreTypes, Plugins
  <1>3. seen' \in Vpns /\ CoreTypes'
    BY <1>1, <1>2 DEF RecreatePlugin, uiVars, coreVars, CoreTypes, UiTypes
  <1>4. QueueInv'
    BY <1>1 DEF RecreatePlugin, coreVars, QueueInv
  <1> QED
    BY <1>3, <1>4, BesideKeeps DEF RecreatePlugin, uiVars, coreVars

LEMMA WatchType ==
    ASSUME QueueInv, chain # <<>>, NEW s \in Nat
    PROVE  /\ Watch(s) \in Healths \cup {NoHealth}
           /\ Watch(s).stage = "watch" => Watch(s).intent = chain[1].intent
  <1> DEFINE i == chain[1].intent
             p == chain[1].plugin
             h == [stage |-> "watch", sid |-> s, intent |-> i, plugin |-> p]
  <1>1. i \in Nat /\ p \in Plugins
    BY EntryType
  <1>2. Watch(s) = NoHealth \/ Watch(s) = h
    BY DEF Watch, Front1
  <1> HIDE DEF i, p
  <1>3. h \in Healths /\ h.intent = i
    BY <1>1 DEF Healths
  <1> HIDE DEF h
  <1> QED
    BY <1>2, <1>3, HealthType DEF i

LEMMA BeginStartKeeps ==
    ASSUME CommandInv, BeginStart
    PROVE  CommandInv'
  <1>1. UiTypes /\ CoreTypes /\ QueueInv
    BY CommandParts
  <1>2. /\ chain # <<>> /\ Stage("starting") /\ chain[1].kind \in {"start", "Restart"}
        /\ vpn' = [up |-> "starting", sid |-> chain[1].intent, stop |-> FALSE]
        /\ UNCHANGED <<root, nextId, active, seen, tasks, inbox, pluginVars, ops, intent, cfg,
                       lost, health, user, quiet>>
    BY DEF BeginStart, Front1, uiVars
  <1>3. chain[1].intent \in Nat
    BY <1>1, <1>2, EntryType
  <1>4. vpn' \in Vpns
    BY <1>2, <1>3 DEF Vpns
  <1>5. /\ QueueInv' /\ DOMAIN chain' = DOMAIN chain
        /\ \A i \in DOMAIN chain : chain'[i].reqs = chain[i].reqs
    BY <1>1, <1>2, StageKeeps DEF Stages
  <1>6. CoreTypes'
    BY <1>1, <1>2, <1>4 DEF CoreTypes, pluginVars
  <1> QED
    BY <1>2, <1>5, <1>6, QueueBeside

LEMMA EndStartKeeps ==
    ASSUME CommandInv, EndStart
    PROVE  CommandInv'
  <1>1. UiTypes /\ CoreTypes /\ QueueInv /\ health \in Healths \cup {NoHealth} /\ cfg \in Nat
    BY CommandParts, HealthType
  <1>2. /\ chain # <<>>
        /\ UNCHANGED <<root, nextId, active, seen, tasks, inbox, intent, plugin, last, user, cfg, quiet>>
    BY DEF EndStart, uiVars
  <1>3. cfg' \in Nat /\ quiet' \in BOOLEAN
    BY <1>1, <1>2 DEF CoreTypes
  <1>4. ASSUME vpn' = [vpn EXCEPT !.up = "on"], health' = Watch(vpn.sid), lost' = FALSE, Settle("true")
        PROVE  CommandInv'
    <2>1. vpn' \in Vpns
      BY <1>1, <1>4, VpnType DEF Vpns
    <2>2. vpn.sid \in Nat
      BY <1>1, VpnType
    <2>3. /\ health' \in Healths \cup {NoHealth}
          /\ health'.stage = "watch" => health'.intent = chain[1].intent
      BY <1>1, <1>2, <1>4, <2>2, WatchType
    <2> QED
      BY <1>2, <1>3, <1>4, <2>1, <2>3, SettleKeeps DEF Settled
  <1>5. ASSUME vpn' = Off, lost' = (lost \/ chain[1].auto), Settle("failed"), health' = health
        PROVE  CommandInv'
    <2>1. vpn' \in Vpns
      BY <1>1, <1>5, VpnType
    <2>2. lost' \in BOOLEAN
      BY <1>5
    <2> QED
      BY <1>1, <1>2, <1>3, <1>5, <2>1, <2>2, SettleKeeps DEF Settled
  <1> QED
    BY <1>4, <1>5 DEF EndStart, Front1

LEMMA SupersededKeeps ==
    ASSUME CommandInv, Superseded
    PROVE  CommandInv'
  <1>1. UiTypes /\ CoreTypes /\ QueueInv /\ health \in Healths \cup {NoHealth} /\ NoHealth.stage = "none"
    BY CommandParts, HealthType
  <1>2. /\ chain # <<>>
        /\ UNCHANGED <<root, nextId, active, seen, tasks, inbox, intent, plugin, last, user, cfg, quiet, vpn>>
        /\ lost' = (lost \/ (chain[1].auto /\ vpn.up = "off"))
        /\ health' = health \/ health' = NoHealth
    BY DEF Superseded, uiVars, Front1
  <1>3. \E o \in Settled : Settle(o)
    BY DEF Superseded, Settled
  <1>4. cfg' \in Nat /\ quiet' \in BOOLEAN /\ vpn' \in Vpns
    BY <1>1, <1>2 DEF CoreTypes
  <1>5. lost' \in BOOLEAN
    BY <1>2
  <1>6. /\ health' \in Healths \cup {NoHealth}
        /\ health'.stage = "watch" => health' = health
    BY <1>1, <1>2
  <1> QED
    BY <1>2, <1>3, <1>4, <1>5, <1>6, SettleKeeps

LEMMA BeginStopKeeps ==
    ASSUME CommandInv, BeginStop
    PROVE  CommandInv'
  <1>1. UiTypes /\ CoreTypes /\ QueueInv
    BY CommandParts
  <1>2. /\ chain # <<>> /\ Stage("stopping") /\ lost' = (lost /\ vpn.up = "off")
        /\ UNCHANGED <<root, nextId, active, seen, tasks, inbox, pluginVars, ops, intent, cfg,
                       vpn, health, user, quiet>>
    BY DEF BeginStop, Front1, uiVars
  <1>3. lost' \in BOOLEAN
    BY <1>2
  <1>4. /\ QueueInv' /\ DOMAIN chain' = DOMAIN chain
        /\ \A i \in DOMAIN chain : chain'[i].reqs = chain[i].reqs
    BY <1>1, <1>2, StageKeeps DEF Stages
  <1>5. CoreTypes'
    BY <1>1, <1>2, <1>3 DEF CoreTypes, pluginVars
  <1> QED
    BY <1>2, <1>4, <1>5, QueueBeside

(* The health check goes on behind its stop.                               *)
LEMMA StoppedType ==
    ASSUME QueueInv, chain # <<>>, chain[1].kind = "rollback"
    PROVE  /\ [health EXCEPT !.stage = "stopped"] \in Healths
           /\ [health EXCEPT !.stage = "stopped"].stage = "stopped"
  <1>1. 1 \in DOMAIN chain
    BY EntryType
  <1>2. health \in Healths
    BY <1>1, HealthType DEF QueueInv
  <1> QED
    BY <1>2 DEF Healths

LEMMA EndStopKeeps ==
    ASSUME CommandInv, EndStop
    PROVE  CommandInv'
  <1>1. /\ UiTypes /\ CoreTypes /\ QueueInv /\ health \in Healths \cup {NoHealth}
        /\ NoHealth.stage = "none"
    BY CommandParts, HealthType
  <1>2. /\ chain # <<>>
        /\ UNCHANGED <<root, nextId, active, seen, tasks, inbox, intent, plugin, retained, last,
                       user, cfg, lost>>
    BY DEF EndStop, uiVars
  <1>3. cfg' \in Nat /\ lost' \in BOOLEAN
    BY <1>1, <1>2 DEF CoreTypes
  <1>4. /\ (vpn' = Off \/ vpn' = vpn) /\ vpn' \in Vpns
    BY <1>1, VpnType DEF EndStop
  <1>5. /\ health' \in Healths \cup {NoHealth}
        /\ health'.stage = "watch" => health' = health
    <2>1. \/ chain[1].kind = "rollback" /\ health' = [health EXCEPT !.stage = "stopped"]
          \/ health' = health \/ health' = NoHealth
      BY DEF EndStop, Front1
    <2>2. CASE chain[1].kind = "rollback" /\ health' = [health EXCEPT !.stage = "stopped"]
      BY <1>1, <1>2, <2>2, StoppedType
    <2>3. CASE health' = health \/ health' = NoHealth
      BY <1>1, <2>3
    <2> QED
      BY <2>1, <2>2, <2>3
  <1>6. \/ /\ chain[1].kind = "Restart" /\ Stage("stopped")
           /\ UNCHANGED <<ops, startReq, quiet, health>>
        \/ /\ \E o \in Settled : Settle(o)
           /\ quiet' = quiet \/ quiet' = IntentCurrent
    BY DEF EndStop, Front1, Settled
  <1>7. CASE /\ chain[1].kind = "Restart" /\ Stage("stopped")
             /\ UNCHANGED <<ops, startReq, quiet, health>>
    <2>1. /\ QueueInv' /\ DOMAIN chain' = DOMAIN chain
          /\ \A i \in DOMAIN chain : chain'[i].reqs = chain[i].reqs
      BY <1>1, <1>2, <1>7, StageKeeps DEF Stages
    <2>2. CoreTypes'
      BY <1>1, <1>2, <1>4, <1>7 DEF CoreTypes
    <2> QED
      BY <1>2, <1>7, <2>1, <2>2, QueueBeside
  <1>8. CASE /\ \E o \in Settled : Settle(o)
             /\ quiet' = quiet \/ quiet' = IntentCurrent
    <2>1. quiet' \in BOOLEAN
      BY <1>1, <1>8 DEF CoreTypes, IntentCurrent
    <2> QED
      BY <1>2, <1>3, <1>4, <1>5, <1>8, <2>1, SettleKeeps
  <1> QED
    BY <1>6, <1>7, <1>8

LEMMA ChainKeeps ==
    ASSUME CommandInv, ChainNext
    PROVE  CommandInv'
  BY BeginStartKeeps, EndStartKeeps, SupersededKeeps, BeginStopKeeps, EndStopKeeps DEF ChainNext

(* Starts and stops that nobody tapped for.                                *)
LEMMA RollBackKeeps ==
    ASSUME CommandInv, RollBack
    PROVE  CommandInv'
  <1>1. UiTypes /\ CoreTypes /\ QueueInv
    BY CommandParts
  <1>2. /\ health.stage = "watch"
        /\ UNCHANGED <<root, nextId, active, seen, tasks, inbox, plugin, startReq, ops,
                       cfg, lost, user, quiet>>
    BY DEF RollBack, uiVars
  <1>3. health \in Healths /\ health.intent \in Nat /\ health.plugin \in Plugins
        /\ health.sid \in Nat /\ NoHealth.stage = "none"
    BY <1>1, <1>2, HealthType
  <1>4. \A i \in DOMAIN chain : chain[i].kind # "rollback"
    BY <1>2 DEF CommandInv, Types, QueueInv
  <1> DEFINE e == Entry("rollback", health.plugin, {}, FALSE, NoScope)
  <1>5. /\ e \in Entries /\ e.kind = "rollback" /\ e.reqs = {} /\ e.intent = intent + 1
        /\ e.stage = "queued"
    <2>1. intent + 1 \in Nat
      BY <1>1 DEF CoreTypes
    <2> QED
      BY <1>3, <2>1 DEF Entry, Entries, NoScope
  <1>6. ASSUME HealthCurrent, Enqueue(e),
               health' = [health EXCEPT !.stage = "stopping", !.intent = intent + 1]
        PROVE  CommandInv'
    <2> HIDE DEF e
    <2>1. intent + 1 \in Nat
      BY <1>1 DEF CoreTypes
    <2>2. health' \in Healths /\ health'.stage = "stopping"
      BY <1>3, <1>6, <2>1 DEF Healths
    <2>3. chain = <<>>
      <3>1. ASSUME chain # <<>>
            PROVE  FALSE
        <4>1. 1 \in DOMAIN chain
          BY <1>1, <3>1, EntryType
        <4>2. chain[1].intent <= intent /\ health.intent < chain[1].intent /\ intent = health.intent
          BY <1>1, <1>2, <1>6, <4>1 DEF QueueInv, HealthCurrent
        <4> QED
          BY <1>1, <1>3, <4>1, <4>2, EntryType
      <3> QED
        BY <3>1
    <2>4. /\ QueueInv' /\ intent' \in Nat /\ last' \in [Plugins -> Nat] /\ vpn' \in Vpns
          /\ Adds(Len(chain) + 1, {})
      BY <1>1, <1>6, <1>5, <2>2, <2>3, EnqueueAdds
    <2>5. CoreTypes'
      BY <1>1, <1>2, <2>4 DEF CoreTypes
    <2> QED
      BY <1>2, <2>4, <2>5, NoReceiptKeeps
  <1>7. ASSUME health' = NoHealth, UNCHANGED <<chain, intent, last, vpn>>
        PROVE  CommandInv'
    <2>1. CoreTypes'
      BY <1>1, <1>2, <1>7 DEF CoreTypes
    <2> QED
      BY <1>2, <1>4, <1>7, <2>1, SessionKeeps
  <1> QED
    BY <1>6, <1>7 DEF RollBack

LEMMA BaselineKeeps ==
    ASSUME CommandInv, StartBaseline
    PROVE  CommandInv'
  <1>1. UiTypes /\ CoreTypes /\ QueueInv
    BY CommandParts
  <1>2. /\ health.stage = "stopped" /\ health' = NoHealth
        /\ UNCHANGED <<root, nextId, active, seen, tasks, inbox, plugin, ops, cfg, lost, user, quiet>>
    BY DEF StartBaseline, uiVars
  <1>3. health.plugin \in Plugins
    BY <1>1, <1>2, HealthType
  <1>4. \A i \in DOMAIN chain : chain[i].kind # "rollback"
    BY <1>2 DEF CommandInv, Types, QueueInv
  <1>5. ASSUME RequestStart(health.plugin, {}, FALSE)
        PROVE  CommandInv'
    <2>1. /\ QueueInv' /\ intent' \in Nat /\ last' \in [Plugins -> Nat] /\ vpn' \in Vpns
          /\ startReq' \in Nat
          /\ \E i \in DOMAIN chain' : Adds(i, {})
      BY <1>1, <1>2, <1>3, <1>5, RequestAdds
    <2>2. CoreTypes'
      BY <1>1, <1>2, <2>1 DEF CoreTypes
    <2> QED
      BY <1>2, <2>1, <2>2, NoReceiptKeeps
  <1>6. ASSUME Unqueued
        PROVE  CommandInv'
    <2>1. CoreTypes'
      BY <1>1, <1>2, <1>6 DEF CoreTypes, Unqueued
    <2> QED
      BY <1>2, <1>4, <1>6, <2>1, SessionKeeps DEF Unqueued
  <1> QED
    BY <1>5, <1>6 DEF StartBaseline

LEMMA ExitKeeps ==
    ASSUME CommandInv, UnexpectedExit
    PROVE  CommandInv'
  <1>1. UiTypes /\ CoreTypes /\ QueueInv
    BY CommandParts
  <1>2. /\ vpn' = Off /\ lost' = ~vpn.stop /\ UNCHANGED health
        /\ UNCHANGED <<root, nextId, active, seen, tasks, inbox, ops, chain, intent>>
        /\ UNCHANGED <<pluginVars, cfg, user, quiet>>
    BY DEF UnexpectedExit, uiVars
  <1>3. vpn' \in Vpns /\ lost' \in BOOLEAN
    BY <1>1, <1>2, VpnType
  <1>4. CoreTypes'
    BY <1>1, <1>2, <1>3 DEF CoreTypes, pluginVars
  <1>5. QueueInv' /\ seen' \in Vpns
    BY <1>1, <1>2 DEF QueueInv, UiTypes
  <1> QED
    BY <1>2, <1>4, <1>5, BesideKeeps

LEMMA RecoverWakes ==
    ASSUME CommandInv, AutoRecover
    PROVE  CommandInv'
  <1>1. UiTypes /\ CoreTypes /\ QueueInv /\ plugin \in Plugins
    BY CommandParts DEF CoreTypes
  <1>2. /\ RequestStart(plugin, {}, TRUE) /\ lost' = FALSE /\ health' = health
        /\ UNCHANGED <<root, nextId, active, seen, tasks, inbox, plugin, ops, cfg, user, quiet>>
    BY DEF AutoRecover, uiVars
  <1>3. /\ QueueInv' /\ intent' \in Nat /\ last' \in [Plugins -> Nat] /\ vpn' \in Vpns
        /\ startReq' \in Nat
        /\ \E i \in DOMAIN chain' : Adds(i, {})
    BY <1>1, <1>2, RequestAdds
  <1>4. CoreTypes'
    BY <1>1, <1>2, <1>3 DEF CoreTypes
  <1> QED
    BY <1>2, <1>3, <1>4, NoReceiptKeeps

-----------------------------------------------------------------------------
(* A submitted request reaches the plugin                                  *)

(* Its record goes on, or the caller has given up waiting.                 *)
Handled(k) ==
    /\ Kept /\ tasks' \in Seq(TaskRecs)
    /\ \A u \in DOMAIN tasks : /\ tasks'[u].answer = tasks[u].answer
                               /\ tasks'[u].pc \in Waiting => tasks[u].pc \in Waiting
                               /\ tasks'[u].pc = "answered" => tasks[u].pc = "answered"

LEMMA HandledFacts ==
    ASSUME UiTypes, CoreTypes, NEW k \in DOMAIN tasks, NEW o \in Nat,
           \/ tasks' = [tasks EXCEPT ![k].pc = "observe", ![k].opid = o]
           \/ tasks' = tasks
    PROVE  Handled(k)
  <1>1. CASE tasks' = [tasks EXCEPT ![k].pc = "observe", ![k].opid = o]
    <2>1. Renewed(k, "observe", tasks[k].answer)
      BY <1>1, FoundFacts DEF Pcs
    <2>2. Kept
      BY <2>1, RenewsKeep DEF Renewed
    <2>3. /\ tasks' \in Seq(TaskRecs) /\ tasks'[k].pc = "observe" /\ tasks'[k].answer = tasks[k].answer
          /\ \A u \in DOMAIN tasks : u # k => tasks'[u] = tasks[u]
      BY <2>1 DEF Renewed, Renews
    <2> QED
      BY <2>2, <2>3 DEF Handled, Waiting
  <1>2. CASE tasks' = tasks
    BY <1>2 DEF Handled, Kept, UiTypes
  <1> QED
    BY <1>1, <1>2

(* The request becomes an operation, or is refused.                        *)
LEMMA HandledKeeps ==
    ASSUME CommandInv, inbox # <<>>, NEW k \in DOMAIN tasks, inbox[1].task = k,
           inbox[1].call = "submitting", inbox' = Tail(inbox), Handled(k),
           UNCHANGED <<root, nextId, active, seen>>, CoreTypes', QueueInv',
           NEW o \in {"none", "failed", "false", "queued"},
           \A r \in Reqs : ops'[r] = IF r = tasks[k].req THEN o ELSE ops[r],
           tasks[k].action = "Stop" => o # "false",
           o # "queued" => chain' = chain,
           o = "queued" =>
              \E i \in DOMAIN chain' :
                  Adds(i, {tasks[k].req}) /\ (tasks[k].action = "Stop" => i \notin DOMAIN chain)
    PROVE  CommandInv'
  <1> DEFINE req == tasks[k].req
  <1>1. /\ UiTypes /\ CoreTypes /\ QueueInv /\ TaskInv /\ SubmitInv /\ ReceiptInv /\ OrderInv
        /\ RememberInv
    BY CommandParts
  <1>2. /\ Kept /\ Cmds' = Cmds /\ Cmds \subseteq DOMAIN tasks /\ DOMAIN tasks' = DOMAIN tasks
        /\ tasks' \in Seq(TaskRecs)
        /\ \A u \in DOMAIN tasks : tasks'[u].req = tasks[u].req /\ tasks'[u].action = tasks[u].action
    BY KeptCmds DEF Handled, Kept
  <1>3. /\ InboxTyped' /\ FromOld /\ 1 \in DOMAIN inbox
        /\ \A i \in DOMAIN inbox' : /\ i \in Nat /\ i + 1 \in DOMAIN inbox
                                    /\ inbox'[i] = inbox[i + 1] /\ i + 1 # 1
    BY <1>1, <1>2, InboxTaken
  <1>4. k \in Cmds /\ tasks[k].pc \notin Waiting /\ ops[req] = "none" /\ InFlight(k)
    BY <1>1, <1>3 DEF SubmitInv, InFlight
  <1>5. \A u \in DOMAIN tasks : tasks[u].req \in Reqs
    BY <1>1, TaskType
  <1>6. \A c \in Cmds : tasks[c].req = req => c = k
    BY <1>1, <1>4 DEF TaskInv
  <1> HIDE DEF req
  <1>7. /\ ops'[req] = o /\ req \in Reqs
        /\ \A r \in Reqs : r # req => ops'[r] = ops[r]
        /\ \A i \in DOMAIN chain : req \notin chain[i].reqs
        /\ o = "queued" => \E i \in DOMAIN chain' :
               Adds(i, {req}) /\ (tasks[k].action = "Stop" => i \notin DOMAIN chain)
    <2>1. req \in Reqs
      BY <1>5 DEF req
    <2>2. \A i \in DOMAIN chain : req \notin chain[i].reqs
      BY <1>1, <1>4, <2>1 DEF ReceiptInv
    <2> QED
      BY <2>1, <2>2 DEF req
  <1>8. \A i \in DOMAIN inbox' : inbox'[i].call = "submitting" => inbox'[i].task # k
    BY <1>1, <1>3 DEF SubmitInv
  <1>9. \A u : InFlight(u)' => InFlight(u) /\ u # k
    <2>1. \A u : InFlight(u)' => InFlight(u)
      BY <1>3, FlightFromOld
    <2>2. ~InFlight(k)'
      BY <1>8 DEF InFlight
    <2> QED
      BY <2>1, <2>2
  <1>10. TaskInv'
    BY <1>1, <1>2, KeptTaskInv
  <1>11. \A c \in Cmds : Resolved(c) => Resolved(c)'
    <2>1. ASSUME NEW c \in Cmds
          PROVE  ops'[tasks[c].req] = "queued" => ops[tasks[c].req] = "queued" \/ InFlight(c)
      BY <1>2, <1>4, <1>5, <1>6, <1>7
    <2>2. \A u \in DOMAIN tasks : tasks'[u].pc \in Waiting => tasks[u].pc \in Waiting
      BY DEF Handled
    <2> QED
      BY <1>2, <1>9, <2>1, <2>2, ResolvedStays
  <1>12. SubmitInv'
    <2>1. ASSUME NEW i \in DOMAIN inbox', inbox'[i].call = "submitting"
          PROVE  /\ inbox'[i].task \in Cmds' /\ tasks'[inbox'[i].task].pc \notin Waiting
                 /\ ops'[tasks'[inbox'[i].task].req] = "none"
      <3> DEFINE u == inbox'[i].task
      <3>1. /\ u \in Cmds /\ tasks[u].pc \notin Waiting /\ ops[tasks[u].req] = "none" /\ u # k
        BY <1>1, <1>3, <1>8, <2>1 DEF SubmitInv
      <3> HIDE DEF u
      <3>2. ops'[tasks[u].req] = "none"
        BY <1>2, <1>5, <1>6, <1>7, <3>1
      <3>3. u \in Cmds' /\ tasks'[u].pc \notin Waiting /\ ops'[tasks'[u].req] = "none"
        BY <1>2, <3>1, <3>2 DEF Handled
      <3> QED
        BY <3>3 DEF u
    <2>2. ASSUME NEW i \in DOMAIN inbox', NEW j \in DOMAIN inbox',
                 inbox'[i].call = "submitting", inbox'[j].call = "submitting",
                 inbox'[i].task = inbox'[j].task
          PROVE  i = j
      <3>1. PICK u \in DOMAIN inbox, v \in DOMAIN inbox :
                inbox[u] = inbox'[i] /\ inbox[v] = inbox'[j] /\ (u = v => i = j)
        BY <1>3, <2>2 DEF FromOld
      <3>2. u = v
        BY <1>1, <2>2, <3>1 DEF SubmitInv
      <3> QED
        BY <3>1, <3>2
    <2>3. ASSUME NEW u \in DOMAIN tasks, tasks'[u].pc \in Waiting
          PROVE  u \in Cmds' /\ tasks'[u].answer = "none" /\ ops'[tasks'[u].req] = "none"
      <3>1. /\ tasks[u].pc \in Waiting /\ tasks'[u].answer = tasks[u].answer
        BY <2>3 DEF Handled
      <3>2. u \in Cmds /\ tasks[u].answer = "none" /\ ops[tasks[u].req] = "none" /\ u # k
        BY <1>1, <1>4, <3>1 DEF SubmitInv
      <3>3. ops'[tasks[u].req] = "none"
        BY <1>5, <1>6, <1>7, <3>2
      <3> QED
        BY <1>2, <3>1, <3>2, <3>3
    <2>4. ASSUME NEW u \in DOMAIN tasks
          PROVE  tasks'[u].answer = tasks[u].answer /\ (tasks'[u].pc = "answered" => tasks'[u].answer # "none")
      BY <1>1 DEF Handled, SubmitInv
    <2>5. ASSUME NEW u \in DOMAIN tasks, tasks'[u].answer \in {"true", "false"}
          PROVE  ops'[tasks'[u].req] = tasks'[u].answer
      <3>1. ops[tasks[u].req] = tasks[u].answer /\ tasks[u].answer # "none"
        BY <1>1, <2>4, <2>5 DEF SubmitInv
      <3>2. tasks[u].req # req
        BY <1>4, <3>1
      <3> QED
        BY <1>2, <1>5, <1>7, <2>4, <3>1, <3>2
    <2>6. ASSUME NEW u \in DOMAIN tasks, tasks'[u].answer \in Settled,
                 NEW c \in Cmds, tasks'[c].req = tasks'[u].req
          PROVE  Resolved(c)'
      <3>1. Resolved(c)
        BY <1>1, <1>2, <2>4, <2>6 DEF SubmitInv
      <3> QED
        BY <1>11, <3>1
    <2> QED
      BY <1>2, <2>1, <2>2, <2>3, <2>4, <2>5, <2>6 DEF SubmitInv
  <1>13. /\ \A i \in DOMAIN chain', r \in Reqs :
               r \in chain'[i].reqs => (r = req /\ o = "queued") \/ (i \in DOMAIN chain /\ r \in chain[i].reqs)
         /\ \A i \in DOMAIN chain : i \in DOMAIN chain' /\ chain[i].reqs \subseteq chain'[i].reqs
    <2>1. CASE o = "queued"
      <3>1. PICK i \in DOMAIN chain' : Adds(i, {req})
        BY <1>7, <2>1
      <3> QED
        BY <2>1, <3>1 DEF Adds
    <2>2. CASE o # "queued"
      BY <2>2
    <2> QED
      BY <2>1, <2>2
  <1>14. \A i, j \in DOMAIN chain' : req \in chain'[i].reqs /\ req \in chain'[j].reqs => i = j
    <2>1. CASE o = "queued"
      <3>1. PICK i \in DOMAIN chain' : Adds(i, {req})
        BY <1>7, <2>1
      <3>2. \A j \in DOMAIN chain' : req \in chain'[j].reqs => j = i
        BY <1>7, <3>1 DEF Adds
      <3> QED
        BY <3>2
    <2>2. CASE o # "queued"
      BY <1>7, <2>2
    <2> QED
      BY <2>1, <2>2
  <1>15. ReceiptInv'
    <2>1. ASSUME NEW r \in Reqs
          PROVE  ops'[r] = "queued" <=> \E i \in DOMAIN chain' : r \in chain'[i].reqs
      <3>1. CASE r = req
        <4>1. o = "queued" => \E i \in DOMAIN chain' : req \in chain'[i].reqs
          BY <1>7 DEF Adds
        <4> QED
          BY <1>7, <1>13, <3>1, <4>1
      <3>2. CASE r # req
        <4>1. ops[r] = "queued" <=> \E i \in DOMAIN chain : r \in chain[i].reqs
          BY <1>1 DEF ReceiptInv
        <4> QED
          BY <1>7, <1>13, <3>2, <4>1
      <3> QED
        BY <3>1, <3>2
    <2>2. ASSUME NEW i \in DOMAIN chain', NEW j \in DOMAIN chain',
                 chain'[i].reqs \cap chain'[j].reqs # {}
          PROVE  i = j
      <3>1. PICK r \in chain'[i].reqs : r \in chain'[j].reqs
        BY <2>2
      <3>2. r \in Reqs
        <4>1. chain' \in Seq(Entries)
          BY DEF QueueInv
        <4>2. chain'[i] \in Entries
          BY <4>1, LenProperties
        <4> QED
          BY <3>1, <4>2 DEF Entries
      <3>3. CASE r = req
        BY <1>14, <3>1, <3>3
      <3>4. CASE r # req
        <4>1. i \in DOMAIN chain /\ j \in DOMAIN chain /\ r \in chain[i].reqs /\ r \in chain[j].reqs
          BY <1>13, <3>1, <3>2, <3>4
        <4> QED
          BY <1>1, <4>1 DEF ReceiptInv
      <3> QED
        BY <3>3, <3>4
    <2>3. ASSUME NEW r \in Reqs, ops'[r] # "none"
          PROVE  \E c \in Cmds' : tasks'[c].req = r
      <3>1. CASE r = req
        BY <1>2, <1>4, <3>1 DEF req
      <3>2. CASE r # req
        <4>1. PICK c \in Cmds : tasks[c].req = r
          BY <1>1, <1>7, <2>3, <3>2 DEF ReceiptInv
        <4> QED
          BY <1>2, <4>1
      <3> QED
        BY <3>1, <3>2
    <2> QED
      BY <2>1, <2>2, <2>3 DEF ReceiptInv
  <1>16. OrderInv'
    <2> SUFFICES ASSUME NEW j \in Cmds, NEW u \in Cmds, Before(j, u)'
                 PROVE  /\ \A p, q \in DOMAIN inbox' :
                              /\ inbox'[p].call = "submitting" /\ inbox'[p].task = j
                              /\ inbox'[q].call = "submitting" /\ inbox'[q].task = u
                              => p < q
                        /\ ops'[tasks'[u].req] # "none" => ~InFlight(j)'
                        /\ tasks'[u].action = "Stop" =>
                              /\ \A a, b \in DOMAIN chain' :
                                    tasks'[j].req \in chain'[a].reqs /\ tasks'[u].req \in chain'[b].reqs
                                    => a < b
                              /\ ops'[tasks'[u].req] \in {"true", "false"} => ops'[tasks'[j].req] # "queued"
      BY <1>2 DEF OrderInv
    <2>1. Before(j, u) /\ j # u
      <3>1. Before(j, u)
        BY <1>2 DEF Before, Kept
      <3>2. tasks[j].id \in Nat
        BY <1>1, <1>2, TaskType
      <3> QED
        BY <3>1, <3>2 DEF Before
    <2>2. tasks[j].req \in Reqs /\ tasks[u].req \in Reqs /\ tasks'[j].req = tasks[j].req
          /\ tasks'[u].req = tasks[u].req /\ tasks'[u].action = tasks[u].action
      BY <1>2, <1>5
    <2>3. ASSUME NEW p \in DOMAIN inbox', NEW q \in DOMAIN inbox',
                 inbox'[p].call = "submitting", inbox'[p].task = j,
                 inbox'[q].call = "submitting", inbox'[q].task = u
          PROVE  p < q
      <3>1. PICK x \in DOMAIN inbox, y \in DOMAIN inbox :
                inbox[x] = inbox'[p] /\ inbox[y] = inbox'[q] /\ (x < y => p < q)
        BY <1>3, <2>3 DEF FromOld
      <3>2. x < y
        BY <1>1, <2>1, <2>3, <3>1 DEF OrderInv
      <3> QED
        BY <3>1, <3>2
    <2>4. /\ ops[tasks[u].req] # "none" => ~InFlight(j)
          /\ tasks[u].action = "Stop" =>
                \A a, b \in DOMAIN chain :
                    tasks[j].req \in chain[a].reqs /\ tasks[u].req \in chain[b].reqs => a < b
          /\ tasks[u].action = "Stop" /\ ops[tasks[u].req] \in {"true", "false"}
                => ops[tasks[j].req] # "queued"
      BY <1>1, <2>1 DEF OrderInv
    <2>5. ASSUME ops'[tasks[u].req] # "none"
          PROVE  ~InFlight(j)'
      <3>1. CASE u = k
        <4>1. ASSUME NEW p \in DOMAIN inbox', inbox'[p].call = "submitting", inbox'[p].task = j
              PROVE  FALSE
          <5>1. /\ p \in Nat /\ p + 1 \in DOMAIN inbox /\ inbox[p + 1].call = "submitting"
                /\ inbox[p + 1].task = j
            BY <1>3, <4>1
          <5>2. p + 1 < 1
            BY <1>1, <1>3, <2>1, <3>1, <5>1 DEF OrderInv
          <5> QED
            BY <5>1, <5>2
        <4> QED
          BY <4>1 DEF InFlight
      <3>2. CASE u # k
        BY <1>6, <1>7, <1>9, <2>2, <2>4, <2>5, <3>2
      <3> QED
        BY <3>1, <3>2
    <2>6. ASSUME tasks[u].action = "Stop", NEW a \in DOMAIN chain', NEW b \in DOMAIN chain',
                 tasks[j].req \in chain'[a].reqs, tasks[u].req \in chain'[b].reqs
          PROVE  a < b
      <3>1. CASE u = k
        <4>1. tasks[u].req = req /\ tasks[j].req # req
          BY <1>6, <2>1, <3>1 DEF req
        <4>2. o = "queued"
          BY <1>7, <1>13, <2>6, <4>1
        <4>3. PICK i \in DOMAIN chain' : Adds(i, {req}) /\ i \notin DOMAIN chain
          BY <1>7, <2>6, <3>1, <4>2
        <4>4. b = i
          BY <1>7, <2>6, <4>1, <4>3 DEF Adds
        <4>5. a \in DOMAIN chain
          BY <1>13, <2>2, <2>6, <4>1
        <4> QED
          BY <4>3, <4>4, <4>5 DEF Adds
      <3>2. CASE u # k
        <4>1. tasks[u].req # req
          BY <1>6, <3>2
        <4>2. b \in DOMAIN chain /\ tasks[u].req \in chain[b].reqs
          BY <1>13, <2>2, <2>6, <4>1
        <4>3. ops[tasks[u].req] # "none"
          BY <1>1, <2>2, <4>2 DEF ReceiptInv
        <4>4. j # k
          BY <1>4, <2>4, <4>3
        <4>5. tasks[j].req # req
          BY <1>6, <4>4
        <4>6. a \in DOMAIN chain /\ tasks[j].req \in chain[a].reqs
          BY <1>13, <2>2, <2>6, <4>5
        <4> QED
          BY <2>4, <2>6, <4>2, <4>6
      <3> QED
        BY <3>1, <3>2
    <2>7. ASSUME tasks[u].action = "Stop", ops'[tasks[u].req] \in {"true", "false"}
          PROVE  ops'[tasks[j].req] # "queued"
      <3>1. u # k
        BY <1>7, <2>7 DEF req
      <3>2. tasks[u].req # req
        BY <1>6, <3>1
      <3>3. ops[tasks[u].req] \in {"true", "false"}
        BY <1>7, <2>2, <2>7, <3>2
      <3>4. j # k
        BY <1>4, <2>4, <3>3
      <3>5. tasks[j].req # req
        BY <1>6, <3>4
      <3> QED
        BY <1>7, <2>2, <2>4, <2>7, <3>3, <3>5
    <2> QED
      BY <2>2, <2>3, <2>5, <2>6, <2>7
  <1>17. RememberInv'
    <2>1. \A c \in Cmds : tasks'[c].pc \in Waiting => tasks[c].pc \in Waiting
      BY <1>2 DEF Handled
    <2> QED
      BY <1>1, <1>2, <1>11, <2>1, RememberStays
  <1>18. UiTypes'
    BY <1>1, <1>2, <1>3 DEF UiTypes, InboxTyped
  <1> QED
    BY <1>10, <1>12, <1>15, <1>16, <1>17, <1>18, FromParts

LEMMA CreateOutcome ==
    ASSUME CommandInv, NEW k \in DOMAIN tasks, Create(tasks[k]), health' = health
    PROVE  /\ QueueInv' /\ intent' \in Nat /\ last' \in [Plugins -> Nat] /\ vpn' \in Vpns
           /\ startReq' \in Nat
           /\ \E o \in {"failed", "false", "queued"} :
                 /\ ops' = [ops EXCEPT ![tasks[k].req] = o]
                 /\ tasks[k].action = "Stop" => o # "false"
                 /\ o # "queued" => chain' = chain
                 /\ o = "queued" =>
                       \E i \in DOMAIN chain' :
                          /\ Adds(i, {tasks[k].req})
                          /\ tasks[k].action = "Stop" => i \notin DOMAIN chain
  <1> DEFINE r == tasks[k].req
             a == tasks[k].action
             s == tasks[k].sid
             c == tasks[k].cfg
             e == Entry(a, plugin, {r}, FALSE, tasks[k])
             Queues == Enqueue(e) /\ ops' = [ops EXCEPT ![r] = "queued"] /\ UNCHANGED startReq
             Refused(o) == /\ ops' = [ops EXCEPT ![r] = o]
                           /\ UNCHANGED <<chain, startReq, vpn>>
                           /\ \/ UNCHANGED <<intent, last>>
                              \/ /\ intent' = intent + 1
                                 /\ last' = [last EXCEPT ![plugin] = intent + 1]
  <1>1. UiTypes /\ CoreTypes /\ QueueInv
    BY CommandParts
  <1>2. /\ r \in Reqs /\ a \in Commands /\ s \in Nat /\ c \in Nat
    BY <1>1, TaskType
  <1>3. /\ intent \in Nat /\ intent + 1 \in Nat /\ plugin \in Plugins /\ last \in [Plugins -> Nat]
        /\ vpn \in Vpns /\ startReq \in Nat
    BY <1>1 DEF CoreTypes
  <1>4. CASE RequestStart(plugin, {r}, FALSE) /\ ops' = [ops EXCEPT ![r] = "queued"] /\ a = "Start"
    <2>1. {r} \in SUBSET Reqs
      BY <1>2
    <2>2. /\ QueueInv' /\ intent' \in Nat /\ last' \in [Plugins -> Nat] /\ vpn' \in Vpns
          /\ startReq' \in Nat
          /\ \E i \in DOMAIN chain' : Adds(i, {r})
      BY <1>1, <1>3, <1>4, <2>1, RequestAdds
    <2> QED
      BY <1>4, <2>2
  <1>5. CASE Queues /\ a # "Start"
    <2>1. /\ e \in Entries /\ e.kind = a /\ e.reqs = {r} /\ e.intent = intent + 1
          /\ e.stage = "queued" /\ e.kind # "rollback"
      <3>1. a \in {"Stop", "Restart", "OwnedStop"}
        BY <1>2, <1>5 DEF Commands
      <3> HIDE DEF r, a, s, c
      <3>2. e = [kind |-> a, reqs |-> {r}, intent |-> intent + 1, plugin |-> plugin,
                 sid |-> s, cfg |-> c, auto |-> FALSE, stage |-> "queued"]
        BY DEF Entry, s, c
      <3> HIDE DEF e
      <3> QED
        BY <1>2, <1>3, <3>1, <3>2 DEF Entries
    <2> HIDE DEF e
    <2>2. /\ health' \in Healths \cup {NoHealth}
          /\ health'.stage # "stopping" => \A i \in DOMAIN chain : chain[i].kind # "rollback"
      BY <1>1, HealthType DEF QueueInv
    <2>3. /\ QueueInv' /\ intent' \in Nat /\ last' \in [Plugins -> Nat] /\ vpn' \in Vpns
          /\ Len(chain) + 1 \notin DOMAIN chain /\ Adds(Len(chain) + 1, {r})
      BY <1>1, <1>5, <2>1, <2>2, EnqueueAdds
    <2>4. startReq' \in Nat /\ Len(chain) + 1 \in DOMAIN chain'
      BY <1>3, <1>5, <2>3 DEF Adds
    <2> QED
      BY <1>5, <2>3, <2>4
  <1>6. ASSUME NEW o \in {"failed", "false"}, Refused(o), a = "Stop" => o # "false"
        PROVE  /\ QueueInv' /\ intent' \in Nat /\ last' \in [Plugins -> Nat] /\ vpn' \in Vpns
               /\ startReq' \in Nat
               /\ ops' = [ops EXCEPT ![r] = o] /\ chain' = chain
    <2>1. intent' \in Nat /\ intent <= intent'
      BY <1>3, <1>6
    <2>2. last' \in [Plugins -> Nat]
      BY <1>3, <1>6
    <2>3. QueueInv'
      <3>1. \A i \in DOMAIN chain : chain[i].intent \in Nat /\ chain[i].intent <= intent'
        BY <1>1, <1>3, <2>1, EntryType DEF QueueInv
      <3>2. health.stage = "watch" => health.intent <= intent'
        <4>1. ASSUME health.stage = "watch"
              PROVE  health.intent <= intent'
          <5>1. health.intent \in Nat /\ health.intent <= intent
            BY <1>1, <4>1, HealthType DEF QueueInv
          <5> QED
            BY <1>3, <2>1, <5>1
        <4> QED
          BY <4>1
      <3> QED
        BY <1>1, <1>6, <3>1, <3>2 DEF QueueInv
    <2> QED
      BY <1>3, <1>6, <2>1, <2>2, <2>3
  <1>7. \/ RequestStart(plugin, {r}, FALSE) /\ ops' = [ops EXCEPT ![r] = "queued"] /\ a = "Start"
        \/ Queues /\ a # "Start"
        \/ Refused("failed")
        \/ Refused("false") /\ a # "Stop"
    BY DEF Create, Unqueued
  <1> QED
    BY <1>4, <1>5, <1>6, <1>7

LEMMA HandleSubmitKeeps ==
    ASSUME CommandInv, HandleSubmit
    PROVE  CommandInv'
  <1> DEFINE k == Head(inbox).task
             full == Retain(tasks[k].req) = retained
  <1>1. UiTypes /\ CoreTypes /\ QueueInv /\ SubmitInv
    BY CommandParts
  <1>2. /\ inbox # <<>> /\ Head(inbox).call = "submitting" /\ inbox' = Tail(inbox)
        /\ UNCHANGED <<root, nextId, active, seen, plugin, cfg, lost, health>>
    BY DEF HandleSubmit, uiVars
  <1>3. Head(inbox) = inbox[1] /\ k \in DOMAIN tasks /\ 1 \in DOMAIN inbox
    BY <1>1, <1>2, InboxType, TailFacts
  <1>4. Handled(k)
    <2>1. \/ tasks' = [tasks EXCEPT ![k].pc = "observe", ![k].opid = IF full THEN 0 ELSE plugin]
          \/ tasks' = tasks
      BY DEF HandleSubmit
    <2>2. (IF full THEN 0 ELSE plugin) \in Nat
      BY <1>1 DEF CoreTypes, Plugins
    <2> DEFINE o == IF full THEN 0 ELSE plugin
    <2>3. (\/ tasks' = [tasks EXCEPT ![k].pc = "observe", ![k].opid = o]
           \/ tasks' = tasks) /\ o \in Nat
      BY <2>1, <2>2
    <2> HIDE DEF o, k
    <2> QED
      BY <1>1, <1>3, <2>3, HandledFacts
  <1>5. tasks[k].req \in Reqs /\ ops[tasks[k].req] = "none" /\ ops \in [Reqs -> Outcomes]
    BY <1>1, <1>2, <1>3, TaskType DEF SubmitInv, CoreTypes
  <1>6. CASE full
    <2>1. Unqueued /\ UNCHANGED <<ops, user, quiet>>
      BY <1>6 DEF HandleSubmit
    <2>2. CoreTypes' /\ QueueInv'
      BY <1>1, <1>2, <2>1 DEF CoreTypes, QueueInv, Unqueued
    <2> HIDE DEF k
    <2>3. \A r \in Reqs : ops'[r] = IF r = tasks[k].req THEN "none" ELSE ops[r]
      BY <1>5, <2>1
    <2>4. chain' = chain
      BY <2>1 DEF Unqueued
    <2>5. inbox[1].task = k /\ inbox[1].call = "submitting"
      BY <1>2, <1>3 DEF k
    <2> QED
      BY <1>2, <1>3, <1>4, <2>2, <2>3, <2>4, <2>5, HandledKeeps
  <1>7. CASE ~full
    <2>1. /\ Create(tasks[k])
          /\ user' = IF tasks[k].action \in {"Start", "Stop"} THEN intent' ELSE user
          /\ quiet' = (quiet /\ tasks[k].action # "Start")
      BY <1>7 DEF HandleSubmit
    <2> HIDE DEF k, full
    <2>2. /\ QueueInv' /\ intent' \in Nat /\ last' \in [Plugins -> Nat] /\ vpn' \in Vpns
          /\ startReq' \in Nat
          /\ \E o \in {"failed", "false", "queued"} :
                 /\ ops' = [ops EXCEPT ![tasks[k].req] = o]
                 /\ tasks[k].action = "Stop" => o # "false"
                 /\ o # "queued" => chain' = chain
                 /\ o = "queued" =>
                       \E i \in DOMAIN chain' :
                          /\ Adds(i, {tasks[k].req})
                          /\ tasks[k].action = "Stop" => i \notin DOMAIN chain
      BY <1>2, <1>3, <2>1, CreateOutcome
    <2>3. PICK o \in {"failed", "false", "queued"} :
                 /\ ops' = [ops EXCEPT ![tasks[k].req] = o]
                 /\ tasks[k].action = "Stop" => o # "false"
                 /\ o # "queued" => chain' = chain
                 /\ o = "queued" =>
                       \E i \in DOMAIN chain' :
                          /\ Adds(i, {tasks[k].req})
                          /\ tasks[k].action = "Stop" => i \notin DOMAIN chain
      BY <2>2
    <2>4. /\ \A r \in Reqs : ops'[r] = IF r = tasks[k].req THEN o ELSE ops[r]
          /\ ops' \in [Reqs -> Outcomes]
      BY <1>5, <2>3 DEF Outcomes, Settled
    <2>5. user' \in Nat /\ quiet' \in BOOLEAN
      BY <1>1, <2>1, <2>2 DEF CoreTypes
    <2>6. CoreTypes'
      BY <1>1, <1>2, <2>2, <2>4, <2>5 DEF CoreTypes
    <2>7. inbox[1].task = k /\ inbox[1].call = "submitting"
      BY <1>2, <1>3 DEF k
    <2> QED
      BY <1>2, <1>3, <1>4, <2>2, <2>3, <2>4, <2>6, <2>7, HandledKeeps
  <1> QED
    BY <1>6, <1>7

-----------------------------------------------------------------------------
(* The invariant                                                           *)

LEMMA InitHolds ==
    ASSUME ConstantsOK, Init
    PROVE  CommandInv
  <1>1. UiTypes
    <2>1. <<>> \in Seq(TaskRecs) /\ <<>> \in Seq(Messages) /\ DOMAIN <<>> = {}
      OBVIOUS
    <2>2. Off \in Vpns
      BY DEF Off, Vpns
    <2> QED
      BY <2>1, <2>2 DEF Init, UiTypes
  <1>2. CoreTypes
    <2>1. Off \in Vpns
      BY DEF Off, Vpns
    <2>2. last \in [Plugins -> Nat]
      BY DEF Init, Plugins
    <2>3. ops \in [Reqs -> Outcomes]
      BY DEF Init, Outcomes
    <2> QED
      BY <2>1, <2>2, <2>3, Numbers DEF Init, CoreTypes
  <1>3. DOMAIN chain = {} /\ DOMAIN tasks = {} /\ DOMAIN inbox = {} /\ chain \in Seq(Entries)
    BY DEF Init
  <1>4. QueueInv
    BY <1>3 DEF QueueInv, Init, NoHealth
  <1>5. Cmds = {}
    BY <1>3 DEF Cmds
  <1>6. TaskInv /\ SubmitInv /\ OrderInv
    BY <1>3, <1>5 DEF TaskInv, SubmitInv, OrderInv
  <1>7. ReceiptInv
    BY <1>3, <1>5 DEF ReceiptInv, Init
  <1>8. RememberInv
    BY <1>5 DEF RememberInv, Init
  <1> QED
    BY <1>1, <1>2, <1>4, <1>6, <1>7, <1>8 DEF CommandInv, Types

LEMMA StepHolds ==
    ASSUME ConstantsOK, CommandInv, [Next]_vars
    PROVE  CommandInv'
  <1>1. CASE UiNext
    BY <1>1, UiKeeps
  <1>2. CASE TaskNext
    BY <1>2, TaskKeeps
  <1>3. CASE StartBaseline
    BY <1>3, BaselineKeeps
  <1>4. CASE PluginNext
    BY <1>4, HandleSubmitKeeps, ObserveKeeps, RecreateKeeps DEF PluginNext
  <1>5. CASE ChainNext
    BY <1>5, ChainKeeps
  <1>6. CASE WakeNext
    BY <1>6, RollBackKeeps, ExitKeeps, RecoverWakes DEF WakeNext
  <1>7. CASE UNCHANGED vars
    <2>1. UNCHANGED <<root, nextId, active, seen, tasks, inbox, chain, ops>>
      BY <1>7 DEF vars, uiVars, coreVars
    <2>2. seen' \in Vpns
      BY <2>1, CommandParts DEF UiTypes
    <2>3. CoreTypes' /\ QueueInv'
      BY <1>7, CommandParts DEF vars, pluginVars, coreVars, CoreTypes, QueueInv
    <2> QED
      BY <2>1, <2>2, <2>3, BesideKeeps
  <1> QED
    BY <1>1, <1>2, <1>3, <1>4, <1>5, <1>6, <1>7 DEF Next

(* The invariant holds in every state.                                     *)
THEOREM CommandsAreFollowed ==
    ASSUME ConstantsOK
    PROVE  Spec => []CommandInv
  <1>1. Init => CommandInv
    BY InitHolds
  <1>2. CommandInv /\ [Next]_vars => CommandInv'
    BY StepHolds
  <1> QED
    BY <1>1, <1>2, PTL DEF Spec

LEMMA RootsCounted ==
    ASSUME ConstantsOK
    PROVE  Spec => [](root \in 1 .. MaxRoots)
  <1>1. Init => root \in 1 .. MaxRoots
    BY DEF Init, ConstantsOK
  <1>2. root \in 1 .. MaxRoots /\ [Next]_vars => (root \in 1 .. MaxRoots)'
    <2> SUFFICES ASSUME root \in 1 .. MaxRoots, [Next]_vars
                 PROVE  root' \in 1 .. MaxRoots
      OBVIOUS
    <2>1. root' = root \/ (root < MaxRoots /\ root' = root + 1)
      <3>1. CASE UiNext
        BY <3>1 DEF UiNext, ToggleVpn, BeginOwnedEdit, PlainEdit, ConfirmVpnOperation,
                    RecoverVpnOperation, RefreshStatus, ReplaceRoot, Complete, uiVars
      <3>2. CASE TaskNext
        BY <3>2 DEF TaskNext, MakeEdit, Submit, AwaitOperation, LookupOperation, AnswerParked,
                    CallTimesOut, Call, uiVars
      <3>3. CASE StartBaseline
        BY <3>3 DEF StartBaseline, uiVars
      <3>4. CASE PluginNext
        BY <3>4 DEF PluginNext, HandleSubmit, HandleAwait, HandleLookup, RecreatePlugin, uiVars
      <3>5. CASE ChainNext
        BY <3>5 DEF ChainNext, BeginStart, EndStart, Superseded, BeginStop, EndStop, uiVars
      <3>6. CASE WakeNext
        BY <3>6 DEF WakeNext, RollBack, UnexpectedExit, AutoRecover, uiVars
      <3>7. CASE UNCHANGED vars
        BY <3>7 DEF vars, uiVars
      <3> QED
        BY <3>1, <3>2, <3>3, <3>4, <3>5, <3>6, <3>7 DEF Next
    <2>2. MaxRoots \in Nat
      BY DEF ConstantsOK
    <2> QED
      BY <2>1, <2>2
  <1> QED
    BY <1>1, <1>2, PTL DEF Spec

(* The state keeps its types: whatever fails, times out or is replaced.    *)
THEOREM CommandTypesHold ==
    ASSUME ConstantsOK
    PROVE  Spec => []TypeOK
  <1>1. CommandInv /\ root \in 1 .. MaxRoots => TypeOK
    <2> SUFFICES ASSUME CommandInv, root \in 1 .. MaxRoots
                 PROVE  TypeOK
      OBVIOUS
    <2>1. UiTypes /\ CoreTypes /\ QueueInv
      BY CommandParts
    <2>2. plugin \in 1 .. MaxPlugins /\ ops \in [Reqs -> {"none", "queued"} \cup Settled]
      BY <2>1 DEF CoreTypes, Plugins, Outcomes
    <2>3. active = NoOp \/ active.phase \in {"AwaitingBridge", "Confirming", "Unconfirmed"}
      BY <2>1, ActiveType
    <2>4. /\ vpn.up \in {"off", "starting", "on"}
          /\ health.stage \in {"none", "watch", "stopping", "stopped"}
      BY <2>1, VpnType, HealthType
    <2>5. \A k \in DOMAIN tasks :
              /\ tasks[k].kind \in {"command", "confirm"}
              /\ tasks[k].pc \in {"edit", "submit", "submitting", "observe", "awaiting",
                                  "parked", "lookup", "looking", "answered", "done"}
      BY <2>1, TaskType DEF Pcs, Waiting
    <2> QED
      BY <2>2, <2>3, <2>4, <2>5 DEF TypeOK
  <1> QED
    BY <1>1, CommandsAreFollowed, RootsCounted, PTL

(* A platform operation that the root submitted is never forgotten while   *)
(* it may still take effect: whatever call is lost, late or answered for   *)
(* an older command, it is the active one or lies below its stop fence     *)
(* (vpn_operation.rs, operations.rs).                                      *)
THEOREM PendingStaysRemembered ==
    ASSUME ConstantsOK
    PROVE  Spec => []PendingIsRemembered
  <1>1. CommandInv => PendingIsRemembered
    <2> SUFFICES ASSUME CommandInv, NEW k \in DOMAIN tasks, Unresolved(k), tasks[k].root = root
                 PROVE  tasks[k].id \in Remembered
      BY DEF PendingIsRemembered
    <2>1. k \in Cmds /\ ~Resolved(k)
      BY DEF Cmds, Resolved, Unresolved
    <2> QED
      BY <2>1 DEF CommandInv, RememberInv
  <1> QED
    BY <1>1, CommandsAreFollowed, PTL

(* Two platform operations of one root are never under way at a time,      *)
(* unless the later one is a stop fence (begin_owned_vpn_operation,        *)
(* begin_recovery).                                                        *)
THEOREM FencesOnlyQueueUp ==
    ASSUME ConstantsOK
    PROVE  Spec => []OnlyFencesQueueUp
  <1>1. CommandInv => OnlyFencesQueueUp
    <2> SUFFICES ASSUME CommandInv, NEW j \in DOMAIN tasks, NEW k \in DOMAIN tasks, j < k,
                        Unresolved(j), Unresolved(k), tasks[j].root = root, tasks[k].root = root
                 PROVE  tasks[k].action = "Stop"
      BY DEF OnlyFencesQueueUp
    <2>1. /\ UiTypes /\ TaskInv /\ RememberInv /\ j \in Cmds /\ k \in Cmds
          /\ ~Resolved(j) /\ ~Resolved(k)
      BY CommandParts DEF Cmds, Resolved, Unresolved
    <2>2. tasks[j].id < tasks[k].id /\ tasks[j].id \in Nat /\ tasks[k].id \in Nat
      BY <2>1, TaskType DEF TaskInv
    <2>3. tasks[j].id \in Remembered /\ tasks[k].id \in Remembered
      BY <2>1 DEF RememberInv
    <2>4. active # NoOp
      BY <2>3 DEF Remembered
    <2>5. ASSUME NEW id, NEW a, NEW r, OfCommand(id, a, r), id = tasks[k].id
          PROVE  tasks[k].action = a
      BY <2>1, <2>5, SameCommand DEF OfCommand
    <2>6. CASE tasks[k].id = active.id
      <3>1. \E i \in DOMAIN active.recovery : tasks[j].id = active.recovery[i].id
        BY <2>2, <2>3, <2>4, <2>6 DEF Remembered
      <3>2. active.recovery # <<>>
        BY <3>1
      <3>3. active.action = "Stop" /\ OfCommand(active.id, active.action, active.receipt)
        BY <2>1, <2>4, <3>2 DEF RememberInv
      <3> QED
        BY <2>5, <2>6, <3>3
    <2>7. CASE tasks[k].id # active.id
      <3>1. PICK i \in DOMAIN active.recovery : tasks[k].id = active.recovery[i].id
        BY <2>3, <2>4, <2>7 DEF Remembered
      <3>2. active.recovery[i].id < active.id /\ active.id \in Nat /\ active.recovery[i].id \in Nat
        BY <2>1, <2>4, ActiveType DEF RememberInv
      <3>3. tasks[j].id # active.id
        BY <2>2, <3>1, <3>2
      <3>4. PICK m \in DOMAIN active.recovery : tasks[j].id = active.recovery[m].id
        BY <2>3, <2>4, <3>3 DEF Remembered
      <3>5. m \in Nat /\ i \in Nat /\ DOMAIN active.recovery = 1 .. Len(active.recovery)
        BY <2>1, <2>4, ActiveType, LenProperties
      <3>6. i # 1
        <4>1. ASSUME i = 1
              PROVE  FALSE
          <5>1. i = m \/ i < m
            BY <3>5, <4>1
          <5>2. i < m => active.recovery[i].id < active.recovery[m].id
            BY <2>1, <2>4 DEF RememberInv
          <5> QED
            BY <2>2, <3>1, <3>4, <5>1, <5>2
        <4> QED
          BY <4>1
      <3>7. /\ active.recovery[i].action = "Stop"
            /\ OfCommand(active.recovery[i].id, active.recovery[i].action, active.recovery[i].receipt)
        BY <2>1, <2>4, <3>6 DEF RememberInv
      <3> QED
        BY <2>5, <3>1, <3>7
    <2> QED
      BY <2>6, <2>7
  <1> QED
    BY <1>1, CommandsAreFollowed, PTL

-----------------------------------------------------------------------------
(* A stop of the user                                                      *)

(* What the queue is left with is what it was, or less.                    *)
LEMMA QuietTail ==
    ASSUME QueueInv, QuietInv, chain # <<>>, NEW o \in Settled, Settle(o)
    PROVE  /\ 1 \in DOMAIN chain /\ ~chain[1].auto
           /\ quiet => chain[1].kind = "Stop"
           /\ \A i \in DOMAIN chain' : ~chain'[i].auto
           /\ quiet => \A i \in DOMAIN chain' : chain'[i].kind = "Stop"
  <1>1. 1 \in DOMAIN chain /\ \A i \in DOMAIN chain' : i + 1 \in DOMAIN chain /\ chain'[i] = chain[i + 1]
    BY EntryType, TailFacts DEF Settle
  <1> QED
    BY <1>1 DEF QuietInv

LEMMA QuietStage ==
    ASSUME QueueInv, QuietInv, chain # <<>>, NEW s \in Stages, Stage(s)
    PROVE  /\ 1 \in DOMAIN chain /\ (quiet => chain[1].kind = "Stop")
           /\ \A i \in DOMAIN chain' : ~chain'[i].auto
           /\ quiet => \A i \in DOMAIN chain' : chain'[i].kind = "Stop"
  <1> DEFINE e == [chain[1] EXCEPT !.stage = s]
  <1>1. 1 \in DOMAIN chain /\ chain \in Seq(Entries)
    BY EntryType
  <1>2. chain' = [chain EXCEPT ![1] = e]
    BY DEF Stage
  <1>3. e \in Entries /\ e.kind = chain[1].kind /\ e.auto = chain[1].auto
    BY <1>1, EntryType DEF Entries, Stages
  <1> HIDE DEF e
  <1>4. /\ DOMAIN chain' = DOMAIN chain /\ chain'[1] = e
        /\ \A i \in DOMAIN chain : i # 1 => chain'[i] = chain[i]
    BY <1>1, <1>2, <1>3, UpdateFacts
  <1>5. \A i \in DOMAIN chain' : chain'[i].kind = chain[i].kind /\ chain'[i].auto = chain[i].auto
    BY <1>3, <1>4
  <1> QED
    BY <1>1, <1>4, <1>5 DEF QuietInv

(* A start that nobody needs to wake up for.                               *)
LEMMA QuietRequest ==
    ASSUME CoreTypes, QueueInv, QuietInv, NEW p \in Plugins, NEW reqs \in SUBSET Reqs,
           RequestStart(p, reqs, FALSE),
           health' = health \/ (health' = NoHealth /\ health.stage = "stopped")
    PROVE  \A i \in DOMAIN chain' : ~chain'[i].auto
  <1>1. CASE /\ startReq # 0
             /\ \E i \in DOMAIN chain :
                   /\ chain[i].intent = startReq
                   /\ chain' = [chain EXCEPT ![i].reqs = @ \cup reqs, ![i].auto = @ \/ FALSE]
             /\ UNCHANGED <<intent, last, startReq, vpn>>
    <2>1. PICK i \in DOMAIN chain :
              chain' = [chain EXCEPT ![i].reqs = @ \cup reqs, ![i].auto = @ \/ FALSE]
      BY <1>1
    <2>2. /\ DOMAIN chain' = DOMAIN chain /\ chain'[i].auto = (chain[i].auto \/ FALSE)
          /\ \A j \in DOMAIN chain : j # i => chain'[j] = chain[j]
      BY <1>1, <2>1, JoinKeeps
    <2> QED
      BY <2>2 DEF QuietInv
  <1>2. CASE Enqueue(Entry("start", p, reqs, FALSE, NoScope))
    <2> DEFINE e == Entry("start", p, reqs, FALSE, NoScope)
    <2>1. e \in Entries /\ ~e.auto /\ chain' = Append(chain, e)
      <3>1. intent + 1 \in Nat
        BY DEF CoreTypes
      <3>2. e \in Entries /\ ~e.auto
        BY <3>1 DEF Entry, Entries, NoScope
      <3> QED
        BY <1>2, <3>2 DEF Enqueue
    <2> HIDE DEF e
    <2>2. /\ \A i \in DOMAIN chain : chain'[i] = chain[i]
          /\ chain'[Len(chain) + 1] = e
          /\ \A i \in DOMAIN chain' : i \in DOMAIN chain \/ i = Len(chain) + 1
      BY <2>1, EntryType, AppendFacts
    <2> QED
      BY <2>1, <2>2 DEF QuietInv
  <1> QED
    BY <1>1, <1>2 DEF RequestStart

LEMMA QuietChain ==
    ASSUME CommandInv, QuietInv, health.stage # "stopped", ChainNext
    PROVE  QuietInv'
  <1>1. /\ CoreTypes /\ QueueInv /\ NoHealth.stage = "none" /\ Off.up = "off"
        /\ \A s \in {"starting", "stopping", "stopped"} : s \in Stages
    BY CommandParts, HealthType, VpnType DEF Stages
  <1>2. ~lost /\ (quiet => vpn.up = "off")
    BY DEF QuietInv
  <1>3. CASE BeginStart
    <2>1. chain # <<>> /\ Stage("starting") /\ UNCHANGED <<lost, health, quiet>>
          /\ chain[1].kind \in {"start", "Restart"}
      BY <1>3 DEF BeginStart, Front1
    <2>2. (\A i \in DOMAIN chain' : ~chain'[i].auto) /\ ~quiet
      BY <1>1, <2>1, QuietStage
    <2> QED
      BY <1>2, <2>1, <2>2 DEF QuietInv
  <1>4. CASE EndStart
    <2>1. /\ chain # <<>> /\ \E o \in Settled : Settle(o)
          /\ lost' = FALSE \/ lost' = (lost \/ chain[1].auto)
          /\ chain[1].stage = "starting" /\ quiet' = quiet
      BY <1>4 DEF EndStart, Front1, Settled
    <2>2. /\ 1 \in DOMAIN chain /\ ~chain[1].auto /\ (quiet => chain[1].kind = "Stop")
          /\ \A i \in DOMAIN chain' : ~chain'[i].auto
      BY <1>1, <2>1, QuietTail
    <2>3. ~quiet
      BY <1>1, <2>1, <2>2 DEF QueueInv
    <2>4. ~lost'
      BY <1>2, <2>1, <2>2
    <2> QED
      BY <2>1, <2>2, <2>3, <2>4 DEF QuietInv
  <1>5. CASE Superseded
    <2>1. /\ chain # <<>> /\ \E o \in Settled : Settle(o)
          /\ lost' = (lost \/ (chain[1].auto /\ vpn.up = "off"))
          /\ quiet' = quiet /\ vpn' = vpn /\ (health' = health \/ health' = NoHealth)
      BY <1>5 DEF Superseded, Front1, Settled
    <2>2. /\ ~chain[1].auto /\ \A i \in DOMAIN chain' : ~chain'[i].auto
          /\ quiet => \A i \in DOMAIN chain' : chain'[i].kind = "Stop"
      BY <1>1, <2>1, QuietTail
    <2>3. ~lost' /\ health'.stage # "stopped"
      BY <1>1, <1>2, <2>1, <2>2
    <2> QED
      BY <1>2, <2>1, <2>2, <2>3 DEF QuietInv
  <1>6. CASE BeginStop
    <2>1. /\ chain # <<>> /\ Stage("stopping") /\ UNCHANGED <<vpn, health, quiet>>
          /\ lost' = (lost /\ vpn.up = "off")
      BY <1>6 DEF BeginStop, Front1
    <2>2. /\ \A i \in DOMAIN chain' : ~chain'[i].auto
          /\ quiet => \A i \in DOMAIN chain' : chain'[i].kind = "Stop"
      BY <1>1, <2>1, QuietStage
    <2> QED
      BY <1>2, <2>1, <2>2 DEF QuietInv
  <1>7. CASE EndStop
    <2>1. chain # <<>> /\ lost' = lost
      BY <1>7 DEF EndStop
    <2>2. CASE chain[1].kind = "Restart" /\ Stage("stopped") /\ quiet' = quiet /\ vpn' = Off
      <3>1. (\A i \in DOMAIN chain' : ~chain'[i].auto) /\ ~quiet
        BY <1>1, <2>1, <2>2, QuietStage
      <3> QED
        BY <1>2, <2>1, <2>2, <3>1 DEF QuietInv
    <2>3. CASE /\ chain[1].kind # "Restart" /\ Settle("true") /\ vpn' = Off
               /\ quiet' = IF chain[1].kind = "Stop" THEN IntentCurrent ELSE quiet
               /\ health' = IF chain[1].kind = "rollback"
                            THEN [health EXCEPT !.stage = "stopped"] ELSE health
      <3>1. /\ \A i \in DOMAIN chain' : ~chain'[i].auto
            /\ quiet => chain[1].kind = "Stop" /\ \A i \in DOMAIN chain' : chain'[i].kind = "Stop"
        BY <1>1, <2>1, <2>3, QuietTail DEF Settled
      <3>2. CASE chain[1].kind = "Stop"
        <4>1. ASSUME IntentCurrent
              PROVE  DOMAIN chain' = {}
          <5>1. \A i \in DOMAIN chain' : i \in Nat /\ i + 1 \in DOMAIN chain /\ i + 1 # 1
            BY <1>1, <2>1, <2>3, EntryType, TailFacts DEF Settle
          <5>2. 1 \in DOMAIN chain /\ intent = chain[1].intent /\ intent \in Nat
            BY <1>1, <2>1, <4>1, EntryType DEF IntentCurrent, Front1, CoreTypes
          <5>3. ASSUME NEW i \in DOMAIN chain'
                PROVE  FALSE
            <6>1. i + 1 \in DOMAIN chain /\ 1 < i + 1
              BY <5>1
            <6>2. /\ chain[1].intent < chain[i + 1].intent /\ chain[i + 1].intent <= intent
                  /\ chain[i + 1].intent \in Nat
              BY <1>1, <5>2, <6>1, EntryType DEF QueueInv
            <6> QED
              BY <5>2, <6>2
          <5> QED
            BY <5>3
        <4>2. health' = health /\ quiet' = IntentCurrent
          BY <2>3, <3>2
        <4> QED
          BY <1>1, <1>2, <2>1, <2>3, <3>1, <4>1, <4>2 DEF QuietInv
      <3>3. CASE chain[1].kind # "Stop"
        BY <1>2, <2>1, <2>3, <3>1, <3>3 DEF QuietInv
      <3> QED
        BY <3>2, <3>3
    <2>4. CASE /\ Settle("failed") /\ vpn' = vpn /\ quiet' = quiet
               /\ health' = IF chain[1].kind = "rollback" THEN NoHealth ELSE health
      <3>1. /\ \A i \in DOMAIN chain' : ~chain'[i].auto
            /\ quiet => \A i \in DOMAIN chain' : chain'[i].kind = "Stop"
        BY <1>1, <2>1, <2>4, QuietTail DEF Settled
      <3> QED
        BY <1>1, <1>2, <2>1, <2>4, <3>1 DEF QuietInv
    <2> QED
      BY <1>7, <2>2, <2>3, <2>4 DEF EndStop, Front1
  <1> QED
    BY <1>3, <1>4, <1>5, <1>6, <1>7 DEF ChainNext

(* A request that reaches the plugin.                                      *)
LEMMA QuietSubmit ==
    ASSUME CommandInv, QuietInv, HandleSubmit
    PROVE  QuietInv'
  <1> DEFINE k == Head(inbox).task
             a == tasks[k].action
  <1>1. UiTypes /\ CoreTypes /\ QueueInv
    BY CommandParts
  <1>2. /\ inbox # <<>> /\ UNCHANGED <<lost, health>>
        /\ \/ Unqueued /\ UNCHANGED quiet
           \/ Create(tasks[k]) /\ quiet' = (quiet /\ a # "Start")
    BY DEF HandleSubmit
  <1>3. k \in DOMAIN tasks
    BY <1>1, <1>2, InboxType, TailFacts
  <1>4. a \in Commands /\ tasks[k].req \in Reqs /\ tasks[k].sid \in Nat /\ tasks[k].cfg \in Nat
    BY <1>1, <1>3, TaskType
  <1>5. ~lost /\ (\A i \in DOMAIN chain : ~chain[i].auto)
        /\ (quiet => vpn.up = "off" /\ health.stage # "stopped" /\ \A i \in DOMAIN chain : chain[i].kind = "Stop")
    BY DEF QuietInv
  <1>6. CASE chain' = chain /\ vpn' = vpn /\ (quiet' => quiet)
    BY <1>2, <1>5, <1>6 DEF QuietInv
  <1>7. CASE RequestStart(plugin, {tasks[k].req}, FALSE) /\ ~quiet'
    <2>1. plugin \in Plugins /\ {tasks[k].req} \in SUBSET Reqs
      BY <1>1, <1>4 DEF CoreTypes
    <2>2. \A i \in DOMAIN chain' : ~chain'[i].auto
      BY <1>1, <1>2, <1>7, <2>1, QuietRequest
    <2> QED
      BY <1>2, <1>5, <1>7, <2>2 DEF QuietInv
  <1>8. CASE /\ Enqueue(Entry(a, plugin, {tasks[k].req}, FALSE, tasks[k]))
             /\ a # "Start" /\ (quiet' => quiet /\ a = "Stop")
    <2> DEFINE e == Entry(a, plugin, {tasks[k].req}, FALSE, tasks[k])
               s == tasks[k].sid
               c == tasks[k].cfg
    <2>1. e \in Entries /\ ~e.auto /\ e.kind = a /\ e.plugin \in Plugins
      <3>1. intent + 1 \in Nat /\ plugin \in Plugins
        BY <1>1 DEF CoreTypes
      <3>2. a \in {"Stop", "Restart", "OwnedStop"} /\ s \in Nat /\ c \in Nat
        BY <1>4, <1>8 DEF Commands
      <3>3. tasks[k].req \in Reqs
        BY <1>4
      <3> HIDE DEF a, k, s, c
      <3>4. e = [kind |-> a, reqs |-> {tasks[k].req}, intent |-> intent + 1, plugin |-> plugin,
                 sid |-> s, cfg |-> c, auto |-> FALSE, stage |-> "queued"]
        BY DEF Entry, s, c
      <3> HIDE DEF e
      <3> QED
        BY <3>1, <3>2, <3>3, <3>4 DEF Entries
    <2>2. Enqueue(e)
      BY <1>8
    <2> HIDE DEF e, s, c
    <2>3. chain' = Append(chain, e) /\ vpn'.up = vpn.up
      BY <1>1, <2>1, <2>2, EnqueueTypes
    <2>4. /\ \A i \in DOMAIN chain : chain'[i] = chain[i]
          /\ chain'[Len(chain) + 1] = e
          /\ \A i \in DOMAIN chain' : i \in DOMAIN chain \/ i = Len(chain) + 1
      BY <1>1, <2>1, <2>3, EntryType, AppendFacts
    <2>5. \A i \in DOMAIN chain' : ~chain'[i].auto
      BY <1>5, <2>1, <2>4
    <2>6. quiet' => \A i \in DOMAIN chain' : chain'[i].kind = "Stop"
      BY <1>5, <1>8, <2>1, <2>4
    <2> QED
      BY <1>2, <1>5, <1>8, <2>3, <2>5, <2>6 DEF QuietInv
  <1>9. \/ chain' = chain /\ vpn' = vpn /\ (quiet' => quiet)
        \/ RequestStart(plugin, {tasks[k].req}, FALSE) /\ ~quiet'
        \/ /\ Enqueue(Entry(a, plugin, {tasks[k].req}, FALSE, tasks[k]))
           /\ a # "Start" /\ (quiet' => quiet /\ a = "Stop")
    <2>1. CASE Unqueued /\ UNCHANGED quiet
      BY <2>1 DEF Unqueued
    <2>2. CASE Create(tasks[k]) /\ quiet' = (quiet /\ a # "Start")
      <3>1. \/ RequestStart(plugin, {tasks[k].req}, FALSE) /\ a = "Start"
            \/ /\ Enqueue(Entry(a, plugin, {tasks[k].req}, FALSE, tasks[k]))
               /\ a # "Start" /\ (a = "Stop" \/ SessionCurrent(tasks[k]))
            \/ chain' = chain /\ vpn' = vpn
        BY <2>2 DEF Create, Unqueued
      <3>2. SessionCurrent(tasks[k]) => ~quiet
        BY <1>5 DEF SessionCurrent
      <3> QED
        BY <2>2, <3>1, <3>2
    <2> QED
      BY <1>2, <2>1, <2>2
  <1> QED
    BY <1>6, <1>7, <1>8, <1>9

(* The steps that leave Core and the queue alone.                          *)
LEMMA CoreBeside ==
    ASSUME UiNext \/ TaskNext \/ HandleAwait \/ HandleLookup \/ RecreatePlugin
    PROVE  UNCHANGED <<chain, intent, vpn, lost, health, user, quiet, exits, last>>
  <1>1. CASE UiNext
    BY <1>1 DEF UiNext, ToggleVpn, BeginOwnedEdit, PlainEdit, ConfirmVpnOperation,
                RecoverVpnOperation, RefreshStatus, ReplaceRoot, Complete, coreVars, envVars,
                pluginVars
  <1>2. CASE TaskNext
    BY <1>2 DEF TaskNext, MakeEdit, Submit, AwaitOperation, LookupOperation, AnswerParked,
                CallTimesOut, Call, coreVars, envVars, pluginVars
  <1>3. CASE HandleAwait \/ HandleLookup \/ RecreatePlugin
    BY <1>3 DEF HandleAwait, HandleLookup, RecreatePlugin, coreVars, envVars, pluginVars
  <1> QED
    BY <1>1, <1>2, <1>3

LEMMA QuietRollBack ==
    ASSUME CommandInv, QuietInv, RollBack
    PROVE  QuietInv'
  <1>1. UiTypes /\ CoreTypes /\ QueueInv /\ NoHealth.stage = "none"
    BY CommandParts, HealthType
  <1>2. health.stage = "watch" /\ UNCHANGED <<lost, quiet>>
    BY DEF RollBack
  <1>3. ~lost /\ (\A i \in DOMAIN chain : ~chain[i].auto)
        /\ (quiet => vpn.up = "off" /\ \A i \in DOMAIN chain : chain[i].kind = "Stop")
    BY DEF QuietInv
  <1>4. CASE HealthCurrent /\ Enqueue(Entry("rollback", health.plugin, {}, FALSE, NoScope))
    <2> DEFINE e == Entry("rollback", health.plugin, {}, FALSE, NoScope)
    <2>1. e \in Entries /\ ~e.auto
      <3>1. intent + 1 \in Nat /\ health.plugin \in Plugins
        BY <1>1, <1>2, HealthType DEF CoreTypes
      <3> QED
        BY <3>1 DEF Entry, Entries, NoScope
    <2>2. Enqueue(e)
      BY <1>4
    <2> HIDE DEF e
    <2>3. /\ \A i \in DOMAIN chain : chain'[i] = chain[i]
          /\ chain'[Len(chain) + 1] = e
          /\ \A i \in DOMAIN chain' : i \in DOMAIN chain \/ i = Len(chain) + 1
      BY <1>1, <2>1, <2>2, EntryType, AppendFacts DEF Enqueue
    <2>4. \A i \in DOMAIN chain' : ~chain'[i].auto
      BY <1>3, <2>1, <2>3
    <2>5. ~quiet
      BY <1>3, <1>4 DEF HealthCurrent
    <2> QED
      BY <1>2, <1>3, <2>4, <2>5 DEF QuietInv
  <1>5. CASE health' = NoHealth /\ UNCHANGED <<chain, intent, last, vpn>>
    BY <1>1, <1>2, <1>3, <1>5 DEF QuietInv
  <1> QED
    BY <1>4, <1>5 DEF RollBack

LEMMA QuietBaseline ==
    ASSUME CommandInv, QuietInv, StartBaseline
    PROVE  QuietInv'
  <1>1. UiTypes /\ CoreTypes /\ QueueInv /\ NoHealth.stage = "none"
    BY CommandParts, HealthType
  <1>2. health.stage = "stopped" /\ health' = NoHealth /\ UNCHANGED <<lost, quiet>>
    BY DEF StartBaseline
  <1>3. ~lost /\ (\A i \in DOMAIN chain : ~chain[i].auto) /\ ~quiet
    BY <1>2 DEF QuietInv
  <1>4. CASE RequestStart(health.plugin, {}, FALSE)
    <2>1. health.plugin \in Plugins /\ {} \in SUBSET Reqs
      BY <1>1, <1>2, HealthType
    <2>2. \A i \in DOMAIN chain' : ~chain'[i].auto
      BY <1>1, <1>2, <1>4, <2>1, QuietRequest
    <2> QED
      BY <1>2, <1>3, <2>2 DEF QuietInv
  <1>5. CASE Unqueued
    BY <1>2, <1>3, <1>5 DEF QuietInv, Unqueued
  <1> QED
    BY <1>4, <1>5 DEF StartBaseline

(* After a stop of the user took effect, nothing but a start of the user   *)
(* brings the VPN up: neither the restart of an edit nor a health check    *)
(* (bridge/mod.rs, VpnPlugin.ets).  The Extension does not exit on its     *)
(* own: the recovery from that is another part.                            *)
THEOREM UserStopWins ==
    ASSUME ConstantsOK, MaxExits = 0
    PROVE  Spec => []StopWins
  <1> DEFINE I == QuietInv /\ exits \in Nat
  <1>1. Init => I
    BY DEF Init, QuietInv
  <1>2. CommandInv /\ I /\ [Next]_vars => I'
    <2> SUFFICES ASSUME CommandInv, QuietInv, exits \in Nat, [Next]_vars
                 PROVE  QuietInv' /\ exits' \in Nat
      OBVIOUS
    <2>1. CASE UNCHANGED <<chain, vpn, lost, health, quiet, exits>>
      BY <2>1 DEF QuietInv
    <2>2. CASE UiNext \/ TaskNext \/ HandleAwait \/ HandleLookup \/ RecreatePlugin
      BY <2>1, <2>2, CoreBeside
    <2>3. CASE StartBaseline
      BY <2>3, QuietBaseline DEF StartBaseline, envVars
    <2>4. CASE HandleSubmit
      BY <2>4, QuietSubmit DEF HandleSubmit, envVars
    <2>5. CASE ChainNext /\ health.stage # "stopped"
      <3>1. exits' = exits
        BY <2>5 DEF ChainNext, BeginStart, EndStart, Superseded, BeginStop, EndStop, envVars
      <3> QED
        BY <2>5, <3>1, QuietChain
    <2>6. CASE RollBack
      BY <2>6, QuietRollBack DEF RollBack
    <2>7. CASE UnexpectedExit
      BY <2>7 DEF UnexpectedExit
    <2>8. CASE AutoRecover
      BY <2>8 DEF AutoRecover, QuietInv
    <2>9. CASE UNCHANGED vars
      BY <2>1, <2>9 DEF vars, coreVars, envVars
    <2> QED
      BY <2>2, <2>3, <2>4, <2>5, <2>6, <2>7, <2>8, <2>9 DEF Next, PluginNext, WakeNext
  <1>3. I => StopWins
    BY DEF QuietInv, StopWins
  <1> QED
    BY <1>1, <1>2, <1>3, CommandsAreFollowed, PTL DEF Spec

-----------------------------------------------------------------------------
(* A rollback *)

LEMMA OneRequest ==
    ASSUME CoreTypes, MaxPlugins = 1, GenerationInv, NEW p \in Plugins, NEW reqs, NEW auto,
           RequestStart(p, reqs, auto), user' = user
    PROVE  GenerationInv'
  <1>1. p = 1 /\ last \in [Plugins -> Nat] /\ intent \in Nat /\ user \in Nat
    BY DEF CoreTypes, Plugins
  <1>2. UNCHANGED <<intent, last>> \/ (intent' = intent + 1 /\ last' = [last EXCEPT ![p] = intent + 1])
    BY DEF RequestStart, Enqueue, Entry
  <1> QED
    BY <1>1, <1>2 DEF GenerationInv, Plugins

LEMMA OneSubmit ==
    ASSUME CoreTypes, MaxPlugins = 1, GenerationInv, HandleSubmit
    PROVE  GenerationInv'
  <1>1. plugin = 1 /\ last \in [Plugins -> Nat] /\ intent \in Nat /\ user \in Nat /\ 1 \in Plugins
    BY DEF CoreTypes, Plugins
  <1>2. /\ \/ UNCHANGED <<intent, last>>
           \/ intent' = intent + 1 /\ last' = [last EXCEPT ![plugin] = intent + 1]
        /\ user' = user \/ user' = intent'
    BY DEF HandleSubmit, Create, RequestStart, Enqueue, Entry, Unqueued
  <1> QED
    BY <1>1, <1>2 DEF GenerationInv

LEMMA OneStep ==
    ASSUME CommandInv, MaxPlugins = 1, GenerationInv, [Next]_vars
    PROVE  GenerationInv'
  <1>1. CoreTypes /\ QueueInv /\ plugin \in Plugins
    BY CommandParts DEF CoreTypes
  <1>2. CASE UNCHANGED <<intent, last, user>>
    BY <1>2 DEF GenerationInv
  <1>3. CASE UiNext \/ TaskNext \/ HandleAwait \/ HandleLookup \/ RecreatePlugin
    BY <1>2, <1>3, CoreBeside
  <1>4. CASE ChainNext \/ UnexpectedExit \/ UNCHANGED vars
    BY <1>2, <1>4 DEF ChainNext, BeginStart, EndStart, Superseded, BeginStop, EndStop,
                      UnexpectedExit, vars, coreVars, pluginVars
  <1>5. CASE StartBaseline
    <2>1. health.plugin \in Plugins /\ user' = user
      BY <1>1, <1>5, HealthType DEF StartBaseline
    <2>2. CASE RequestStart(health.plugin, {}, FALSE)
      BY <1>1, <2>1, <2>2, OneRequest
    <2>3. CASE Unqueued
      BY <1>2, <2>1, <2>3 DEF Unqueued
    <2> QED
      BY <1>5, <2>2, <2>3 DEF StartBaseline
  <1>6. CASE HandleSubmit
    BY <1>1, <1>6, OneSubmit
  <1>7. CASE RollBack
    <2>1. health.plugin \in Plugins /\ user' = user
      BY <1>1, <1>7, HealthType DEF RollBack
    <2>2. \/ UNCHANGED <<intent, last>>
          \/ intent' = intent + 1 /\ last' = [last EXCEPT ![health.plugin] = intent + 1]
      BY <1>7 DEF RollBack, Enqueue, Entry
    <2>3. /\ health.plugin = 1 /\ last \in [Plugins -> Nat] /\ intent \in Nat /\ user \in Nat
          /\ 1 \in Plugins
      BY <1>1, <2>1 DEF CoreTypes, Plugins
    <2> QED
      BY <2>1, <2>2, <2>3 DEF GenerationInv
  <1>8. CASE AutoRecover
    BY <1>1, <1>8, OneRequest DEF AutoRecover
  <1> QED
    BY <1>3, <1>4, <1>5, <1>6, <1>7, <1>8 DEF Next, PluginNext, WakeNext

(* With one Ability session, a health check that rolls back never replaces *)
(* a command that the user gave after the rollback began (VpnPlugin.ets,   *)
(* monitorStartupHealth).                                                  *)
THEOREM CommandsOutliveRollbacks ==
    ASSUME ConstantsOK, MaxPlugins = 1
    PROVE  Spec => CommandOutlivesRollback
  <1>1. Init => GenerationInv
    BY DEF Init, GenerationInv
  <1>2. CommandInv /\ GenerationInv /\ [Next]_vars => GenerationInv'
    BY OneStep
  <1>3. CommandInv /\ GenerationInv /\ [Next]_vars => BaselineIsNewest
    <2> SUFFICES ASSUME CommandInv, GenerationInv, [Next]_vars, health.stage = "stopped",
                        health'.stage = "none", intent' > intent
                 PROVE  user <= health.intent
      BY DEF BaselineIsNewest
    <2>1. CoreTypes /\ QueueInv /\ intent \in Nat
      BY CommandParts DEF CoreTypes
    <2>2. intent' # intent
      BY <2>1
    <2>3. ~UiNext /\ ~TaskNext
      BY <2>2, CoreBeside
    <2>4. StartBaseline
      BY <2>2, <2>3 DEF Next, vars, coreVars
    <2>5. last[health.plugin] = health.intent
      BY <2>2, <2>4 DEF StartBaseline, Unqueued
    <2>6. health.plugin = 1
      BY <2>1, HealthType DEF Plugins
    <2> QED
      BY <2>5, <2>6 DEF GenerationInv
  <1> QED
    BY <1>1, <1>2, <1>3, CommandsAreFollowed, PTL DEF Spec, CommandOutlivesRollback
=============================================================================
