------------------------- MODULE UiComponentProofs -------------------------
(***************************************************************************)
(* What components of the UI process keep for every value of the           *)
(* constants.                                                              *)
(*                                                                         *)
(* Projections: no projection that the provider will not fetch again is    *)
(* lost, no page goes back to an older state, and a lasting failure is     *)
(* notified once.                                                          *)
(*                                                                         *)
(* Recovery: a death is answered by at most three automatic starts.        *)
(*                                                                         *)
(* Keep: the continuous task follows the VPN session.                      *)
(*                                                                         *)
(* Looks: what is shown of the appearance is saved or told not to be.      *)
(*                                                                         *)
(* Imports: the result of an import reaches what it belongs to, and an     *)
(* import that was given up never lands.                                   *)
(***************************************************************************)
EXTENDS UiProjections, SequenceTheorems, TLAPS

Revs == 0 .. MaxChanges
Messages == [of : Domains \cup {"error"}, rev : Revs]
Projections == [of : Domains, rev : Revs]
Provs == [pc : {"off", "look", "fetch", "send"}, at : 1 .. 5, announced : [Domains -> Revs],
          applied : [Domains -> Revs], failed : BOOLEAN]

(* Every revision has been published, and the provider holds a projection  *)
(* of one of the domains.                                                  *)
TypeInv ==
    /\ TypeOK
    /\ \A d \in Domains : core[d] <= changes
    /\ prov.pc = "send" => prov.at <= 4

(* A failed round means a poisoned lock.                                   *)
Failed == prov.failed => poisoned

(* Until the UI is mounted only load_initial_ui_state has shown anything,  *)
(* and it remembers the revision of each domain that it showed.            *)
Starting ==
    startup < 5 =>
        /\ ops = {} /\ chan = <<>> /\ prov.pc = "off" /\ told = 0
        /\ \A d \in Domains : shown[d] = stamps[d][d]

(* d is shown as the provider believes, or the projection is in the        *)
(* channel, or in the hand of the provider.                                *)
Arrives(d) ==
    \/ shown[d] >= prov.applied[d]
    \/ \E i \in DOMAIN chan : chan[i].of = d /\ chan[i].rev = prov.applied[d]
    \/ /\ prov.pc = "send" /\ Domain = d /\ prov.announced[d] = prov.applied[d] /\ ~prov.failed

Told == told = 0 \/ (told = 1 /\ error = "lock")

ArrivalInv ==
    /\ TypeInv /\ Failed /\ Starting /\ Told
    /\ startup = 5 => \A d \in Domains : Arrives(d)

-----------------------------------------------------------------------------
(* What the operators of the model return                                  *)

LEMMA BoundsAreNats ==
    ASSUME ConstantsOK
    PROVE  MaxChanges \in Nat /\ MaxOps \in Nat /\ Capacity \in Nat \ {0} /\ 0 \in Revs
  BY DEF ConstantsOK, Revs

LEMMA OrderIsDomains ==
    \A i \in 1 .. 4 : Order[i] \in Domains
  BY DEF Order, Domains

(* The parts of the provider that the steps read.                          *)
LEMMA ProviderParts ==
    ASSUME TypeInv
    PROVE  /\ prov.pc \in {"off", "look", "fetch", "send"} /\ prov.at \in 1 .. 5
           /\ prov.announced \in [Domains -> Revs] /\ prov.applied \in [Domains -> Revs]
           /\ prov.failed \in BOOLEAN
           /\ prov = [pc |-> prov.pc, at |-> prov.at, announced |-> prov.announced,
                      applied |-> prov.applied, failed |-> prov.failed]
           /\ prov.at <= 4 => Domain \in Domains
  <1>1. prov \in Provs
    BY DEF TypeInv, TypeOK, Provs, Revs
  <1> QED
    BY <1>1, OrderIsDomains DEF Provs, Domain

(* A page takes a projection that is not older than what it shows.         *)
LEMMA ApplyFacts ==
    ASSUME ConstantsOK, shown \in [Domains -> Revs], NEW m,
           m.of \in Domains, m.rev \in Revs, Apply(m)
    PROVE  /\ shown' \in [Domains -> Revs]
           /\ \A d \in Domains : shown'[d] >= shown[d]
           /\ shown'[m.of] >= m.rev
  <1>1. CASE m.rev < shown[m.of]
    BY <1>1 DEF Apply, Revs
  <1>2. CASE ~(m.rev < shown[m.of])
    <2>1. shown' = [shown EXCEPT ![m.of] = m.rev]
      BY <1>2 DEF Apply
    <2> QED
      BY <1>2, <2>1, BoundsAreNats DEF Revs
  <1> QED
    BY <1>1, <1>2

(* What the provider sends is the projection it has in hand, or a failure. *)
LEMMA InHandFacts ==
    ASSUME ConstantsOK, TypeInv, prov.pc = "send"
    PROVE  /\ InHand \in Messages
           /\ ~prov.failed => InHand.of = Domain /\ InHand.rev = prov.announced[Domain]
  <1>1. Domain \in Domains /\ prov.announced[Domain] \in Revs
    BY ProviderParts DEF TypeInv
  <1>2. Failure \in Messages
    BY BoundsAreNats DEF Failure, Messages
  <1>3. [of |-> Domain, rev |-> prov.announced[Domain]] \in Messages
    BY <1>1 DEF Messages
  <1> QED
    BY <1>2, <1>3 DEF InHand

LEMMA AppendFacts ==
    ASSUME NEW S, NEW s \in Seq(S), NEW e \in S
    PROVE  /\ Append(s, e) \in Seq(S) /\ Len(Append(s, e)) = Len(s) + 1
           /\ \A i \in DOMAIN s : i \in DOMAIN Append(s, e) /\ Append(s, e)[i] = s[i]
           /\ \E i \in DOMAIN Append(s, e) : Append(s, e)[i] = e
  <1>1. /\ Append(s, e) \in Seq(S) /\ Len(Append(s, e)) = Len(s) + 1
        /\ \A i \in 1 .. Len(s) : Append(s, e)[i] = s[i]
        /\ Append(s, e)[Len(s) + 1] = e
    BY AppendProperties
  <1>2. Len(s) \in Nat /\ DOMAIN s = 1 .. Len(s)
    BY LenProperties
  <1>3. DOMAIN Append(s, e) = 1 .. (Len(s) + 1)
    BY <1>1, LenProperties
  <1>4. Len(s) + 1 \in DOMAIN Append(s, e)
    BY <1>2, <1>3
  <1> QED
    BY <1>1, <1>2, <1>3, <1>4

LEMMA TailFacts ==
    ASSUME NEW S, NEW s \in Seq(S), s # <<>>
    PROVE  /\ Head(s) \in S /\ Tail(s) \in Seq(S) /\ Len(Tail(s)) <= Len(s)
           /\ \A i \in DOMAIN s :
                 s[i] = Head(s) \/ \E j \in DOMAIN Tail(s) : Tail(s)[j] = s[i]
  <1>1. /\ Head(s) \in S /\ Tail(s) \in Seq(S) /\ Len(Tail(s)) = Len(s) - 1
        /\ Head(s) = s[1] /\ \A i \in 1 .. Len(Tail(s)) : Tail(s)[i] = s[i + 1]
    BY HeadTailProperties
  <1>2. Len(s) \in Nat \ {0} /\ DOMAIN s = 1 .. Len(s)
    BY LenProperties, EmptySeq
  <1>3. DOMAIN Tail(s) = 1 .. (Len(s) - 1)
    BY <1>1, LenProperties
  <1>4. ASSUME NEW i \in DOMAIN s, i # 1
        PROVE  i - 1 \in DOMAIN Tail(s) /\ Tail(s)[i - 1] = s[i]
    <2>1. i - 1 \in 1 .. (Len(s) - 1) /\ (i - 1) + 1 = i
      BY <1>2, <1>4
    <2> QED
      BY <1>1, <1>3, <2>1
  <1>5. \A i \in DOMAIN s : s[i] = Head(s) \/ \E j \in DOMAIN Tail(s) : Tail(s)[j] = s[i]
    BY <1>1, <1>4
  <1>6. Len(Tail(s)) <= Len(s)
    BY <1>1, <1>2
  <1> QED
    BY <1>1, <1>5, <1>6

-----------------------------------------------------------------------------
(* Core and the start of the UI *)

(* Steps that leave the UI, its channel and the provider alone.            *)
Beside == UNCHANGED <<shown, startup, stamps, prov, chan, error, told>>

LEMMA BesideKept ==
    ASSUME ConstantsOK, ArrivalInv, Beside, TypeInv', poisoned => poisoned',
           startup < 5 => ops' = ops
    PROVE  ArrivalInv'
  <1>1. Failed' /\ Starting' /\ Told'
    BY DEF ArrivalInv, Beside, Failed, Starting, Told
  <1>2. \A d \in Domains : Arrives(d) => Arrives(d)'
    BY DEF Beside, Arrives, Domain
  <1> QED
    BY <1>1, <1>2 DEF ArrivalInv, Beside

LEMMA PublishKept ==
    ASSUME ConstantsOK, ArrivalInv, Publish
    PROVE  ArrivalInv'
  <1>1. PICK ds \in Published :
            core' = [d \in Domains |-> IF d \in ds THEN core[d] + 1 ELSE core[d]]
    BY DEF Publish
  <1>2. core \in [Domains -> Revs] /\ changes \in Revs /\ changes < MaxChanges
    BY DEF ArrivalInv, TypeInv, TypeOK, Revs, Publish
  <1>3. changes' = changes + 1 /\ changes' \in Revs
    BY <1>2, BoundsAreNats DEF Publish, Revs
  <1>4. ASSUME NEW d \in Domains
        PROVE  core'[d] \in Revs /\ core'[d] <= changes'
    <2>1. core[d] \in Revs /\ core[d] <= changes
      BY <1>2 DEF ArrivalInv, TypeInv
    <2>2. core'[d] = core[d] + 1 \/ core'[d] = core[d]
      BY <1>1
    <2> QED
      BY <1>2, <1>3, <2>1, <2>2, BoundsAreNats DEF Revs
  <1>5. core' \in [Domains -> Revs]
    <2>1. core' = [d \in Domains |-> core'[d]]
      BY <1>1
    <2> QED
      BY <1>4, <2>1
  <1>6. TypeInv'
    BY <1>3, <1>4, <1>5 DEF ArrivalInv, TypeInv, TypeOK, Revs, Publish
  <1> QED
    BY <1>6, BesideKept DEF Publish, Beside

LEMMA LockPoisonedKept ==
    ASSUME ConstantsOK, ArrivalInv, LockPoisoned
    PROVE  ArrivalInv'
  <1>1. TypeInv'
    BY DEF ArrivalInv, TypeInv, TypeOK, LockPoisoned
  <1> QED
    BY <1>1, BesideKept DEF LockPoisoned, Beside

LEMMA PauseKept ==
    ASSUME ConstantsOK, ArrivalInv, Pause
    PROVE  ArrivalInv'
  <1>1. TypeInv'
    BY DEF ArrivalInv, TypeInv, TypeOK, Pause
  <1> QED
    BY <1>1, BesideKept DEF Pause, Beside

LEMMA OpReadsKept ==
    ASSUME ConstantsOK, ArrivalInv, OpReads
    PROVE  ArrivalInv'
  <1>1. PICK d \in Domains : ops' = ops \union {Proj(d)}
    BY DEF OpReads
  <1>2. Proj(d) \in Projections
    BY DEF Proj, Projections, ArrivalInv, TypeInv, TypeOK, Revs
  <1>3. ops' \subseteq Projections
    BY <1>1, <1>2 DEF ArrivalInv, TypeInv, TypeOK, Projections, Revs
  <1>4. opCount' \in 0 .. MaxOps
    BY BoundsAreNats DEF OpReads, ArrivalInv, TypeInv, TypeOK
  <1>5. TypeInv'
    BY <1>3, <1>4 DEF ArrivalInv, TypeInv, TypeOK, OpReads, Projections, Revs
  <1> QED
    BY <1>5, BesideKept DEF OpReads, Beside

LEMMA LoadInitialKept ==
    ASSUME ConstantsOK, ArrivalInv, LoadInitial
    PROVE  ArrivalInv'
  <1> DEFINE next == Order[startup + 1]
  <1>1. /\ startup \in 0 .. 3 /\ startup' = startup + 1
        /\ core \in [Domains -> Revs] /\ shown \in [Domains -> Revs]
        /\ stamps \in [Domains -> [Domains -> Revs]]
    BY DEF ArrivalInv, TypeInv, TypeOK, LoadInitial, Revs
  <1>2. next \in Domains
    BY <1>1, OrderIsDomains
  <1>3. \A d \in Domains : shown[d] = stamps[d][d]
    BY <1>1 DEF ArrivalInv, Starting
  <1> HIDE DEF next
  <1>4. /\ shown' \in [Domains -> Revs] /\ stamps' \in [Domains -> [Domains -> Revs]]
        /\ \A d \in Domains : shown'[d] = stamps'[d][d]
        /\ error' \in {"none", "startup", "lock"} /\ told' = told
    <2>1. CASE poisoned
      BY <1>1, <1>3, <2>1 DEF LoadInitial, ArrivalInv, TypeInv, TypeOK
    <2>2. CASE ~poisoned
      <3>1. /\ shown' = [shown EXCEPT ![next] = core[next]]
            /\ stamps' = [stamps EXCEPT ![next] = core]
            /\ error' = error /\ told' = told
        BY <2>2 DEF LoadInitial, next
      <3> QED
        BY <1>1, <1>2, <1>3, <3>1 DEF ArrivalInv, TypeInv, TypeOK
    <2> QED
      BY <2>1, <2>2
  <1>5. TypeInv'
    BY <1>1, <1>4 DEF ArrivalInv, TypeInv, TypeOK, LoadInitial, Revs
  <1>6. Failed' /\ Told' /\ Starting' /\ startup' # 5
    BY <1>1, <1>4 DEF ArrivalInv, Failed, Starting, Told, LoadInitial
  <1> QED
    BY <1>5, <1>6 DEF ArrivalInv

(* The provider believes applied what the start has shown.                 *)
LEMMA MountKept ==
    ASSUME ConstantsOK, ArrivalInv, Mount
    PROVE  ArrivalInv'
  <1>1. /\ stamps \in [Domains -> [Domains -> Revs]] /\ shown \in [Domains -> Revs]
        /\ \A d \in Domains : shown[d] = stamps[d][d]
    BY DEF ArrivalInv, TypeInv, TypeOK, Revs, Mount, Starting
  <1>2. InitialApplied \in [Domains -> Revs] /\ Zero \in [Domains -> Revs]
    BY <1>1, BoundsAreNats DEF InitialApplied, Zero
  <1>3. /\ prov'.pc = "look" /\ prov'.at = 1 /\ prov'.applied = InitialApplied
        /\ prov'.failed = FALSE /\ prov' \in Provs
    BY <1>2 DEF Mount, Provs
  <1>4. TypeInv'
    BY <1>3 DEF ArrivalInv, TypeInv, TypeOK, Mount, Provs, Revs
  <1>5. Failed' /\ Starting' /\ Told'
    BY <1>3 DEF ArrivalInv, Failed, Starting, Told, Mount
  <1>6. \A d \in Domains : Arrives(d)'
    BY <1>1, <1>3 DEF Arrives, Mount, InitialApplied, Revs
  <1> QED
    BY <1>4, <1>5, <1>6 DEF ArrivalInv

-----------------------------------------------------------------------------
(* The provider *)

(* Every step of the provider is in a mounted UI, and touches only it, the *)
(* channel and the flag of the watch.                                      *)
LEMMA ProviderKept ==
    ASSUME ConstantsOK, ArrivalInv, ProviderOnly, prov.pc # "off", prov' \in Provs,
           fresh' \in BOOLEAN, chan' \in Seq(Messages), Len(chan') <= Capacity,
           prov'.pc = "send" => prov'.at <= 4, prov'.failed => poisoned,
           \A d \in Domains : Arrives(d) => Arrives(d)'
    PROVE  ArrivalInv'
  <1>1. TypeInv'
    BY DEF ArrivalInv, TypeInv, TypeOK, ProviderOnly, Provs, Messages, Revs
  <1>2. startup = 5 /\ startup' = 5
    BY DEF ArrivalInv, Starting, TypeInv, TypeOK, ProviderOnly
  <1>3. Failed' /\ Starting' /\ Told'
    BY <1>2 DEF ArrivalInv, Failed, Starting, Told, ProviderOnly
  <1> QED
    BY <1>1, <1>2, <1>3 DEF ArrivalInv

(* What the steps of the provider that leave the channel alone need.       *)
LEMMA ChannelStays ==
    ASSUME ConstantsOK, ArrivalInv, chan' = chan
    PROVE  chan' \in Seq(Messages) /\ Len(chan') <= Capacity
  BY DEF ArrivalInv, TypeInv, TypeOK, Messages, Revs

LEMMA LookKept ==
    ASSUME ConstantsOK, ArrivalInv, Look
    PROVE  ArrivalInv'
  <1>1. /\ prov'.pc = "fetch" /\ prov'.applied = prov.applied /\ prov'.failed = FALSE
        /\ prov' \in Provs
    <2>1. core \in [Domains -> Revs]
      BY DEF ArrivalInv, TypeInv, TypeOK, Revs
    <2>2. prov' = [pc |-> "fetch", at |-> 1, announced |-> core, applied |-> prov.applied,
                   failed |-> FALSE]
      BY ProviderParts DEF Look, ArrivalInv
    <2> QED
      BY <2>1, <2>2, ProviderParts DEF Provs, ArrivalInv
  <1>2. \A d \in Domains : Arrives(d) => Arrives(d)'
    BY <1>1 DEF Arrives, Look, ProviderOnly
  <1> QED
    BY <1>1, <1>2, ProviderKept, ChannelStays DEF Look

LEMMA SkipKept ==
    ASSUME ConstantsOK, ArrivalInv, Skip
    PROVE  ArrivalInv'
  <1>1. /\ prov'.pc = "fetch" /\ prov'.applied = prov.applied /\ prov'.failed = prov.failed
        /\ prov' \in Provs
    BY ProviderParts DEF Skip, Provs, ArrivalInv
  <1>2. \A d \in Domains : Arrives(d) => Arrives(d)'
    BY <1>1 DEF Arrives, Skip, ProviderOnly
  <1>3. prov'.failed => poisoned
    BY <1>1 DEF ArrivalInv, Failed
  <1> QED
    BY <1>1, <1>2, <1>3, ProviderKept, ChannelStays
       DEF Skip, ArrivalInv, TypeInv, TypeOK

LEMMA WakeKept ==
    ASSUME ConstantsOK, ArrivalInv, Wake
    PROVE  ArrivalInv'
  <1>1. /\ prov'.pc = "look" /\ prov'.applied = prov.applied /\ prov'.failed = prov.failed
        /\ prov' \in Provs
    BY ProviderParts DEF Wake, Provs, ArrivalInv
  <1>2. \A d \in Domains : Arrives(d) => Arrives(d)'
    BY <1>1 DEF Arrives, Wake, ProviderOnly
  <1>3. prov'.failed => poisoned
    BY <1>1 DEF ArrivalInv, Failed
  <1> QED
    BY <1>1, <1>2, <1>3, ProviderKept, ChannelStays
       DEF Wake, ArrivalInv, TypeInv, TypeOK

(* The domain that is fetched is in the hand; of the others nothing moves. *)
LEMMA FetchKept ==
    ASSUME ConstantsOK, ArrivalInv, Fetch
    PROVE  ArrivalInv'
  <1> DEFINE dom == Domain
  <1>1. /\ dom \in Domains /\ prov.at \in 1 .. 4 /\ prov.pc = "fetch"
        /\ prov.announced \in [Domains -> Revs] /\ prov.applied \in [Domains -> Revs]
        /\ core \in [Domains -> Revs] /\ prov.announced[dom] # prov.applied[dom]
    BY ProviderParts DEF Fetch, ArrivalInv, TypeInv, TypeOK, Revs
  <1>2. dom' = Order[prov'.at]
    BY DEF Domain
  <1>3. dom = Order[prov.at]
    BY DEF Domain
  <1>4. prov = [pc |-> prov.pc, at |-> prov.at, announced |-> prov.announced,
                applied |-> prov.applied, failed |-> prov.failed] /\ prov.failed \in BOOLEAN
    BY ProviderParts DEF ArrivalInv
  <1>5. prov' = IF poisoned
                THEN [prov EXCEPT !.pc = "send", !.failed = TRUE, !.announced[dom] = 0]
                ELSE [prov EXCEPT !.pc = "send", !.applied[dom] = core[dom],
                                  !.announced[dom] = core[dom]]
    BY DEF Fetch
  <1> HIDE DEF dom
  <1>6. CASE poisoned
    <2> DEFINE ann == [prov.announced EXCEPT ![dom] = 0]
    <2>1. prov' = [pc |-> "send", at |-> prov.at, announced |-> ann,
                   applied |-> prov.applied, failed |-> TRUE]
      BY <1>4, <1>5, <1>6
    <2>2. ann \in [Domains -> Revs]
      BY <1>1, BoundsAreNats
    <2> HIDE DEF ann
    <2>3. prov' \in Provs /\ prov'.pc = "send" /\ prov'.at <= 4 /\ prov'.applied = prov.applied
      BY <1>1, <2>1, <2>2 DEF Provs
    <2>4. \A d \in Domains : Arrives(d) => Arrives(d)'
      BY <1>1, <2>3 DEF Arrives, Fetch, ProviderOnly
    <2> QED
      BY <1>1, <1>6, <2>3, <2>4, ProviderKept, ChannelStays
         DEF Fetch, ArrivalInv, TypeInv, TypeOK
  <1>7. CASE ~poisoned
    <2> DEFINE ann == [prov.announced EXCEPT ![dom] = core[dom]]
               app == [prov.applied EXCEPT ![dom] = core[dom]]
    <2>1. prov' = [pc |-> "send", at |-> prov.at, announced |-> ann, applied |-> app,
                   failed |-> prov.failed]
      BY <1>4, <1>5, <1>7
    <2>2. ann \in [Domains -> Revs] /\ app \in [Domains -> Revs] /\ ann[dom] = app[dom]
      BY <1>1
    <2>3. \A d \in Domains : d # dom => app[d] = prov.applied[d]
      BY <1>1
    <2> HIDE DEF ann, app
    <2>4. prov' \in Provs /\ prov'.pc = "send" /\ prov'.at = prov.at /\ prov'.applied = app
          /\ prov'.announced = ann /\ prov'.failed = prov.failed /\ ~prov.failed
      BY <1>1, <1>4, <1>7, <2>1, <2>2 DEF Provs, ArrivalInv, Failed
    <2>5. \A d \in Domains : d # dom => (Arrives(d) => Arrives(d)')
      BY <1>1, <2>3, <2>4 DEF Arrives, Fetch, ProviderOnly
    <2>6. Domain' = dom
      BY <1>3, <2>4 DEF Domain
    <2>7. ASSUME NEW d \in Domains, d = dom
          PROVE  Arrives(d)'
      BY <2>2, <2>4, <2>6, <2>7 DEF Arrives
    <2>8. \A d \in Domains : Arrives(d) => Arrives(d)'
      BY <2>5, <2>7
    <2> QED
      BY <1>1, <1>7, <2>4, <2>8, ProviderKept, ChannelStays
         DEF Fetch, ArrivalInv, TypeInv, TypeOK
  <1> QED
    BY <1>6, <1>7

(* The projection goes from the hand into the channel.                     *)
LEMMA SendKept ==
    ASSUME ConstantsOK, ArrivalInv, Send
    PROVE  ArrivalInv'
  <1>1. /\ prov.pc = "send" /\ prov.at \in 1 .. 4 /\ Len(chan) < Capacity
        /\ chan \in Seq(Messages) /\ prov.failed \in BOOLEAN
    BY ProviderParts DEF Send, ArrivalInv, TypeInv, TypeOK, Messages, Revs
  <1>2. /\ InHand \in Messages
        /\ ~prov.failed => InHand.of = Domain /\ InHand.rev = prov.announced[Domain]
    BY <1>1, InHandFacts DEF ArrivalInv
  <1>3. PICK m \in Messages : m = InHand
    BY <1>2
  <1>4. chan' = Append(chan, m)
    BY <1>3 DEF Send
  <1>5. /\ chan' \in Seq(Messages) /\ Len(chan') = Len(chan) + 1
        /\ \A i \in DOMAIN chan : i \in DOMAIN chan' /\ chan'[i] = chan[i]
        /\ \E i \in DOMAIN chan' : chan'[i] = m
    BY <1>1, <1>4, AppendFacts
  <1>6. Len(chan') <= Capacity
    BY <1>1, <1>5, BoundsAreNats, LenProperties
  <1>7. /\ prov'.pc = "fetch" /\ prov'.applied = prov.applied /\ prov'.failed = prov.failed
        /\ prov' \in Provs
    <2>1. prov' = [pc |-> "fetch", at |-> prov.at + 1, announced |-> prov.announced,
                   applied |-> prov.applied, failed |-> prov.failed]
      BY ProviderParts DEF Send, ArrivalInv
    <2>2. prov.at + 1 \in 1 .. 5
      BY <1>1
    <2> QED
      BY <2>1, <2>2, ProviderParts DEF Provs, ArrivalInv
  <1>8. ASSUME NEW d \in Domains, Arrives(d)
        PROVE  Arrives(d)'
    <2>1. CASE shown[d] >= prov.applied[d]
      BY <1>7, <2>1 DEF Arrives, Send, ProviderOnly
    <2>2. CASE \E i \in DOMAIN chan : chan[i].of = d /\ chan[i].rev = prov.applied[d]
      BY <1>5, <1>7, <2>2 DEF Arrives
    <2>3. CASE Domain = d /\ prov.announced[d] = prov.applied[d] /\ ~prov.failed
      <3>1. m.of = d /\ m.rev = prov.applied[d]
        BY <1>2, <1>3, <2>3
      <3> QED
        BY <1>5, <1>7, <3>1 DEF Arrives
    <2> QED
      BY <1>8, <2>1, <2>2, <2>3 DEF Arrives
  <1>9. prov'.failed => poisoned
    BY <1>7 DEF ArrivalInv, Failed
  <1>10. fresh' \in BOOLEAN /\ ProviderOnly
    BY DEF Send, ArrivalInv, TypeInv, TypeOK
  <1> QED
    BY <1>1, <1>5, <1>6, <1>7, <1>8, <1>9, <1>10, ProviderKept

-----------------------------------------------------------------------------
(* The UI executor *)

(* The UI applies a projection or reports a failure; d does not go back.   *)
LEMMA OnMessageKept ==
    ASSUME ConstantsOK, ArrivalInv, OnMessage
    PROVE  ArrivalInv' /\ \A d \in Domains : shown'[d] >= shown[d]
  <1>1. /\ chan \in Seq(Messages) /\ chan # <<>> /\ chan' = Tail(chan)
        /\ shown \in [Domains -> Revs] /\ startup = 5 /\ startup' = 5
        /\ prov' = prov /\ prov \in Provs
    BY DEF OnMessage, UiOnly, ArrivalInv, TypeInv, TypeOK, Messages, Revs, Provs
  <1>2. PICK m \in Messages : m = Head(chan)
    BY <1>1, TailFacts
  <1>3. /\ chan' \in Seq(Messages) /\ Len(chan') <= Len(chan)
        /\ \A i \in DOMAIN chan : chan[i] = m \/ \E j \in DOMAIN chan' : chan'[j] = chan[i]
    BY <1>1, <1>2, TailFacts
  <1>4. Len(chan') <= Capacity
    BY <1>1, <1>3, BoundsAreNats, LenProperties DEF ArrivalInv, TypeInv, TypeOK
  <1>5. \/ m.of \in Domains /\ Apply(m) /\ error' = error /\ told' = told
        \/ m = Failure /\ Report /\ shown' = shown
    BY <1>2 DEF OnMessage
  <1>6. /\ shown' \in [Domains -> Revs]
        /\ \A d \in Domains : shown'[d] >= shown[d]
        /\ m.of \in Domains => shown'[m.of] >= m.rev
    <2>1. CASE m.of \in Domains /\ Apply(m)
      <3>1. m.rev \in Revs
        BY DEF Messages
      <3> QED
        BY <1>1, <2>1, <3>1, ApplyFacts
    <2>2. CASE m = Failure /\ shown' = shown
      BY <1>1, <2>2 DEF Failure, Domains, Revs
    <2> QED
      BY <1>5, <2>1, <2>2
  <1>7. error' \in {"none", "startup", "lock"} /\ told' \in Nat /\ Told'
    BY <1>5 DEF Report, ArrivalInv, TypeInv, TypeOK, Told
  <1>8. TypeInv'
    BY <1>1, <1>3, <1>4, <1>6, <1>7
       DEF OnMessage, UiOnly, ArrivalInv, TypeInv, TypeOK, Messages, Revs
  <1>9. ASSUME NEW d \in Domains
        PROVE  Arrives(d)'
    <2>1. shown[d] \in Nat /\ shown'[d] \in Nat /\ prov.applied[d] \in Nat
      BY <1>1, <1>6 DEF Provs, Revs
    <2>2. Arrives(d)
      BY <1>1 DEF ArrivalInv
    <2>3. CASE shown[d] >= prov.applied[d]
      BY <1>1, <1>6, <2>1, <2>3 DEF Arrives
    <2>4. CASE \E i \in DOMAIN chan : chan[i].of = d /\ chan[i].rev = prov.applied[d]
      <3>1. CASE m.of = d /\ m.rev = prov.applied[d]
        BY <1>1, <1>6, <3>1 DEF Arrives
      <3>2. CASE \E j \in DOMAIN chan' : chan'[j].of = d /\ chan'[j].rev = prov.applied[d]
        BY <1>1, <3>2 DEF Arrives
      <3> QED
        BY <1>3, <2>4, <3>1, <3>2
    <2>5. CASE /\ prov.pc = "send" /\ Domain = d
               /\ prov.announced[d] = prov.applied[d] /\ ~prov.failed
      BY <1>1, <2>5 DEF Arrives, Domain
    <2> QED
      BY <2>2, <2>3, <2>4, <2>5 DEF Arrives
  <1>10. Failed' /\ Starting'
    BY <1>1 DEF ArrivalInv, Failed, Starting, OnMessage, UiOnly
  <1> QED
    BY <1>6, <1>7, <1>8, <1>9, <1>10 DEF ArrivalInv

LEMMA OpAppliesKept ==
    ASSUME ConstantsOK, ArrivalInv, OpApplies
    PROVE  ArrivalInv' /\ \A d \in Domains : shown'[d] >= shown[d]
  <1>1. PICK m \in ops : Apply(m) /\ ops' = ops \ {m}
    BY DEF OpApplies
  <1>2. m \in Projections /\ m.of \in Domains /\ m.rev \in Revs
    BY DEF ArrivalInv, TypeInv, TypeOK, Projections, Revs
  <1>3. shown \in [Domains -> Revs] /\ prov \in Provs /\ startup = 5 /\ startup \in 0 .. 5
    BY <1>1 DEF ArrivalInv, TypeInv, TypeOK, Revs, Provs, Starting
  <1>4. shown' \in [Domains -> Revs] /\ \A d \in Domains : shown'[d] >= shown[d]
    BY <1>1, <1>2, <1>3, ApplyFacts
  <1>5. TypeInv'
    BY <1>1, <1>4 DEF OpApplies, UiOnly, ArrivalInv, TypeInv, TypeOK, Revs
  <1>6. ASSUME NEW d \in Domains
        PROVE  Arrives(d)'
    <2>1. shown[d] \in Nat /\ shown'[d] \in Nat /\ prov.applied[d] \in Nat
      BY <1>3, <1>4 DEF Provs, Revs
    <2>2. Arrives(d) /\ shown'[d] >= shown[d]
      BY <1>3, <1>4 DEF ArrivalInv
    <2> QED
      BY <2>1, <2>2 DEF Arrives, OpApplies, UiOnly, Domain
  <1>7. Failed' /\ Starting' /\ Told'
    BY <1>3 DEF ArrivalInv, Failed, Starting, Told, OpApplies, UiOnly
  <1> QED
    BY <1>4, <1>5, <1>6, <1>7 DEF ArrivalInv

-----------------------------------------------------------------------------
(* Every step *)

LEMMA InitKept ==
    ASSUME ConstantsOK, Init
    PROVE  ArrivalInv
  <1>1. Zero \in [Domains -> Revs]
    BY BoundsAreNats DEF Zero
  <1>2. [d \in Domains |-> Zero] \in [Domains -> [Domains -> Revs]]
    BY <1>1
  <1>3. prov \in Provs /\ prov.pc = "off" /\ ~prov.failed
    BY <1>1 DEF Init, Provs
  <1>4. chan \in Seq(Messages) /\ Len(chan) = 0
    BY EmptySeq DEF Init
  <1>5. TypeOK
    <2>1. /\ core \in [Domains -> Revs] /\ shown \in [Domains -> Revs]
          /\ stamps \in [Domains -> [Domains -> Revs]]
      BY <1>1, <1>2 DEF Init
    <2>2. changes = 0 /\ opCount = 0 /\ startup = 0 /\ poisoned \in BOOLEAN /\ fresh \in BOOLEAN
      BY DEF Init
    <2>3. /\ changes \in 0 .. MaxChanges /\ opCount \in 0 .. MaxOps /\ startup \in 0 .. 5
          /\ Len(chan) <= Capacity
      BY <1>4, <2>2, BoundsAreNats
    <2>4. /\ ops \subseteq Projections /\ error \in {"none", "startup", "lock"}
          /\ told \in Nat /\ paused \in BOOLEAN
      BY DEF Init
    <2> QED
      BY <1>3, <1>4, <2>1, <2>2, <2>3, <2>4 DEF TypeOK, Provs, Messages, Projections, Revs
  <1>6. TypeInv
    BY <1>3, <1>5 DEF TypeInv, Init, Zero
  <1>7. Failed /\ Told /\ startup < 5
    BY <1>3 DEF Failed, Told, Init
  <1>8. Starting
    BY <1>3 DEF Starting, Init, Zero
  <1> QED
    BY <1>6, <1>7, <1>8 DEF ArrivalInv

LEMMA NextKept ==
    ASSUME ConstantsOK, ArrivalInv, [Next]_vars
    PROVE  ArrivalInv'
  <1>1. CASE UNCHANGED vars
    BY <1>1 DEF vars, ArrivalInv, TypeInv, TypeOK, Failed, Starting, Told, Arrives, Domain
  <1>2. CASE Publish
    BY <1>2, PublishKept
  <1>3. CASE LockPoisoned
    BY <1>3, LockPoisonedKept
  <1>4. CASE LoadInitial
    BY <1>4, LoadInitialKept
  <1>5. CASE Mount
    BY <1>5, MountKept
  <1>6. CASE Provider
    BY <1>6, LookKept, SkipKept, FetchKept, SendKept, WakeKept DEF Provider
  <1>7. CASE OnMessage
    BY <1>7, OnMessageKept
  <1>8. CASE OpReads
    BY <1>8, OpReadsKept
  <1>9. CASE OpApplies
    BY <1>9, OpAppliesKept
  <1>10. CASE Pause
    BY <1>10, PauseKept
  <1> QED
    BY <1>1, <1>2, <1>3, <1>4, <1>5, <1>6, <1>7, <1>8, <1>9, <1>10 DEF Next

LEMMA Arrival ==
    ASSUME ConstantsOK
    PROVE  Spec => []ArrivalInv
  <1>1. Init => ArrivalInv
    BY InitKept
  <1>2. ArrivalInv /\ [Next]_vars => ArrivalInv'
    BY NextKept
  <1> QED
    BY <1>1, <1>2, PTL DEF Spec

-----------------------------------------------------------------------------
(* The state is well typed: no message overflows the bounded channel, and  *)
(* no page shows a revision that Core did not publish.                     *)
THEOREM ViewTypeCorrect ==
    ASSUME ConstantsOK
    PROVE  Spec => []TypeOK
  <1>1. ArrivalInv => TypeOK
    BY DEF ArrivalInv, TypeInv
  <1> QED
    BY <1>1, Arrival, PTL

(* What the provider counts as applied, and so will not fetch again, is    *)
(* shown or on its way to the UI, though the channel is full, the window   *)
(* paused, a lock poisoned, or an operation delivers its own projection    *)
(* first (use_runtime_projection_provider, initial_applied_revisions).     *)
THEOREM NothingAppliedIsLost ==
    ASSUME ConstantsOK
    PROVE  Spec => []AppliedArrives
  <1>1. ASSUME ArrivalInv, startup = 5, NEW d \in Domains
        PROVE  \/ shown[d] >= prov.applied[d]
               \/ [of |-> d, rev |-> prov.applied[d]] \in {chan[i] : i \in DOMAIN chan}
               \/ prov.pc = "send" /\ Domain = d
    <2>1. Arrives(d) /\ chan \in Seq(Messages)
      BY <1>1 DEF ArrivalInv, TypeInv, TypeOK, Messages, Revs
    <2>2. ASSUME NEW i \in DOMAIN chan, chan[i].of = d, chan[i].rev = prov.applied[d]
          PROVE  [of |-> d, rev |-> prov.applied[d]] = chan[i]
      <3>1. chan[i] \in Messages
        BY <2>1, LenProperties
      <3> QED
        BY <2>2, <3>1 DEF Messages
    <2> QED
      BY <2>1, <2>2 DEF Arrives
  <1>2. ArrivalInv => AppliedArrives
    BY <1>1 DEF AppliedArrives
  <1> QED
    BY <1>2, Arrival, PTL

(* No page of a mounted UI goes back to an older state of Core, in         *)
(* whatever order the provider and the operations deliver                  *)
(* (the version guards of the apply_*_projection functions).               *)
THEOREM PagesNeverGoBack ==
    ASSUME ConstantsOK
    PROVE  Spec => NeverGoesBack
  <1>1. ASSUME ArrivalInv, [Next]_vars
        PROVE  [ShownGrows]_vars
    <2>1. CASE shown' = shown
      BY <1>1, <2>1 DEF ShownGrows, ArrivalInv, TypeInv, TypeOK
    <2>2. CASE OnMessage \/ OpApplies
      BY <1>1, <2>2, OnMessageKept, OpAppliesKept DEF ShownGrows
    <2>3. CASE LoadInitial
      BY <2>3 DEF LoadInitial, ShownGrows
    <2> QED
      BY <1>1, <2>1, <2>2, <2>3
         DEF Next, vars, Publish, LockPoisoned, Mount, Provider, Look, Skip, Fetch, Send,
             Wake, ProviderOnly, OpReads, Pause
  <1> QED
    BY <1>1, Arrival, PTL DEF Spec, NeverGoesBack

(* A failure that lasts is notified once, however often the provider tries *)
(* again (set_runtime_error).                                              *)
THEOREM FailureIsToldOnce ==
    ASSUME ConstantsOK
    PROVE  Spec => []NotifiedOnce
  <1>1. ArrivalInv => NotifiedOnce
    BY DEF ArrivalInv, Told, NotifiedOnce
  <1> QED
    BY <1>1, Arrival, PTL

-----------------------------------------------------------------------------
(* The recovery.  The limit is on platform_auto_recovery_attempts, which   *)
(* is set back whenever recovery is armed: the invariant is that it counts *)
(* the claims of one death, and that no death is armed twice.              *)

CONSTANTS MaxSessions, Deaths, StopsAllowed, Unconfirmed
VARIABLES sess, rec, cold, tasks, woken, used, deaths, user, claims

Recovery == INSTANCE AutoRecovery

Deads == Recovery!Ids \union {Recovery!Orphan}
Recs == [pending : BOOLEAN, dead : 0 .. Recovery!Orphan,
         attempts : 0 .. Recovery!Limit, backoff : BOOLEAN]

CountInv ==
    /\ Recovery!TypeOK
    /\ sess.id = used
    /\ sess.st = "none" <=> used = 0
    /\ rec.dead = 0 => /\ ~rec.pending /\ rec.attempts = 0
                       /\ \A id \in Deads : claims[id] = 0
    /\ rec.dead # 0 => /\ rec.dead <= used \/ rec.dead = Recovery!Orphan
                       /\ claims[rec.dead] = rec.attempts
    /\ \A id \in Recovery!Ids : id > used => claims[id] = 0
    /\ Recovery!Busy => claims[used] = 0
    /\ Recovery!ThreeStartsPerDeath

LEMMA CountInit == ASSUME Recovery!ConstantsOK, Recovery!Init PROVE CountInv
  <1>1. MaxSessions \in Nat /\ Deaths \in Nat
    BY DEF Recovery!ConstantsOK
  <1>2. Recovery!TypeOK
    BY <1>1 DEF Recovery!Init, Recovery!TypeOK, Recovery!NoSession, Recovery!Idle,
                Recovery!Limit, Recovery!Orphan, Recovery!Ids
  <1> QED
    BY <1>1, <1>2 DEF Recovery!Init, CountInv, Recovery!NoSession, Recovery!Idle,
                      Deads, Recovery!Busy, Recovery!Ids, Recovery!Orphan,
                      Recovery!ThreeStartsPerDeath, Recovery!Limit

(* The numbers, and that the orphan is none of them.                       *)
LEMMA Numbers ==
    ASSUME Recovery!ConstantsOK, CountInv
    PROVE  /\ MaxSessions \in Nat
           /\ Recovery!Orphan = MaxSessions + 1 /\ Recovery!Orphan \notin Recovery!Ids
           /\ used \in Nat /\ used <= MaxSessions /\ (used > 0 => used \in Recovery!Ids)
           /\ Deads = 1 .. Recovery!Orphan /\ DOMAIN claims = Deads
           /\ claims \in [Deads -> Nat]
  BY DEF Recovery!ConstantsOK, CountInv, Recovery!TypeOK, Recovery!Orphan,
         Recovery!Ids, Deads

LEMMA DisarmedFacts ==
    ASSUME NEW r \in Recs
    PROVE  /\ Recovery!Disarmed(r) \in Recs /\ Recovery!Disarmed(r).dead = r.dead
           /\ Recovery!Disarmed(r).attempts = r.attempts /\ Recovery!Disarmed(r).pending = FALSE
  BY DEF Recovery!Disarmed, Recs

LEMMA BeginsStep ==
    ASSUME Recovery!ConstantsOK, CountInv, ~Recovery!Busy, Recovery!Begins,
           UNCHANGED <<rec, claims>>,
           cold' \in BOOLEAN, tasks' \subseteq 0 .. MaxSessions, woken' \in BOOLEAN,
           deaths' \in 0 .. Deaths, user' \in {"none", "on", "off"}
    PROVE  CountInv'
  <1>1. /\ used < MaxSessions /\ used' = used + 1
        /\ sess' = [id |-> used + 1, st |-> "starting", stop |-> FALSE]
    BY DEF Recovery!Begins
  <1>2. Recovery!TypeOK'
    BY <1>1, Numbers DEF CountInv, Recovery!TypeOK
  <1>3. used' \in Recovery!Ids /\ claims[used'] = 0
    BY <1>1, Numbers DEF CountInv, Recovery!Ids
  <1> QED
    <2>1. sess'.id = used' /\ sess'.st = "starting" /\ used' # 0
      BY <1>1, <1>3, Numbers DEF Recovery!Ids
    <2>2. rec.dead # 0 => rec.dead <= used' \/ rec.dead = Recovery!Orphan
      BY <1>1, Numbers DEF CountInv, Recovery!TypeOK
    <2>3. \A id \in Recovery!Ids : id > used' => claims[id] = 0
      BY <1>1, Numbers DEF CountInv, Recovery!Ids
    <2> QED
      BY <1>2, <1>3, <2>1, <2>2, <2>3 DEF CountInv, Recovery!ThreeStartsPerDeath

LEMMA SessionStep ==
    ASSUME Recovery!ConstantsOK, CountInv,
           Recovery!UserStarts \/ Recovery!Connects \/ Recovery!StartFails
             \/ Recovery!UserStops \/ Recovery!StopEnds \/ Recovery!Publish
    PROVE  CountInv'
  <1>1. CASE Recovery!UserStarts
    BY <1>1, BeginsStep DEF Recovery!UserStarts, CountInv, Recovery!TypeOK
  <1>2. CASE ~Recovery!UserStarts
    <2>1. UNCHANGED <<used, claims, deaths, tasks>>
      BY <1>2 DEF Recovery!Connects, Recovery!StartFails, Recovery!UserStops,
                  Recovery!StopEnds, Recovery!Publish
    <2>2. /\ sess'.id = sess.id /\ (Recovery!Busy' => Recovery!Busy)
          /\ (sess'.st = "none" <=> sess.st = "none")
          /\ sess' \in [id : 0 .. MaxSessions, st : {"none", "starting", "up", "over"},
                        stop : BOOLEAN]
      BY <1>2 DEF Recovery!Connects, Recovery!StartFails, Recovery!UserStops,
                  Recovery!StopEnds, Recovery!Publish, CountInv, Recovery!TypeOK,
                  Recovery!Busy
    <2>3. /\ rec'.dead = rec.dead /\ rec'.attempts = rec.attempts
          /\ rec' \in Recs /\ (~rec.pending => ~rec'.pending)
      <3>1. rec' = rec \/ rec' = Recovery!Disarmed(rec)
        BY <1>2 DEF Recovery!Connects, Recovery!StartFails, Recovery!UserStops,
                    Recovery!StopEnds, Recovery!Publish
      <3> QED
        BY <3>1, DisarmedFacts DEF CountInv, Recovery!TypeOK, Recs
    <2>4. Recovery!TypeOK'
      BY <1>2, <2>1, <2>2, <2>3
         DEF Recovery!Connects, Recovery!StartFails, Recovery!UserStops,
             Recovery!StopEnds, Recovery!Publish, CountInv, Recovery!TypeOK, Recs
    <2> QED
      BY <2>1, <2>2, <2>3, <2>4 DEF CountInv, Recovery!ThreeStartsPerDeath
  <1> QED
    BY <1>1, <1>2

LEMMA DiesStep ==
    ASSUME Recovery!ConstantsOK, CountInv, Recovery!Dies PROVE CountInv'
  <1>1. /\ sess.st = "up" /\ deaths' = deaths + 1 /\ deaths < Deaths
        /\ sess' = [sess EXCEPT !.st = "over"] /\ woken' = TRUE
        /\ UNCHANGED <<cold, tasks, used, claims>>
        /\ rec' = rec \/ rec' = Recovery!Armed(sess.id)
        /\ user' \in {"none", "on", "off"}
    BY DEF Recovery!Dies, CountInv, Recovery!TypeOK
  <1>2. /\ sess'.id = used /\ sess'.st = "over" /\ used > 0
        /\ sess' \in [id : 0 .. MaxSessions, st : {"none", "starting", "up", "over"},
                      stop : BOOLEAN]
    <2>1. /\ sess \in [id : 0 .. MaxSessions, st : {"none", "starting", "up", "over"},
                       stop : BOOLEAN]
          /\ sess.id = used /\ (sess.st = "none" <=> used = 0)
      BY DEF CountInv, Recovery!TypeOK
    <2>2. used > 0
      BY <1>1, <2>1, Numbers
    <2> QED
      BY <1>1, <2>1, <2>2
  <1>3. deaths' \in 0 .. Deaths
    BY <1>1 DEF CountInv, Recovery!TypeOK, Recovery!ConstantsOK
  <1>4. claims[used] = 0 /\ used \in Recovery!Ids
    BY <1>1, <1>2, Numbers DEF CountInv, Recovery!Busy
  <1>5. /\ rec' \in Recs
        /\ rec' = rec \/ (rec'.dead = used /\ rec'.attempts = 0)
    <2>1. CASE rec' = rec
      BY <2>1 DEF CountInv, Recovery!TypeOK, Recs
    <2>2. CASE rec' = Recovery!Armed(sess.id)
      <3>1. sess.id = used /\ used \in 0 .. Recovery!Orphan /\ 0 \in 0 .. Recovery!Limit
        BY Numbers DEF CountInv, Recovery!Limit
      <3> QED
        BY <2>2, <3>1 DEF Recovery!Armed, Recs
    <2> QED
      BY <1>1, <2>1, <2>2
  <1>6. Recovery!TypeOK'
    BY <1>1, <1>2, <1>3, <1>5 DEF CountInv, Recovery!TypeOK, Recs
  <1> QED
    BY <1>1, <1>2, <1>4, <1>5, <1>6, Numbers
       DEF CountInv, Recovery!Busy, Recovery!ThreeStartsPerDeath

LEMMA ClaimStep ==
    ASSUME Recovery!ConstantsOK, CountInv, Recovery!Claim PROVE CountInv'
  <1>1. UNCHANGED <<sess, cold, used, deaths, user>> /\ woken' = FALSE
    BY DEF Recovery!Claim
  <1>2. /\ Recovery!Found \in Recs
        /\ \/ Recovery!Found = rec
           \/ (rec.dead = 0 /\ Recovery!Found = Recovery!Armed(Recovery!Orphan))
    <2>1. Recovery!Orphan \in 0 .. Recovery!Orphan /\ 0 \in 0 .. Recovery!Limit /\ rec \in Recs
      BY Numbers DEF Recovery!Limit, CountInv, Recovery!TypeOK, Recs
    <2> QED
      BY <2>1 DEF Recovery!Found, Recovery!Armed, Recs
  <1>3. /\ Recovery!Found.dead # 0 =>
              /\ Recovery!Found.dead <= used \/ Recovery!Found.dead = Recovery!Orphan
              /\ claims[Recovery!Found.dead] = Recovery!Found.attempts
        /\ Recovery!Found.dead = 0 =>
              /\ ~Recovery!Found.pending /\ Recovery!Found.attempts = 0
              /\ \A id \in Deads : claims[id] = 0
    BY <1>2, Numbers DEF CountInv, Recovery!Armed
  <1>4. CASE /\ rec' \in {Recovery!Found, Recovery!Disarmed(Recovery!Found)} \/ UNCHANGED rec
             /\ UNCHANGED <<tasks, claims>>
    <2>1. /\ rec' \in Recs
          /\ rec'.dead # 0 => /\ rec'.dead <= used \/ rec'.dead = Recovery!Orphan
                              /\ claims[rec'.dead] = rec'.attempts
          /\ rec'.dead = 0 => /\ ~rec'.pending /\ rec'.attempts = 0
                              /\ \A id \in Deads : claims[id] = 0
      <3>1. CASE rec' = Recovery!Found
        BY <1>2, <1>3, <3>1
      <3>2. CASE rec' = Recovery!Disarmed(Recovery!Found)
        BY <1>2, <1>3, <3>2, DisarmedFacts
      <3>3. CASE UNCHANGED rec
        BY <3>3 DEF CountInv, Recovery!TypeOK, Recs
      <3> QED
        BY <1>4, <3>1, <3>2, <3>3
    <2>2. Recovery!TypeOK'
      BY <1>1, <1>4, <2>1 DEF CountInv, Recovery!TypeOK, Recs
    <2> QED
      BY <1>1, <1>4, <2>1, <2>2
         DEF CountInv, Recovery!Busy, Recovery!ThreeStartsPerDeath
  <1>5. CASE /\ ~Recovery!Busy /\ Recovery!Found.pending /\ Recovery!Found.attempts < Recovery!Limit
             /\ rec' = [Recovery!Disarmed(Recovery!Found)
                            EXCEPT !.attempts = Recovery!Found.attempts + 1]
             /\ tasks' = tasks \union {0}
             /\ claims' = [claims EXCEPT ![Recovery!Found.dead] = @ + 1]
    <2>1. Recovery!Found.dead # 0
      BY <1>3, <1>5
    <2>2. Recovery!Found.dead \in Deads /\ claims[Recovery!Found.dead] = Recovery!Found.attempts
      <3>1. Recovery!Found.dead \in 0 .. Recovery!Orphan
        BY <1>2 DEF Recs
      <3>2. MaxSessions \in Nat /\ Recovery!Orphan = MaxSessions + 1 /\ Deads = 1 .. Recovery!Orphan
        BY Numbers
      <3> QED
        BY <1>3, <2>1, <3>1, <3>2
    <2>3. /\ rec' \in Recs /\ rec'.dead = Recovery!Found.dead
          /\ rec'.attempts = Recovery!Found.attempts + 1
      <3>1. /\ Recovery!Found.attempts + 1 \in 0 .. Recovery!Limit
            /\ Recovery!Disarmed(Recovery!Found) \in Recs
        <4>1. Recovery!Found.attempts \in 0 .. Recovery!Limit
          BY <1>2 DEF Recs
        <4>2. Recovery!Found.attempts + 1 \in 0 .. Recovery!Limit
          BY <1>5, <4>1 DEF Recovery!Limit
        <4> QED
          BY <1>2, <4>2, DisarmedFacts
      <3> QED
        BY <1>2, <1>5, <3>1, DisarmedFacts DEF Recs
    <2>4. /\ claims' \in [Deads -> Nat]
          /\ claims'[Recovery!Found.dead] = Recovery!Found.attempts + 1
          /\ \A id \in Deads : id # Recovery!Found.dead => claims'[id] = claims[id]
      BY <1>2, <1>5, <2>2, Numbers
    <2>5. Recovery!TypeOK'
      <3>1. tasks' \subseteq 0 .. MaxSessions
        BY <1>5, Numbers DEF CountInv, Recovery!TypeOK
      <3> QED
        BY <1>1, <2>3, <2>4, <3>1 DEF CountInv, Recovery!TypeOK, Deads, Recs
    <2>6. Recovery!ThreeStartsPerDeath'
      BY <1>2, <1>5, <2>4, Numbers
         DEF CountInv, Recovery!ThreeStartsPerDeath, Recovery!Limit
    <2>7. \A id \in Recovery!Ids : id > used => id # Recovery!Found.dead /\ id \in Deads
      BY <1>3, <2>1, Numbers DEF Deads
    <2>8. \A id \in Recovery!Ids : id > used' => claims'[id] = 0
      BY <1>1, <2>4, <2>7 DEF CountInv
    <2> QED
      BY <1>1, <1>3, <1>5, <2>1, <2>3, <2>4, <2>5, <2>6, <2>8
         DEF CountInv, Recovery!Busy
  <1> QED
    BY <1>4, <1>5 DEF Recovery!Claim

LEMMA TaskStep ==
    ASSUME Recovery!ConstantsOK, CountInv,
           \/ Recovery!AutoStart \/ Recovery!AutoStarted
           \/ Recovery!BackoffEnds \/ UNCHANGED Recovery!vars
    PROVE  CountInv'
  <1>1. CASE Recovery!AutoStart
    <2>1. CASE Recovery!Begins /\ ~Recovery!Busy
      <3>1. tasks' \subseteq 0 .. MaxSessions
        <4>1. used + 1 \in 0 .. MaxSessions /\ tasks \subseteq 0 .. MaxSessions
          BY <2>1, Numbers DEF Recovery!Begins, CountInv, Recovery!TypeOK
        <4>2. tasks' = (tasks \ {0}) \union {used + 1} \/ tasks' = tasks \ {0}
          BY <1>1 DEF Recovery!AutoStart
        <4> QED
          BY <4>1, <4>2
      <3> QED
        BY <1>1, <2>1, <3>1, BeginsStep
           DEF Recovery!AutoStart, CountInv, Recovery!TypeOK
    <2>2. CASE Recovery!Busy
      BY <1>1, <2>2 DEF Recovery!AutoStart, CountInv, Recovery!TypeOK,
                        Recovery!Busy, Recovery!ThreeStartsPerDeath
    <2> QED
      BY <1>1, <2>1, <2>2 DEF Recovery!AutoStart
  <1>2. CASE Recovery!AutoStarted \/ Recovery!BackoffEnds \/ UNCHANGED Recovery!vars
    <2>1. /\ UNCHANGED <<sess, cold, woken, used, deaths, user, claims>>
          /\ tasks' \subseteq tasks
      BY <1>2 DEF Recovery!AutoStarted, Recovery!BackoffEnds, Recovery!vars
    <2>2. /\ rec'.dead = rec.dead /\ rec'.attempts = rec.attempts
          /\ rec' \in Recs /\ (rec.attempts = 0 /\ ~rec.pending => ~rec'.pending)
      <3>1. rec \in Recs
        BY DEF CountInv, Recovery!TypeOK, Recs
      <3>2. CASE rec' = rec
        BY <3>1, <3>2
      <3>3. CASE /\ rec' = [rec EXCEPT !.pending = TRUE, !.backoff = TRUE]
                 /\ rec.attempts # 0
        BY <3>1, <3>3 DEF Recs
      <3>4. CASE rec' = [rec EXCEPT !.backoff = FALSE]
        BY <3>1, <3>4 DEF Recs
      <3> QED
        BY <1>2, <3>2, <3>3, <3>4
           DEF Recovery!AutoStarted, Recovery!Rearm, Recovery!BackoffEnds,
               Recovery!vars, Recovery!Limit
    <2>3. Recovery!TypeOK'
      BY <2>1, <2>2 DEF CountInv, Recovery!TypeOK, Recs
    <2> QED
      BY <2>1, <2>2, <2>3 DEF CountInv, Recovery!Busy, Recovery!ThreeStartsPerDeath
  <1> QED
    BY <1>1, <1>2

LEMMA CountNext ==
    ASSUME Recovery!ConstantsOK, CountInv, [Recovery!Next]_Recovery!vars PROVE CountInv'
  BY SessionStep, DiesStep, ClaimStep, TaskStep DEF Recovery!Next

(* One death of a session is answered by at most three automatic starts    *)
(* (claim_platform_vpn_auto_recovery), whichever of them fail, whatever    *)
(* the user does in between and however often the Extension dies.          *)
THEOREM ThreeStarts ==
    ASSUME Recovery!ConstantsOK PROVE Recovery!Spec => []Recovery!ThreeStartsPerDeath
  <1>1. CountInv => Recovery!ThreeStartsPerDeath
    BY DEF CountInv
  <1> QED
    BY <1>1, CountInit, CountNext, PTL DEF Recovery!Spec

-----------------------------------------------------------------------------
(* What an Option holds when it holds nothing.                             *)
CONSTANT None

-----------------------------------------------------------------------------
(* The continuous task.                                                    *)

CONSTANTS CancelEarly, Refusals, MaxTasks, MaxUser

VARIABLES session, owned, obj, request, stop, keepSystem, issued, events, again,
          stopped, keepUser

Keep == INSTANCE ContinuousTask WITH system <- keepSystem, user <- keepUser

(* The fields of the object and what the system knows of its tasks.        *)
KeepTypes ==
    /\ session \in BOOLEAN /\ owned \in BOOLEAN /\ again \in BOOLEAN
    /\ obj \in [context : BOOLEAN, task : {None} \cup Nat, timer : BOOLEAN,
                stopping : BOOLEAN, handler : BOOLEAN, listening : BOOLEAN]
    /\ request \in {None, "agent", "starting", "publishing", "unwinding"}
    /\ stop \in {None} \cup Keep!Stops
    /\ keepSystem \in {None} \cup 1..issued /\ issued \in Nat /\ events \subseteq 1..issued
    /\ stopped \in {"yes", "no", "lost"}

Arriving == request \in {"agent", "starting"}

(* While the system has refused no stop and no start met one: the object   *)
(* holds the task that runs, only events of that task are on the way to a  *)
(* listener, and a stop() has seen the task that it has to end, or the     *)
(* start of it.                                                            *)
Followed ==
    /\ keepSystem # None => obj.task = keepSystem /\ obj.context
    /\ Arriving => obj.context
    /\ request = "starting" => obj.listening
    /\ obj.listening => events \subseteq {obj.task}
    /\ stop # None /\ (keepSystem # None \/ Arriving) => stop.context /\ stop.asked
    /\ stop # None /\ stop.at # "wait" => request = None
    /\ stop # None /\ stop.at = "end" => keepSystem = None
    /\ stopped = "yes" => request = None /\ keepSystem = None

(* A start that has not published holds no task.                           *)
KeepInv ==
    /\ KeepTypes
    /\ Arriving => obj.task = None
    /\ request = "unwinding" => ~obj.listening
    /\ keepSystem \notin events
    /\ stopped # "lost" => Followed
    /\ Keep!TaskIsUpdated

(* The Plugin begins with no session, no task and no stop under way.       *)
LEMMA KeepInit == ASSUME Keep!ConstantsOK, Keep!Init PROVE KeepInv
  BY DEF Keep!ConstantsOK, Keep!Init, Keep!Idle, KeepInv, KeepTypes, Arriving, Followed,
         Keep!TaskIsUpdated

(* To ask for a task begins a start where there is none, and is remembered *)
(* when it meets a stop (startContinuousTaskProtection).                   *)
LEMMA KeepAsks ==
    ASSUME Keep!ConstantsOK, KeepInv, Keep!Asks,
           UNCHANGED <<stop, keepSystem, issued, events>>,
           session' \in BOOLEAN, owned' \in BOOLEAN, again' \in BOOLEAN
    PROVE  KeepInv'
  <1>1. /\ obj' \in [context : BOOLEAN, task : {None} \cup Nat, timer : BOOLEAN,
                     stopping : BOOLEAN, handler : BOOLEAN, listening : BOOLEAN]
        /\ obj'.task = obj.task /\ obj'.context /\ obj'.timer = obj.timer
        /\ obj'.listening = obj.listening
    BY DEF KeepInv, KeepTypes, Keep!Asks, Keep!StartCall
  <1>2. /\ request' = (IF obj.task # None \/ request # None THEN request ELSE "agent")
        /\ "agent" # None
    BY DEF Keep!Asks, Keep!StartCall, Keep!ConstantsOK
  <1>3. /\ stopped' \in {"yes", "no", "lost"}
        /\ stopped' # "lost" => stop = None /\ stopped # "lost" /\ stopped' = "no"
    BY DEF KeepInv, KeepTypes, Keep!Asks, Keep!Noted
  <1>4. KeepTypes'
    BY <1>1, <1>2, <1>3 DEF KeepInv, KeepTypes
  <1>5. stopped' # "lost" => Followed'
    BY <1>1, <1>2, <1>3 DEF KeepInv, Followed, Arriving
  <1>6. /\ Arriving' => obj'.task = None
        /\ request' = "unwinding" => ~obj'.listening
        /\ keepSystem' \notin events'
        /\ Keep!TaskIsUpdated'
    BY <1>1, <1>2 DEF KeepInv, Arriving, Keep!TaskIsUpdated
  <1> QED
    BY <1>4, <1>5, <1>6 DEF KeepInv

(* Where the object, the start, the stop and the tasks stay as they are,   *)
(* what is known of them does.                                             *)
LEMMA KeepStays ==
    ASSUME KeepInv,
           UNCHANGED <<obj, request, stop, keepSystem, issued, events, stopped>>,
           session' \in BOOLEAN, owned' \in BOOLEAN, again' \in BOOLEAN
    PROVE  KeepInv'
  <1>1. KeepTypes' /\ (stopped' # "lost" => Followed')
    BY DEF KeepInv, KeepTypes, Followed, Arriving
  <1> QED
    BY <1>1 DEF KeepInv, Arriving, Keep!TaskIsUpdated

(* A connection, the foreground and the 250 ms timer begin a start, and a  *)
(* session that ends, by itself or by the stop for recovery, leaves what   *)
(* is known of the task as it is (performStartVpn, onAbilityForeground).   *)
LEMMA KeepStarts ==
    ASSUME Keep!ConstantsOK, KeepInv,
           Keep!StartAgain \/ Keep!Connect \/ Keep!Foreground \/ Keep!SessionEnds
           \/ Keep!StopForRecovery
    PROVE  KeepInv'
  <1> USE DEF Keep!sysVars, Keep!held
  <1>1. session \in BOOLEAN /\ owned \in BOOLEAN /\ again \in BOOLEAN
    BY DEF KeepInv, KeepTypes
  <1>2. CASE Keep!StartAgain
    <2>1. again' \in BOOLEAN
      BY ONLY <1>2 DEF Keep!StartAgain
    <2> QED
      BY <1>1, <1>2, <2>1, KeepAsks, KeepStays DEF Keep!StartAgain
  <1>3. CASE Keep!Connect
    <2>1. session' \in BOOLEAN /\ owned' \in BOOLEAN
      BY ONLY <1>3 DEF Keep!Connect
    <2> QED
      BY <1>1, <1>3, <2>1, KeepAsks DEF Keep!Connect
  <1>4. CASE Keep!Foreground
    BY <1>1, <1>4, KeepAsks DEF Keep!Foreground
  <1>5. CASE Keep!SessionEnds
    <2>1. owned' \in BOOLEAN
      BY ONLY <1>5 DEF Keep!SessionEnds
    <2> QED
      BY <1>1, <1>5, <2>1, KeepStays DEF Keep!SessionEnds
  <1>6. CASE Keep!StopForRecovery
    <2>1. session' \in BOOLEAN /\ owned' \in BOOLEAN
      BY ONLY <1>1, <1>6 DEF Keep!StopForRecovery, Keep!Forgets
    <2> QED
      BY <1>1, <1>6, <2>1, KeepStays DEF Keep!StopForRecovery
  <1> QED
    BY <1>2, <1>3, <1>4, <1>5, <1>6

(* A start that goes on, is refused or unwinds keeps the object and the    *)
(* task of the system together (startInternal).                            *)
LEMMA KeepStarting ==
    ASSUME Keep!ConstantsOK, KeepInv,
           Keep!AgentReady \/ Keep!SystemStarts \/ Keep!SystemRefuses \/ Keep!Published
           \/ Keep!PublishFails \/ Keep!Unwound
    PROVE  KeepInv'
  <1> USE DEF Keep!ConstantsOK, KeepInv, KeepTypes, Arriving, Followed, Keep!TaskIsUpdated,
              Keep!Off, Keep!Cleared, Keep!sysVars, Keep!held
  <1>1. CASE Keep!AgentReady
    BY <1>1 DEF Keep!AgentReady
  <1>2. CASE Keep!SystemStarts
    BY <1>2 DEF Keep!SystemStarts
  <1>3. CASE Keep!SystemRefuses
    BY <1>3 DEF Keep!SystemRefuses
  <1>4. CASE Keep!Published
    BY <1>4 DEF Keep!Published
  <1>5. CASE Keep!PublishFails
    <2>1. /\ obj' \in [context : BOOLEAN, task : {None} \cup Nat, timer : BOOLEAN,
                       stopping : BOOLEAN, handler : BOOLEAN, listening : BOOLEAN]
          /\ ~obj'.listening /\ obj'.task = obj.task /\ obj'.context \in {obj.context, FALSE}
          /\ obj'.context = FALSE => obj.task = None \/ obj.context = FALSE
          /\ request' = (IF obj.task # None THEN "unwinding" ELSE None)
          /\ events' = {} /\ request = "publishing"
          /\ UNCHANGED <<session, owned, stop, keepSystem, issued, again, stopped>>
      BY <1>5 DEF Keep!PublishFails
    <2>2. KeepTypes'
      BY ONLY KeepTypes, <2>1 DEF KeepTypes
    <2>3. stopped' # "lost" => Followed'
      BY ONLY KeepInv, <2>1, Keep!ConstantsOK DEF KeepInv, Followed, Arriving, Keep!ConstantsOK
    <2> QED
      BY ONLY KeepInv, <2>1, <2>2, <2>3, Keep!ConstantsOK
         DEF KeepInv, Arriving, Keep!TaskIsUpdated, Keep!ConstantsOK
  <1>6. CASE Keep!Unwound
    <2>1. /\ obj'.task = None /\ obj'.context = FALSE
          /\ obj'.listening = obj.listening /\ request' = None /\ keepSystem' = None
      BY <1>6 DEF Keep!Unwound
    <2>2. KeepTypes'
      BY <1>6 DEF Keep!Unwound
    <2> QED
      BY <1>6, <2>1, <2>2 DEF Keep!Unwound
  <1> QED
    BY <1>1, <1>2, <1>3, <1>4, <1>5, <1>6

(* A stop that waits for a start and ends leaves no task, unless the       *)
(* system refused (VpnContinuousTask, performStopVpn).                     *)
LEMMA KeepStops ==
    ASSUME Keep!ConstantsOK, KeepInv,
           Keep!Disconnect \/ Keep!StopWaited \/ Keep!SystemStops \/ Keep!StopEnds
    PROVE  KeepInv'
  <1> USE DEF Keep!ConstantsOK, KeepInv, KeepTypes, Arriving, Followed, Keep!TaskIsUpdated,
              Keep!Off, Keep!Noted, Keep!Stops, Keep!sysVars, Keep!held
  <1>1. CASE Keep!Disconnect
    <2>2. session' \in BOOLEAN /\ owned' \in BOOLEAN
      BY ONLY <1>1, session \in BOOLEAN, owned \in BOOLEAN
         DEF Keep!Disconnect, Keep!Forgets
    <2>3. /\ stop' \in Keep!Stops
          /\ stop'.at = (IF request # None THEN "wait" ELSE "system")
          /\ obj.context => stop'.context
          /\ obj.task # None \/ request # None => stop'.asked
      BY <1>1 DEF Keep!Disconnect, Keep!StopCall
    <2>4. stop' # None
      BY ONLY <2>3, Keep!ConstantsOK DEF Keep!ConstantsOK
    <2>5. /\ obj' \in [context : BOOLEAN, task : {None} \cup Nat, timer : BOOLEAN,
                       stopping : BOOLEAN, handler : BOOLEAN, listening : BOOLEAN]
          /\ obj'.task = obj.task /\ obj'.context = obj.context
          /\ obj'.listening = obj.listening
      BY <1>1 DEF Keep!Disconnect, Keep!StopCall
    <2>6. UNCHANGED <<request, keepSystem, issued, events, again, stopped>>
      BY <1>1 DEF Keep!Disconnect
    <2>7. KeepTypes'
      BY <2>2, <2>3, <2>5, <2>6
    <2>8. ~(stopped = "lost") => Followed'
      <3> SUFFICES ASSUME ~(stopped = "lost"), Followed PROVE Followed'
        BY DEF KeepInv
      <3>1. /\ stopped' = "yes" => request' = None /\ keepSystem' = None
            /\ stop'.at # "wait" => request' = None
            /\ stop'.at # "end"
        BY <2>3, <2>6
      <3>2. keepSystem # None \/ Arriving => obj.context /\ (obj.task # None \/ request # None)
        BY DEF Followed, Arriving
      <3>3. keepSystem' # None \/ Arriving' => stop'.context /\ stop'.asked
        BY ONLY <3>2, <2>3, <2>6 DEF Arriving
      <3>4. /\ keepSystem' # None => obj'.task = keepSystem' /\ obj'.context
            /\ Arriving' => obj'.context
            /\ request' = "starting" => obj'.listening
            /\ obj'.listening => events' \subseteq {obj'.task}
        BY ONLY Followed, <2>5, <2>6 DEF Followed, Arriving
      <3> QED
        BY ONLY <3>1, <3>3, <3>4 DEF Followed
    <2> QED
      BY ONLY KeepInv, <2>2, <2>3, <2>4, <2>5, <2>6, <2>7, <2>8
         DEF KeepInv, Arriving, Keep!TaskIsUpdated
  <1>2. CASE Keep!StopWaited
    BY <1>2 DEF Keep!StopWaited
  <1>3. CASE Keep!SystemStops
    BY <1>3 DEF Keep!SystemStops
  <1>4. CASE Keep!StopEnds
    <2>1. /\ obj' = [Keep!Idle EXCEPT !.timer = obj.timer]
          /\ events' = {} /\ stop' = None /\ stop # None
          /\ \/ stop.at = "end"
             \/ stop.at = "system" /\ ~(stop.context /\ stop.asked)
          /\ stopped' = (IF stopped = "lost" THEN stopped ELSE "yes")
          /\ UNCHANGED <<session, owned, request, keepSystem, issued, again>>
      BY <1>4 DEF Keep!StopEnds
    <2>2. /\ obj' \in [context : BOOLEAN, task : {None} \cup Nat, timer : BOOLEAN,
                       stopping : BOOLEAN, handler : BOOLEAN, listening : BOOLEAN]
          /\ obj'.task = None /\ ~obj'.listening
      BY ONLY <2>1, KeepTypes DEF KeepTypes, Keep!Idle
    <2>3. KeepTypes'
      BY ONLY KeepTypes, <2>1, <2>2 DEF KeepTypes
    <2>4. ASSUME stopped' # "lost" PROVE Followed'
      <3>1. request = None /\ keepSystem = None
        <4>1. stopped # "lost"
          BY ONLY <2>1, <2>4
        <4>2. Followed
          BY ONLY KeepInv, <4>1 DEF KeepInv
        <4> QED
          BY ONLY <4>2, <2>1 DEF Followed
      <3> QED
        BY ONLY <3>1, <2>1, <2>2, Keep!ConstantsOK DEF Followed, Arriving, Keep!ConstantsOK
    <2> QED
      BY ONLY KeepInv, <2>1, <2>2, <2>3, <2>4 DEF KeepInv, Arriving, Keep!TaskIsUpdated
  <1> QED
    BY <1>1, <1>2, <1>3, <1>4

(* A cancellation by the system, and its event when it comes, clear the    *)
(* object that listens (cancellationListener, clearLocalState).            *)
LEMMA KeepCancels ==
    ASSUME Keep!ConstantsOK, KeepInv,
           Keep!SystemCancels \/ \E e \in events : Keep!Cancelled(e)
    PROVE  KeepInv'
  <1> USE DEF Keep!ConstantsOK, KeepInv, KeepTypes, Arriving, Followed, Keep!TaskIsUpdated,
              Keep!Cleared, Keep!held
  <1>1. CASE Keep!SystemCancels
    <2>1. KeepTypes'
      <3>1. /\ keepSystem' = None /\ events' = events \cup {keepSystem} /\ keepSystem # None
            /\ UNCHANGED <<session, owned, obj, request, stop, issued, again, stopped>>
        BY ONLY <1>1 DEF Keep!SystemCancels, Keep!held
      <3>2. events' \subseteq 1..issued
        BY ONLY KeepTypes, <3>1 DEF KeepTypes
      <3> QED
        BY ONLY KeepTypes, <3>1, <3>2 DEF KeepTypes
    <2>2. stopped # "lost" => (obj.listening => events' \subseteq {obj.task})
      BY <1>1 DEF Keep!SystemCancels
    <2> QED
      BY <1>1, <2>1, <2>2 DEF Keep!SystemCancels
  <1>2. ASSUME NEW e \in events, Keep!Cancelled(e) PROVE KeepInv'
    <2>1. again' \in BOOLEAN
      BY <1>2 DEF Keep!Cancelled
    <2>2. events' \subseteq events
      BY ONLY <1>2 DEF Keep!Cancelled
    <2>3. CASE obj.listening /\ obj.task \in {None, e}
      <3>1. obj' = Keep!Cleared(obj)
        BY ONLY <1>2, <2>3 DEF Keep!Cancelled
      <3>2. /\ obj'.task = None /\ obj'.context = FALSE
            /\ obj'.listening = obj.listening
        BY <3>1
      <3>3. KeepTypes'
        BY <1>2, <2>1, <2>2, <3>1 DEF Keep!Cancelled
      <3> QED
        BY <1>2, <2>2, <2>3, <3>2, <3>3 DEF Keep!Cancelled
    <2>4. CASE ~(obj.listening /\ obj.task \in {None, e})
      BY <1>2, <2>1, <2>2, <2>4 DEF Keep!Cancelled
    <2> QED
      BY <2>3, <2>4
  <1> QED
    BY <1>1, <1>2

(* A stop leaves no continuous task until the Plugin asks for one again,   *)
(* however it meets a start or a cancellation, unless the system refused   *)
(* or the Plugin asked while the stop ran; a task that is held has its     *)
(* timer (VpnContinuousTask).                                              *)
THEOREM TaskFollows ==
    ASSUME Keep!ConstantsOK
    PROVE  Keep!Spec => [](Keep!NoTaskAfterStop /\ Keep!TaskIsUpdated)
  <1>1. ASSUME Keep!Init PROVE KeepInv
    BY <1>1, KeepInit
  <1>2. ASSUME KeepInv, [Keep!Next]_(Keep!vars) PROVE KeepInv'
    <2>1. CASE UNCHANGED Keep!vars
      BY <1>2, <2>1 DEF Keep!vars, Keep!held, Keep!sysVars, KeepInv, KeepTypes, Arriving, Followed,
                        Keep!TaskIsUpdated
    <2> QED
      BY <1>2, <2>1, KeepStarts, KeepStarting, KeepStops, KeepCancels
         DEF Keep!Next, Keep!Continues
  <1>3. KeepInv => Keep!NoTaskAfterStop /\ Keep!TaskIsUpdated
    BY DEF KeepInv, Followed, Keep!NoTaskAfterStop
  <1> QED
    BY <1>1, <1>2, <1>3, PTL DEF Keep!Spec

-----------------------------------------------------------------------------
(* The appearance.                                                         *)

CONSTANTS MaxLooks, MaxSystem, MaxRestarts, ColorFails, SaveFails

VARIABLES prefs, file, calls, platform, os, appearanceSystem, appearanceFresh,
          appearanceChan, appearanceLeft

Looks == INSTANCE UiAppearance WITH
    MaxEdits <- MaxLooks, system <- appearanceSystem, fresh <- appearanceFresh,
    chan <- appearanceChan, left <- appearanceLeft

Preferences == [language : Looks!Languages, theme : Looks!Themes, locale : Looks!Locales,
                dark : BOOLEAN, applied : Looks!Modes \cup {None},
                pending : Looks!Modes \cup {None}, modeError : BOOLEAN, saveError : BOOLEAN]

ModeCalls == [mode : Looks!Modes, state : {"sent", "applied", "refused"}]

(* What the page shows follows from the file, and what it waits for is     *)
(* under way.                                                              *)
LooksInv ==
    /\ prefs \in Preferences /\ file \in Looks!Saved /\ calls \in Seq(ModeCalls)
    /\ {os, appearanceSystem} \subseteq Looks!System
    /\ appearanceChan \in Seq(Looks!System)
    /\ platform \in Looks!Modes
    /\ Looks!PendingHasCall /\ Looks!ShownIsSaved

(* What the preferences resolve to is a locale, a palette and a colour     *)
(* mode (resolve_dark, platform_color_mode).                               *)
LEMMA Resolved ==
    ASSUME NEW language \in Looks!Languages, NEW locale \in Looks!Locales,
           NEW theme \in Looks!Themes, NEW mode
    PROVE  /\ Looks!Locale(language, locale) \in Looks!Locales
           /\ Looks!Dark(theme, mode) \in BOOLEAN
           /\ Looks!ModeOf(theme) \in Looks!Modes
  BY DEF Looks!Languages, Looks!Locales, Looks!Themes, Looks!Modes, Looks!Locale,
         Looks!Dark, Looks!ModeOf

(* A call that calls back is taken away, the others stay.                  *)
LEMMA OtherCallsStay ==
    ASSUME NEW S, NEW s \in Seq(S), NEW i \in DOMAIN s
    PROVE  /\ Looks!RemoveAt(s, i) \in Seq(S)
           /\ \A j \in DOMAIN s :
                j # i => \E k \in DOMAIN Looks!RemoveAt(s, i) :
                           Looks!RemoveAt(s, i)[k] = s[j]
  <1>1. /\ Len(s) \in Nat /\ DOMAIN s = 1 .. Len(s) /\ i \in 1 .. Len(s)
        /\ \A j \in 1 .. Len(s) : s[j] \in S
    BY LenProperties
  <1> DEFINE a == SubSeq(s, 1, i - 1)
             b == SubSeq(s, i + 1, Len(s))
  <1>2. /\ a \in Seq(S) /\ Len(a) = i - 1
        /\ \A j \in 1 .. (i - 1) : a[j] = s[j]
    <2>1. 1 \in Int /\ i - 1 \in Int /\ \A j \in 1 .. (i - 1) : s[j] \in S
      BY <1>1
    <2>2. /\ a \in Seq(S) /\ Len(a) = IF 1 <= i - 1 THEN (i - 1) - 1 + 1 ELSE 0
          /\ \A j \in 1 .. ((i - 1) - 1 + 1) : a[j] = s[1 + j - 1]
      BY <2>1, SubSeqProperties
    <2> HIDE DEF a
    <2>3. Len(a) = i - 1 /\ (i - 1) - 1 + 1 = i - 1 /\ \A j \in 1 .. (i - 1) : 1 + j - 1 = j
      BY <1>1, <2>2
    <2> QED
      BY <2>2, <2>3
  <1>3. /\ b \in Seq(S) /\ Len(b) = Len(s) - i
        /\ \A j \in 1 .. (Len(s) - i) : b[j] = s[i + j]
    <2>1. i + 1 \in Int /\ Len(s) \in Int /\ \A j \in (i + 1) .. Len(s) : s[j] \in S
      BY <1>1
    <2>2. /\ b \in Seq(S) /\ Len(b) = IF i + 1 <= Len(s) THEN Len(s) - (i + 1) + 1 ELSE 0
          /\ \A j \in 1 .. (Len(s) - (i + 1) + 1) : b[j] = s[(i + 1) + j - 1]
      BY <2>1, SubSeqProperties
    <2> HIDE DEF b
    <2>3. /\ Len(s) - (i + 1) + 1 = Len(s) - i
          /\ \A j \in 1 .. (Len(s) - i) : (i + 1) + j - 1 = i + j
      BY <1>1
    <2>4. i + 1 <= Len(s) \/ Len(s) - i = 0
      BY <1>1
    <2>5. i + 1 <= Len(s) => Len(b) = Len(s) - i
      BY <2>2, <2>3
    <2>6. ~(i + 1 <= Len(s)) => Len(b) = 0
      BY <2>2
    <2>7. Len(b) = Len(s) - i
      BY <2>4, <2>5, <2>6
    <2>8. \A j \in 1 .. (Len(s) - i) : b[j] = s[i + j]
      BY <2>2, <2>3
    <2> QED
      BY <2>2, <2>7, <2>8
  <1>4. Looks!RemoveAt(s, i) = a \o b
    BY DEF Looks!RemoveAt
  <1> HIDE DEF a, b
  <1>5. /\ a \o b \in Seq(S) /\ Len(a \o b) = Len(s) - 1
        /\ \A j \in 1 .. (Len(s) - 1) : (a \o b)[j] = IF j <= i - 1 THEN a[j] ELSE b[j - (i - 1)]
    <2>1. /\ a \o b \in Seq(S) /\ Len(a \o b) = Len(a) + Len(b)
          /\ \A j \in 1 .. (Len(a) + Len(b)) : (a \o b)[j] = IF j <= Len(a) THEN a[j] ELSE b[j - Len(a)]
      BY <1>2, <1>3, ConcatProperties
    <2>2. Len(a) + Len(b) = Len(s) - 1
      BY <1>1, <1>2, <1>3
    <2> QED
      BY <1>2, <2>1, <2>2
  <1> DEFINE c == a \o b
  <1> HIDE DEF c
  <1>6. DOMAIN c = 1 .. (Len(s) - 1)
    BY <1>5, LenProperties DEF c
  <1>7. ASSUME NEW j \in DOMAIN s, j # i
        PROVE  \E k \in DOMAIN c : c[k] = s[j]
    <2>1. CASE j < i
      <3>1. j \in 1 .. (Len(s) - 1) /\ j <= i - 1 /\ j \in 1 .. (i - 1)
        BY <1>1, <2>1
      <3>2. c[j] = s[j]
        BY <1>2, <1>5, <3>1 DEF c
      <3> QED
        BY <1>6, <3>1, <3>2
    <2>2. CASE ~(j < i)
      <3>1. /\ j - 1 \in 1 .. (Len(s) - 1) /\ ~(j - 1 <= i - 1)
            /\ (j - 1) - (i - 1) \in 1 .. (Len(s) - i) /\ i + ((j - 1) - (i - 1)) = j
        BY <1>1, <1>7, <2>2
      <3>2. c[j - 1] = b[(j - 1) - (i - 1)]
        BY <1>5, <3>1 DEF c
      <3>3. c[j - 1] = s[j]
        BY <1>3, <3>1, <3>2
      <3> QED
        BY <1>6, <3>1, <3>3
    <2> QED
      BY <2>1, <2>2
  <1> QED
    BY <1>4, <1>5, <1>7 DEF c

(* What the root loads is what the file says, with no call under way.      *)
LEMMA LoadedIsSaved ==
    ASSUME NEW saved \in Looks!Saved, NEW now \in Looks!System
    PROVE  LET p == Looks!Loaded(saved, now)
           IN  /\ p \in Preferences /\ p.pending = None
               /\ [language |-> p.language, theme |-> p.theme] = saved
  <1>1. /\ saved.language \in Looks!Languages /\ saved.theme \in Looks!Themes
        /\ now.locale \in Looks!Locales
    BY DEF Looks!Saved, Looks!System
  <1>2. /\ Looks!Locale(saved.language, now.locale) \in Looks!Locales
        /\ Looks!Dark(saved.theme, now.mode) \in BOOLEAN
    BY <1>1, Resolved
  <1> QED
    BY <1>1, <1>2 DEF Looks!Loaded, Preferences, Looks!Saved

(* What initial_ui_state reads is what the file says.                      *)
LEMMA LooksInit == ASSUME Looks!Init PROVE LooksInv
  <1>1. /\ os \in Looks!System /\ appearanceSystem = os /\ file \in Looks!Saved
        /\ file.language = "System" /\ file.theme = "System"
        /\ prefs = Looks!Loaded(file, appearanceSystem)
        /\ calls = <<>> /\ appearanceChan = <<>> /\ platform \in Looks!Modes
    BY DEF Looks!Init, Looks!Saved, Looks!Languages, Looks!Themes, Looks!Modes
  <1>2. prefs \in Preferences /\ prefs.pending = None /\ Looks!ShownIsSaved
    BY <1>1, LoadedIsSaved DEF Looks!ShownIsSaved
  <1>3. calls \in Seq(ModeCalls) /\ appearanceChan \in Seq(Looks!System)
    BY <1>1, EmptySeq
  <1>4. Looks!PendingHasCall
    BY <1>2 DEF Looks!PendingHasCall
  <1> QED
    BY <1>1, <1>2, <1>3, <1>4 DEF LooksInv
(* A choice of the user is shown at once and saved, or the page tells that *)
(* saving failed (set_theme, set_language).                                *)
LEMMA LooksEdits ==
    ASSUME LooksInv,
           \/ \E language \in Looks!Languages : Looks!SetLanguage(language)
           \/ \E theme \in Looks!Themes : Looks!SetTheme(theme)
           \/ Looks!RetryColorMode \/ Looks!SystemChanges \/ Looks!Restart
    PROVE  LooksInv'
  <1> USE DEF LooksInv
  <1>1. /\ prefs.language \in Looks!Languages /\ prefs.theme \in Looks!Themes
        /\ appearanceSystem.locale \in Looks!Locales
    BY DEF Preferences, Looks!System
  <1>2. ASSUME NEW language \in Looks!Languages, Looks!SetLanguage(language)
        PROVE  LooksInv'
    <2>1. PICK failed \in BOOLEAN :
            /\ Looks!Save(language, prefs.theme, failed)
            /\ prefs' = [prefs EXCEPT !.language = language,
                           !.locale = Looks!Locale(language, appearanceSystem.locale),
                           !.dark = Looks!Dark(prefs.theme, appearanceSystem.mode),
                           !.modeError = FALSE, !.saveError = failed]
      BY <1>2 DEF Looks!SetLanguage
    <2>2. /\ Looks!Locale(language, appearanceSystem.locale) \in Looks!Locales
          /\ Looks!Dark(prefs.theme, appearanceSystem.mode) \in BOOLEAN
      BY <1>1, Resolved
    <2>3. /\ prefs' \in Preferences /\ prefs'.pending = prefs.pending
          /\ prefs'.language = language /\ prefs'.theme = prefs.theme
          /\ prefs'.saveError = failed
      BY <2>1, <2>2 DEF Preferences
    <2>4. file' \in Looks!Saved
      BY <1>1, <2>1 DEF Looks!Save, Looks!Saved
    <2>5. Looks!ShownIsSaved'
      BY <2>1, <2>3 DEF Looks!Save, Looks!ShownIsSaved
    <2> QED
      BY <1>2, <2>3, <2>4, <2>5 DEF Looks!SetLanguage, Looks!PendingHasCall
  <1>3. ASSUME NEW theme \in Looks!Themes, Looks!SetTheme(theme)
        PROVE  LooksInv'
    <2>1. PICK failed \in BOOLEAN :
            /\ Looks!Save(prefs.language, theme, failed)
            /\ prefs' = [prefs EXCEPT !.theme = theme,
                           !.locale = Looks!Locale(prefs.language, appearanceSystem.locale),
                           !.dark = Looks!Dark(theme, appearanceSystem.mode),
                           !.modeError = FALSE, !.saveError = failed]
      BY <1>3 DEF Looks!SetTheme
    <2>2. /\ Looks!Locale(prefs.language, appearanceSystem.locale) \in Looks!Locales
          /\ Looks!Dark(theme, appearanceSystem.mode) \in BOOLEAN
      BY <1>1, Resolved
    <2>3. /\ prefs' \in Preferences /\ prefs'.pending = prefs.pending
          /\ prefs'.language = prefs.language /\ prefs'.theme = theme
          /\ prefs'.saveError = failed
      BY <2>1, <2>2 DEF Preferences
    <2>4. file' \in Looks!Saved
      BY <1>1, <2>1 DEF Looks!Save, Looks!Saved
    <2>5. Looks!ShownIsSaved'
      BY <2>1, <2>3 DEF Looks!Save, Looks!ShownIsSaved
    <2> QED
      BY <1>3, <2>3, <2>4, <2>5 DEF Looks!SetTheme, Looks!PendingHasCall
  <1>4. CASE Looks!RetryColorMode
    <2>1. /\ prefs' \in Preferences /\ prefs'.pending = prefs.pending
          /\ prefs'.language = prefs.language /\ prefs'.theme = prefs.theme
          /\ prefs'.saveError = prefs.saveError
      BY <1>4 DEF Looks!RetryColorMode, Preferences
    <2> QED
      BY <1>4, <2>1 DEF Looks!RetryColorMode, Looks!PendingHasCall, Looks!ShownIsSaved
  <1>5. CASE Looks!SystemChanges
    BY <1>5 DEF Looks!SystemChanges, Looks!PendingHasCall, Looks!ShownIsSaved
  <1>6. CASE Looks!Restart
    <2>1. prefs' = Looks!Loaded(file, os) /\ os \in Looks!System
      BY <1>6 DEF Looks!Restart
    <2>2. prefs' \in Preferences /\ prefs'.pending = None
      BY <2>1, LoadedIsSaved
    <2>3. [language |-> prefs'.language, theme |-> prefs'.theme] = file
      BY <2>1, LoadedIsSaved
    <2>4. calls' \in Seq(ModeCalls) /\ appearanceChan' \in Seq(Looks!System)
      BY <1>6, EmptySeq DEF Looks!Restart
    <2>5. Looks!ShownIsSaved'
      BY <1>6, <2>3 DEF Looks!Restart, Looks!ShownIsSaved
    <2> QED
      BY <1>6, <2>2, <2>4, <2>5 DEF Looks!Restart, Looks!PendingHasCall, Looks!Modes
  <1> QED
    BY <1>2, <1>3, <1>4, <1>5, <1>6

(* A call that sets the colour mode settles the mode that waits for it     *)
(* (pending_color_mode).                                                   *)
LEMMA LooksCalls ==
    ASSUME LooksInv,
           Looks!ColorModeEffect \/ Looks!PluginApplies \/ Looks!ColorModeCallback
    PROVE  LooksInv'
  <1> USE DEF LooksInv
  <1>1. /\ prefs.theme \in Looks!Themes /\ prefs.language \in Looks!Languages
        /\ Len(calls) \in Nat /\ DOMAIN calls = 1 .. Len(calls)
        /\ \A i \in DOMAIN calls : calls[i] \in ModeCalls
    BY LenProperties, ElementOfSeq DEF Preferences
  <1>2. CASE Looks!ColorModeEffect
    <2> DEFINE m == Looks!ModeOf(prefs.theme)
               c == [mode |-> m, state |-> "sent"]
    <2>1. m \in Looks!Modes
      BY <1>1, Resolved DEF Looks!Locales, Looks!Languages
    <2>2. c \in ModeCalls /\ c.mode = m
      BY <2>1 DEF ModeCalls
    <2>3. prefs' = [prefs EXCEPT !.pending = m] /\ calls' = Append(calls, c)
      BY <1>2 DEF Looks!ColorModeEffect
    <2> HIDE DEF m, c
    <2>4. /\ prefs' \in Preferences /\ prefs'.pending = m
          /\ prefs'.language = prefs.language /\ prefs'.theme = prefs.theme
          /\ prefs'.saveError = prefs.saveError
      BY <2>1, <2>3 DEF Preferences
    <2>5. calls' \in Seq(ModeCalls) /\ Len(calls) + 1 \in DOMAIN calls'
          /\ calls'[Len(calls) + 1] = c
      BY <1>1, <2>2, <2>3, AppendProperties, LenProperties
    <2>6. Looks!PendingHasCall'
      BY <2>2, <2>4, <2>5 DEF Looks!PendingHasCall
    <2> QED
      BY <1>2, <2>4, <2>5, <2>6 DEF Looks!ColorModeEffect, Looks!ShownIsSaved
  <1>3. CASE Looks!PluginApplies
    <2>1. PICK i \in DOMAIN calls :
            \/ /\ calls' = [calls EXCEPT ![i].state = "applied"]
               /\ platform' = calls[i].mode
            \/ /\ calls' = [calls EXCEPT ![i].state = "refused"]
               /\ UNCHANGED platform
      BY <1>3 DEF Looks!PluginApplies
    <2>2. PICK s \in {"applied", "refused"} :
            calls' = [calls EXCEPT ![i] = [calls[i] EXCEPT !.state = s]]
      BY <2>1
    <2>3. /\ [calls[i] EXCEPT !.state = s] \in ModeCalls
          /\ [calls[i] EXCEPT !.state = s].mode = calls[i].mode
          /\ calls[i].mode \in Looks!Modes
      BY <1>1 DEF ModeCalls
    <2> DEFINE e == [calls[i] EXCEPT !.state = s]
    <2> HIDE DEF e
    <2>4. calls' \in Seq(ModeCalls)
      BY <1>1, <2>2, <2>3, ExceptSeq DEF e
    <2>5. DOMAIN calls' = DOMAIN calls
          /\ \A j \in DOMAIN calls : calls'[j].mode = calls[j].mode
      BY <2>2, <2>3
    <2>6. platform' \in Looks!Modes
      BY <2>1, <2>3
    <2>7. Looks!PendingHasCall'
      BY <1>3, <2>5 DEF Looks!PluginApplies, Looks!PendingHasCall
    <2> QED
      BY <1>3, <2>4, <2>6, <2>7 DEF Looks!PluginApplies, Looks!ShownIsSaved
  <1>4. CASE Looks!ColorModeCallback
    <2>1. PICK i \in DOMAIN calls :
            /\ prefs' = Looks!CallbackPrefs(calls[i].mode, calls[i].state)
            /\ calls' = Looks!RemoveAt(calls, i)
      BY <1>4 DEF Looks!ColorModeCallback
    <2>2. /\ calls' \in Seq(ModeCalls)
          /\ \A j \in DOMAIN calls :
               j # i => \E k \in DOMAIN calls' : calls'[k] = calls[j]
      BY <2>1, OtherCallsStay
    <2>3. calls[i].mode \in Looks!Modes
      BY <1>1 DEF ModeCalls
    <2>4. /\ prefs' \in Preferences
          /\ prefs'.language = prefs.language /\ prefs'.theme = prefs.theme
          /\ prefs'.saveError = prefs.saveError
          /\ prefs'.pending \in {None, prefs.pending}
          /\ prefs'.pending = calls[i].mode => prefs'.pending = None
      BY <2>1, <2>3 DEF Looks!CallbackPrefs, Preferences
    <2>5. Looks!PendingHasCall'
      <3> SUFFICES ASSUME prefs'.pending # None
                   PROVE  \E k \in DOMAIN calls' : calls'[k].mode = prefs'.pending
        BY DEF Looks!PendingHasCall
      <3>1. PICK j \in DOMAIN calls : calls[j].mode = prefs'.pending
        BY <2>4 DEF Looks!PendingHasCall
      <3>2. j # i
        BY <2>4, <3>1
      <3> QED
        BY <2>2, <3>1, <3>2
    <2>6. Looks!ShownIsSaved'
      BY <1>4, <2>4 DEF Looks!ColorModeCallback, Looks!ShownIsSaved
    <2> QED
      BY <1>4, <2>2, <2>4, <2>5, <2>6 DEF Looks!ColorModeCallback
  <1> QED
    BY <1>2, <1>3, <1>4

(* A change of the system and a restart leave the preferences as the file  *)
(* has them (use_system_preferences_provider, load_from).                  *)
LEMMA LooksSystem ==
    ASSUME LooksInv,
           Looks!ConfigurationUpdate \/ Looks!SubscriptionSends \/ Looks!OnSystem
    PROVE  LooksInv'
  <1> USE DEF LooksInv
  <1>1. CASE Looks!ConfigurationUpdate
    <2>1. Looks!Configuration \in Looks!System
      BY DEF Looks!Configuration, Looks!System, Looks!Modes
    <2> QED
      BY <1>1, <2>1 DEF Looks!ConfigurationUpdate, Looks!PendingHasCall, Looks!ShownIsSaved
  <1>2. CASE Looks!SubscriptionSends
    <2>1. appearanceChan' \in Seq(Looks!System)
      BY <1>2, AppendProperties DEF Looks!SubscriptionSends
    <2> QED
      BY <1>2, <2>1 DEF Looks!SubscriptionSends, Looks!PendingHasCall, Looks!ShownIsSaved
  <1>3. CASE Looks!OnSystem
    <2>1. Head(appearanceChan) \in Looks!System /\ appearanceChan' \in Seq(Looks!System)
      BY <1>3, HeadTailProperties DEF Looks!OnSystem
    <2>2. /\ Head(appearanceChan).locale \in Looks!Locales
          /\ prefs.language \in Looks!Languages /\ prefs.theme \in Looks!Themes
      BY <2>1 DEF Looks!System, Preferences
    <2>3. /\ Looks!Locale(prefs.language, Head(appearanceChan).locale) \in Looks!Locales
          /\ Looks!Dark(prefs.theme, Head(appearanceChan).mode) \in BOOLEAN
      BY <2>2, Resolved
    <2>4. /\ prefs' \in Preferences /\ prefs'.pending = prefs.pending
          /\ prefs'.language = prefs.language /\ prefs'.theme = prefs.theme
          /\ prefs'.saveError = prefs.saveError
      BY <1>3, <2>3 DEF Looks!OnSystem, Preferences
    <2> QED
      BY <1>3, <2>1, <2>4 DEF Looks!OnSystem, Looks!PendingHasCall, Looks!ShownIsSaved
  <1> QED
    BY <1>1, <1>2, <1>3

(* A pending colour mode has a call that will settle it, and what the app  *)
(* shows is what it would load, unless the page says that saving failed    *)
(* (set_theme, set_language, pending_color_mode).                          *)
THEOREM AppearanceIsKept ==
    Looks!Spec => [](Looks!PendingHasCall /\ Looks!ShownIsSaved)
  <1>1. ASSUME Looks!Init PROVE LooksInv
    BY <1>1, LooksInit
  <1>2. ASSUME LooksInv, [Looks!Next]_(Looks!vars) PROVE LooksInv'
    <2>1. CASE UNCHANGED Looks!vars
      BY <1>2, <2>1 DEF Looks!vars, LooksInv, Looks!PendingHasCall, Looks!ShownIsSaved
    <2> QED
      BY <1>2, <2>1, LooksEdits, LooksCalls, LooksSystem
         DEF Looks!Next, Looks!User, Looks!Steps
  <1>3. LooksInv => Looks!PendingHasCall /\ Looks!ShownIsSaved
    BY DEF LooksInv
  <1> QED
    BY <1>1, <1>2, <1>3, PTL DEF Looks!Spec

-----------------------------------------------------------------------------
(* The imports.                                                            *)

CONSTANTS Other, Unknown, MaxImports, MaxOwnEdits, MaxCancels, MaxLeaves, MaxRoots,
          MaxOthers, Kinds

VARIABLES generation, sender, feedback, ruleLoading, importPage, importRoot, jobs, config,
          importShown, importVpn, early, importLeft

Imports == INSTANCE UiImports WITH
    Unconfirmed <- Unknown, MaxEdits <- MaxOwnEdits,
    page <- importPage, root <- importRoot, shown <- importShown, vpn <- importVpn,
    left <- importLeft

(* An import that has begun its commit, and one whose rules are being      *)
(* looked for.                                                             *)
Late == {"committing"} \cup Imports!Ended

Querying == {"preparing"} \cup Imports!Prepared

JobSet == [kind : {"profile", "rules"}, root : Nat, id : Nat, phase : Imports!Phases,
           cancelled : BOOLEAN, base : Nat, owner : BOOLEAN, rev : Nat]

(* The jobs and what the pages show of them.                               *)
ImportTypes ==
    /\ generation \in Nat /\ importPage \in Nat /\ importRoot \in Nat
    /\ config \in Nat /\ importShown \in Nat
    /\ feedback \in [loading : BOOLEAN, error : BOOLEAN, succeeded : BOOLEAN]
    /\ ruleLoading \in BOOLEAN
    /\ jobs \in Seq(JobSet)
    /\ importVpn \in DOMAIN jobs \cup {None, Other, Unknown}
    /\ early \subseteq DOMAIN jobs

OurProfile(j) == jobs[j].kind = "profile" /\ jobs[j].root = importRoot

(* A generation is never given twice under one root, and an import that    *)
(* was given up belongs to an earlier one.                                 *)
Generations ==
    /\ \A j \in DOMAIN jobs : jobs[j].root <= importRoot
    /\ \A j \in DOMAIN jobs : OurProfile(j) => jobs[j].id <= generation
    /\ \A i, j \in DOMAIN jobs :
         OurProfile(i) /\ OurProfile(j) /\ jobs[i].id = generation /\ jobs[j].id = generation
           => i = j
    /\ \A j \in early : /\ jobs[j].kind = "profile"
                        /\ jobs[j].root < importRoot \/ jobs[j].id < generation
                        /\ jobs[j].phase \notin Late

(* A VPN operation of an import belongs to the root that is mounted.       *)
Operation ==
    importVpn \in DOMAIN jobs =>
        jobs[importVpn].root = importRoot /\ jobs[importVpn].phase \in Late

(* The dialog loads only for an import of the current generation.          *)
Loading ==
    feedback.loading <=>
        \E j \in DOMAIN jobs : /\ OurProfile(j) /\ jobs[j].id = generation
                               /\ jobs[j].phase # "over"

(* The button of the page is taken only by an import of that page.         *)
RuleButton ==
    ruleLoading =>
        \E j \in DOMAIN jobs : /\ jobs[j].kind = "rules" /\ jobs[j].root = importRoot
                               /\ jobs[j].id = importPage /\ jobs[j].phase # "over"

(* A query for rules belongs to a page of the root that is mounted.        *)
Queries ==
    \A j \in DOMAIN jobs :
        jobs[j].kind = "rules" /\ jobs[j].phase \in Querying => jobs[j].root = importRoot

ImportInv ==
    ImportTypes /\ Generations /\ Operation /\ Loading /\ RuleButton /\ Queries

(* The job j is in phase p from here on, and no other job has moved.       *)
Moved(j, p) ==
    /\ jobs' \in Seq(JobSet) /\ DOMAIN jobs' = DOMAIN jobs
    /\ \A i \in DOMAIN jobs :
         /\ jobs'[i].kind = jobs[i].kind /\ jobs'[i].root = jobs[i].root
         /\ jobs'[i].id = jobs[i].id
         /\ jobs'[i].phase = IF i = j THEN p ELSE jobs[i].phase

(* The values that stand for no operation and no job are not numbers.       *)
Names == None \notin Nat /\ Other \notin Nat /\ Unknown \notin Nat

(* The jobs of the imports are a sequence of records.                      *)
LEMMA JobFacts ==
    ASSUME ImportTypes
    PROVE  /\ Len(jobs) \in Nat /\ DOMAIN jobs = 1 .. Len(jobs)
           /\ \A j \in DOMAIN jobs : jobs[j] \in JobSet
  BY LenProperties, ElementOfSeq DEF ImportTypes

(* Replacing one job by one of the same import moves only that job.        *)
LEMMA MovesOne ==
    ASSUME ImportTypes, NEW j \in DOMAIN jobs, NEW r \in JobSet,
           jobs' = [jobs EXCEPT ![j] = r],
           r.kind = jobs[j].kind, r.root = jobs[j].root, r.id = jobs[j].id
    PROVE  Moved(j, r.phase)
  <1>1. jobs' \in Seq(JobSet) /\ DOMAIN jobs' = DOMAIN jobs
    BY JobFacts, ExceptSeq DEF ImportTypes
  <1>2. \A i \in DOMAIN jobs : jobs'[i] = IF i = j THEN r ELSE jobs[i]
    OBVIOUS
  <1> QED
    BY <1>1, <1>2 DEF Moved

(* A new phase of one job moves only that job.                             *)
LEMMA MovesPhase ==
    ASSUME ImportTypes, NEW j \in DOMAIN jobs, NEW p \in Imports!Phases,
           jobs' = [jobs EXCEPT ![j].phase = p]
    PROVE  Moved(j, p)
  <1> DEFINE r == [jobs[j] EXCEPT !.phase = p]
  <1>1. /\ r \in JobSet /\ r.phase = p /\ r.kind = jobs[j].kind
        /\ r.root = jobs[j].root /\ r.id = jobs[j].id
    BY JobFacts DEF JobSet
  <1>2. jobs' = [jobs EXCEPT ![j] = r]
    OBVIOUS
  <1> HIDE DEF r
  <1> QED
    BY <1>1, <1>2, MovesOne

(* A root begins with no import.                                           *)
LEMMA ImportInit == ASSUME Names, Imports!Init PROVE ImportInv
  <1> USE DEF Imports!Init, Imports!Blank
  <1>1. ImportTypes
    BY EmptySeq DEF ImportTypes
  <1>2. DOMAIN jobs = {} /\ early = {} /\ feedback.loading = FALSE /\ ruleLoading = FALSE
    OBVIOUS
  <1> QED
    BY ONLY <1>1, <1>2 DEF ImportInv, Generations, Operation, Loading, RuleButton, Queries

(* A job that moves on, without getting past the beginning or the end of   *)
(* its commit.                                                             *)
LEMMA WorksOn ==
    ASSUME ImportInv, NEW j \in DOMAIN jobs, NEW p, Moved(j, p),
           jobs[j].phase # "over", p # "over", jobs[j].phase \in Late <=> p \in Late,
           jobs[j].kind = "rules" /\ p \in Querying => jobs[j].phase \in Querying,
           UNCHANGED <<generation, feedback, ruleLoading, importPage, importRoot,
                       importShown, importVpn, early>>,
           config' \in Nat
    PROVE  ImportInv'
  <1> USE DEF Moved, OurProfile
  <1>1. ImportTypes'
    BY DEF ImportInv, ImportTypes
  <1>2. Generations'
    <2>1. /\ \A i \in DOMAIN jobs' : jobs'[i].root <= importRoot'
          /\ \A i \in DOMAIN jobs' : OurProfile(i)' => jobs'[i].id <= generation'
      BY DEF ImportInv, Generations
    <2>2. ASSUME NEW i \in DOMAIN jobs', NEW k \in DOMAIN jobs', OurProfile(i)', OurProfile(k)',
                 jobs'[i].id = generation', jobs'[k].id = generation'
          PROVE  i = k
      BY <2>2 DEF ImportInv, Generations
    <2>3. ASSUME NEW i \in early'
          PROVE  /\ jobs'[i].kind = "profile"
                 /\ jobs'[i].root < importRoot' \/ jobs'[i].id < generation'
                 /\ jobs'[i].phase \notin Late
      <3>1. i \in DOMAIN jobs /\ i \in early
        BY DEF ImportInv, ImportTypes
      <3>2. /\ jobs[i].kind = "profile"
            /\ jobs[i].root < importRoot \/ jobs[i].id < generation
            /\ jobs[i].phase \notin Late
        BY <3>1 DEF ImportInv, Generations
      <3> QED
        BY <3>1, <3>2
    <2> QED
      BY <2>1, <2>2, <2>3 DEF Generations
  <1>3. Operation'
    BY DEF ImportInv, ImportTypes, Operation
  <1>4. Loading'
    BY DEF ImportInv, ImportTypes, Loading
  <1>5. RuleButton'
    BY DEF ImportInv, ImportTypes, RuleButton
  <1>6. Queries'
    BY DEF ImportInv, ImportTypes, Queries
  <1> QED
    BY <1>1, <1>2, <1>3, <1>4, <1>5, <1>6 DEF ImportInv

(* The worker of an import begins, prepares, gives up or commits           *)
(* (prepare_profile_url_import, import_rules).                             *)
LEMMA ImportsWork ==
    ASSUME ImportInv, NEW j \in DOMAIN jobs,
           \/ Imports!PrepareBegins(j) \/ Imports!Prepares(j) \/ Imports!PrepareGivesUp(j)
           \/ Imports!Commits(j)
    PROVE  ImportInv'
  <1>1. ImportTypes /\ jobs[j] \in JobSet
    BY JobFacts DEF ImportInv
  <1>2. CASE Imports!PrepareBegins(j)
    <2> DEFINE r == [jobs[j] EXCEPT !.phase = "preparing", !.base = config]
    <2>1. jobs' = [jobs EXCEPT ![j] = r] /\ jobs[j].phase = "spawned"
      BY <1>2 DEF Imports!PrepareBegins
    <2>2. /\ r \in JobSet /\ r.phase = "preparing" /\ r.kind = jobs[j].kind
          /\ r.root = jobs[j].root /\ r.id = jobs[j].id
      BY <1>1 DEF ImportTypes, JobSet, Imports!Phases
    <2> HIDE DEF r
    <2>3. Moved(j, "preparing")
      BY <1>1, <2>1, <2>2, MovesOne
    <2> QED
      BY <1>1, <1>2, <2>1, <2>3, WorksOn
         DEF Imports!PrepareBegins, ImportTypes, Late, Imports!Ended, Querying
  <1>3. CASE Imports!Prepares(j)
    <2>1. PICK p \in Imports!Prepared : jobs' = [jobs EXCEPT ![j].phase = p]
      BY <1>3 DEF Imports!Prepares
    <2>2. Moved(j, p)
      BY <1>1, <2>1, MovesPhase DEF Imports!Phases
    <2> QED
      BY <1>1, <1>3, <2>2, WorksOn
         DEF Imports!Prepares, ImportTypes, Late, Imports!Ended, Imports!Prepared, Querying
  <1>4. CASE Imports!PrepareGivesUp(j)
    <2>1. PICK p \in Imports!Prepared : jobs' = [jobs EXCEPT ![j].phase = p]
      BY <1>4 DEF Imports!PrepareGivesUp, Imports!Prepared
    <2>2. Moved(j, p)
      BY <1>1, <2>1, MovesPhase DEF Imports!Phases
    <2> QED
      BY <1>1, <1>4, <2>2, WorksOn
         DEF Imports!PrepareGivesUp, ImportTypes, Late, Imports!Ended, Imports!Prepared, Querying
  <1>5. CASE Imports!Commits(j)
    <2>1. PICK p \in Imports!Ended : Moved(j, p)
      <3>1. CASE jobs' = [jobs EXCEPT ![j].phase = "landed", ![j].rev = config + 1]
        <4> DEFINE r == [jobs[j] EXCEPT !.phase = "landed", !.rev = config + 1]
        <4>1. jobs' = [jobs EXCEPT ![j] = r]
          BY <3>1
        <4>2. config + 1 \in Nat /\ "landed" \in Imports!Phases
          BY <1>1 DEF ImportTypes, Imports!Phases, Imports!Ended
        <4>3. /\ r \in JobSet /\ r.phase = "landed" /\ r.kind = jobs[j].kind
              /\ r.root = jobs[j].root /\ r.id = jobs[j].id
          BY <1>1, <4>2 DEF JobSet
        <4> HIDE DEF r
        <4> QED
          BY <1>1, <4>1, <4>3, MovesOne DEF Imports!Ended
      <3>2. CASE jobs' = [jobs EXCEPT ![j].phase = "rejected"]
        BY <1>1, <3>2, MovesPhase DEF Imports!Phases, Imports!Ended
      <3> QED
        BY <1>5, <3>1, <3>2 DEF Imports!Commits
    <2>2. config' \in Nat
      BY <1>1, <1>5 DEF Imports!Commits, ImportTypes
    <2> QED
      BY <1>5, <2>1, <2>2, WorksOn
         DEF Imports!Commits, Late, Imports!Ended, Querying, Imports!Prepared
  <1> QED
    BY <1>2, <1>3, <1>4, <1>5

(* A job that is over, or whose commit begins.                             *)
LEMMA GenerationsMove ==
    ASSUME ImportInv, NEW j \in DOMAIN jobs, NEW p, Moved(j, p),
           UNCHANGED <<generation, importRoot, early>>,
           j \in early => p \notin Late
    PROVE  Generations'
  <1> USE DEF Moved, OurProfile
  <1>1. /\ \A i \in DOMAIN jobs' : jobs'[i].root <= importRoot'
        /\ \A i \in DOMAIN jobs' : OurProfile(i)' => jobs'[i].id <= generation'
    BY DEF ImportInv, Generations
  <1>2. ASSUME NEW i \in DOMAIN jobs', NEW k \in DOMAIN jobs', OurProfile(i)', OurProfile(k)',
               jobs'[i].id = generation', jobs'[k].id = generation'
        PROVE  i = k
    BY <1>2 DEF ImportInv, Generations
  <1>3. ASSUME NEW i \in early'
        PROVE  /\ jobs'[i].kind = "profile"
               /\ jobs'[i].root < importRoot' \/ jobs'[i].id < generation'
               /\ jobs'[i].phase \notin Late
    <2>1. i \in DOMAIN jobs /\ i \in early
      BY DEF ImportInv, ImportTypes
    <2>2. /\ jobs[i].kind = "profile"
          /\ jobs[i].root < importRoot \/ jobs[i].id < generation
          /\ jobs[i].phase \notin Late
      BY <2>1 DEF ImportInv, Generations
    <2> QED
      BY <2>1, <2>2
  <1> QED
    BY <1>1, <1>2, <1>3 DEF Generations

(* A job that leaves its query leaves the other queries alone              *)
(* (import_rules).                                                         *)
LEMMA QueriesMove ==
    ASSUME ImportInv, NEW j \in DOMAIN jobs, NEW p, Moved(j, p), importRoot' = importRoot,
           p \notin Querying
    PROVE  Queries'
  BY DEF ImportInv, Queries, Moved

(* A prepared import comes to the UI thread: it commits only if its        *)
(* generation is current (profile_import_generation).                      *)
LEMMA PreparedReturns ==
    ASSUME Names, ImportInv, NEW j \in DOMAIN jobs, Imports!PreparedOnUi(j)
    PROVE  ImportInv'
  <1> DEFINE current == OurProfile(j) /\ jobs[j].id = generation
             commits == current /\ jobs[j].phase = "ready"
             p == IF commits THEN "committing" ELSE "over"
  <1> USE DEF Imports!Alive, Imports!IsCurrent
  <1>1. ImportTypes /\ jobs[j] \in JobSet /\ DOMAIN jobs \subseteq Nat
    BY JobFacts DEF ImportInv
  <1>2. /\ jobs[j].kind = "profile" /\ jobs[j].phase \in Imports!Prepared
        /\ jobs' = [jobs EXCEPT ![j].phase = p]
        /\ importVpn' = IF commits THEN Imports!BeginOwned(j) ELSE importVpn
        /\ UNCHANGED <<generation, ruleLoading, importPage, importRoot, config, importShown,
                       early>>
    BY DEF Imports!PreparedOnUi, OurProfile
  <1>3. IF current /\ ~commits
        THEN feedback' \in [loading : BOOLEAN, error : BOOLEAN, succeeded : BOOLEAN]
             /\ feedback'.loading = FALSE
        ELSE feedback' = feedback
    <2>1. CASE current /\ ~commits
      <3>1. feedback' = IF jobs[j].phase = "failed"
                        THEN [Imports!Blank EXCEPT !.error = TRUE]
                        ELSE [feedback EXCEPT !.loading = FALSE]
        BY <2>1 DEF Imports!PreparedOnUi, OurProfile
      <3> QED
        BY <1>1, <2>1, <3>1 DEF Imports!Blank, ImportTypes
    <2>2. CASE ~(current /\ ~commits)
      BY <2>2 DEF Imports!PreparedOnUi, OurProfile
    <2> QED
      BY <2>1, <2>2
  <1>4. p \in Imports!Phases /\ jobs[j].phase \notin Late /\ jobs[j].phase # "over"
        /\ (p = "committing" \/ p = "over") /\ "over" \notin Late
        /\ p \notin Querying
    BY <1>2 DEF Imports!Phases, Imports!Prepared, Late, Imports!Ended, Querying
  <1>5. Moved(j, p)
    BY <1>1, <1>2, <1>4, MovesPhase
  <1>6. /\ commits => jobs[j].root = importRoot /\ jobs[j].id = generation /\ p = "committing"
        /\ ~commits => p = "over"
        /\ commits => current
        /\ current => jobs[j].root = importRoot /\ jobs[j].id = generation
        /\ jobs[j].root = importRoot /\ jobs[j].id = generation => current
    BY <1>2 DEF OurProfile
  <1> HIDE DEF p, commits, current
  <1>7. j \in early => p \notin Late
    <2>1. jobs[j].root \in Nat /\ jobs[j].id \in Nat /\ importRoot \in Nat /\ generation \in Nat
      BY <1>1 DEF JobSet, ImportTypes
    <2>2. j \in early => jobs[j].root < importRoot \/ jobs[j].id < generation
      BY DEF ImportInv, Generations
    <2>3. j \in early => ~commits
      BY <1>6, <2>1, <2>2
    <2> QED
      BY <1>4, <1>6, <2>3
  <1>8. Generations'
    BY <1>2, <1>5, <1>7, GenerationsMove
  <1>9. importVpn' \in {importVpn, j} /\ (importVpn' # importVpn => commits)
    BY <1>2 DEF Imports!BeginOwned
  <1>10. ImportTypes'
    BY <1>1, <1>2, <1>3, <1>5, <1>9 DEF ImportTypes, Moved
  <1>11. Operation'
    <2>1. importVpn # j
      BY <1>4 DEF ImportInv, Operation
    <2>2. CASE importVpn' = importVpn
      BY <1>2, <1>5, <2>1, <2>2 DEF ImportInv, Operation, Moved
    <2>3. CASE importVpn' = j /\ commits
      BY <1>2, <1>5, <1>6, <2>3 DEF Operation, Moved, Late
    <2> QED
      BY <1>9, <2>2, <2>3
  <1>12. Loading'
    <2>1. CASE commits
      BY <1>2, <1>3, <1>4, <1>5, <1>6, <2>1 DEF ImportInv, Loading, Moved, OurProfile
    <2>2. CASE ~commits /\ ~current
      BY <1>2, <1>3, <1>5, <1>6, <2>2 DEF ImportInv, Loading, Moved, OurProfile
    <2>3. CASE ~commits /\ current
      <3>1. feedback'.loading = FALSE
        BY <1>3, <2>3
      <3>2. ASSUME NEW i \in DOMAIN jobs', OurProfile(i)', jobs'[i].id = generation',
                   jobs'[i].phase # "over"
            PROVE  FALSE
        <4>1. i # j
          BY <1>5, <1>6, <2>3, <3>2 DEF Moved
        <4>2. i \in DOMAIN jobs /\ OurProfile(i) /\ jobs[i].id = generation
          BY <1>2, <1>5, <3>2 DEF Moved, OurProfile
        <4>3. OurProfile(j) /\ jobs[j].id = generation
          BY <1>2, <1>6, <2>3 DEF OurProfile
        <4> QED
          BY <4>1, <4>2, <4>3 DEF ImportInv, Generations
      <3> QED
        BY <3>1, <3>2 DEF Loading
    <2> QED
      BY <2>1, <2>2, <2>3
  <1>13. RuleButton'
    BY <1>2, <1>5 DEF ImportInv, RuleButton, Moved
  <1>14. Queries'
    BY <1>2, <1>4, <1>5, QueriesMove
  <1> QED
    BY <1>8, <1>10, <1>11, <1>12, <1>13, <1>14 DEF ImportInv

(* The revision shown after an import is a revision (finish_vpn_success).  *)
LEMMA ShownIsNat ==
    ASSUME ImportTypes, NEW j \in DOMAIN jobs, NEW applies
    PROVE  Imports!ShownAfter(j, applies) \in Nat
  BY JobFacts DEF ImportTypes, Imports!ShownAfter, Imports!Larger, JobSet

(* finish_vpn_followup leaves the operation as it is or takes it away from *)
(* this import (finish_vpn_followup).                                      *)
LEMMA FollowupEnds ==
    ASSUME Names, ImportTypes, NEW j \in DOMAIN jobs, NEW v \in Imports!FinishFollowup(j)
    PROVE  /\ v \in DOMAIN jobs \cup {None, Other, Unknown}
           /\ v \in DOMAIN jobs => v = importVpn /\ v # j
  <1>1. DOMAIN jobs \subseteq Nat
    BY JobFacts
  <1> QED
    BY <1>1 DEF ImportTypes, Imports!FinishFollowup, Names

(* A committed profile comes to the UI thread: the dialog, the page and    *)
(* the VPN operation it began are told (finish_vpn_followup).              *)
LEMMA CommittedReturns ==
    ASSUME Names, ImportInv, NEW j \in DOMAIN jobs, Imports!CommittedOnUi(j)
    PROVE  ImportInv'
  <1> DEFINE current == jobs[j].root = importRoot /\ jobs[j].id = generation
  <1> USE DEF Imports!Alive, Imports!IsCurrent
  <1>1. ImportTypes /\ jobs[j] \in JobSet /\ DOMAIN jobs \subseteq Nat
    BY JobFacts DEF ImportInv
  <1>2. /\ jobs[j].kind = "profile" /\ jobs[j].phase \in Imports!Ended
        /\ jobs' = [jobs EXCEPT ![j].phase = "over"]
        /\ UNCHANGED <<generation, ruleLoading, importPage, importRoot, config, early>>
    BY DEF Imports!CommittedOnUi
  <1>3. /\ current => /\ feedback' \in [loading : BOOLEAN, error : BOOLEAN, succeeded : BOOLEAN]
                      /\ feedback'.loading = FALSE
        /\ ~current => feedback' = feedback
    <2>1. CASE current
      <3>1. feedback' = [Imports!Blank EXCEPT !.succeeded = jobs[j].phase = "landed",
                                              !.error = jobs[j].phase = "rejected"]
        BY <2>1 DEF Imports!CommittedOnUi
      <3> QED
        BY <2>1, <3>1 DEF Imports!Blank
    <2>2. CASE ~current
      BY <2>2 DEF Imports!CommittedOnUi
    <2> QED
      BY <2>1, <2>2
  <1>4. /\ "over" \in Imports!Phases /\ "over" \notin Late /\ jobs[j].phase # "over"
        /\ "over" \notin Querying
    BY <1>2 DEF Imports!Phases, Late, Imports!Ended, Querying, Imports!Prepared
  <1>5. Moved(j, "over")
    BY <1>1, <1>2, <1>4, MovesPhase
  <1>6. importShown' \in Nat
    <2>1. importShown' = Imports!ShownAfter(j, jobs[j].root = importRoot /\ jobs[j].id = generation)
      BY DEF Imports!CommittedOnUi
    <2> QED
      BY <1>1, <2>1, ShownIsNat
  <1>7. /\ importVpn' \in DOMAIN jobs \cup {None, Other, Unknown}
        /\ importVpn' \in DOMAIN jobs => importVpn' = importVpn /\ importVpn' # j
    <2>1. CASE jobs[j].root = importRoot
      <3>1. importVpn' \in Imports!FinishFollowup(j)
        BY <2>1 DEF Imports!CommittedOnUi
      <3> QED
        BY <1>1, <3>1, FollowupEnds
    <2>2. CASE jobs[j].root # importRoot
      <3>1. importVpn' = importVpn
        BY <2>2 DEF Imports!CommittedOnUi
      <3> QED
        BY <1>1, <2>2, <3>1 DEF ImportInv, ImportTypes, Operation
    <2> QED
      BY <2>1, <2>2
  <1> HIDE DEF current
  <1>8. Generations'
    BY <1>2, <1>4, <1>5, GenerationsMove
  <1>9. ImportTypes'
    BY <1>1, <1>2, <1>3, <1>5, <1>6, <1>7 DEF ImportTypes, Moved
  <1>10. Operation'
    BY <1>2, <1>5, <1>7 DEF ImportInv, Operation, Moved
  <1>11. Loading'
    <2>1. CASE ~current
      BY <1>2, <1>3, <1>5, <2>1 DEF ImportInv, Loading, Moved, OurProfile, current
    <2>2. CASE current
      <3>1. feedback'.loading = FALSE
        BY <1>3, <2>2
      <3>2. ASSUME NEW i \in DOMAIN jobs', OurProfile(i)', jobs'[i].id = generation',
                   jobs'[i].phase # "over"
            PROVE  FALSE
        <4>1. i # j
          BY <1>5, <3>2 DEF Moved
        <4>2. i \in DOMAIN jobs /\ OurProfile(i) /\ jobs[i].id = generation
          BY <1>2, <1>5, <3>2 DEF Moved, OurProfile
        <4>3. OurProfile(j) /\ jobs[j].id = generation
          BY <1>2, <2>2 DEF OurProfile, current
        <4> QED
          BY <4>1, <4>2, <4>3 DEF ImportInv, Generations
      <3> QED
        BY <3>1, <3>2 DEF Loading
    <2> QED
      BY <2>1, <2>2
  <1>12. RuleButton'
    BY <1>2, <1>5 DEF ImportInv, RuleButton, Moved
  <1>13. Queries'
    BY <1>2, <1>4, <1>5, QueriesMove
  <1> QED
    BY <1>8, <1>9, <1>10, <1>11, <1>12, <1>13 DEF ImportInv

(* Imported rules come to the UI thread: the button of the page they were  *)
(* begun on is free again (rule_import_loading).                           *)
LEMMA RulesReturn ==
    ASSUME Names, ImportInv, NEW j \in DOMAIN jobs,
           Imports!RulesPicked(j) \/ Imports!RulesCommitted(j)
    PROVE  ImportInv'
  <1> USE DEF Imports!Alive
  <1>1. ImportTypes /\ jobs[j] \in JobSet /\ DOMAIN jobs \subseteq Nat
    BY JobFacts DEF ImportInv
  <1>2. jobs[j].kind = "rules" /\ UNCHANGED <<generation, feedback, importPage, importRoot, config,
                                             early>>
    BY DEF Imports!RulesPicked, Imports!RulesCommitted
  <1>3. j \notin early
    BY <1>2 DEF ImportInv, Generations
  <1>4. ASSUME NEW p, Moved(j, p) PROVE Generations' /\ Loading'
    <2>1. Generations'
      BY <1>2, <1>3, <1>4, GenerationsMove
    <2>2. Loading'
      BY <1>2, <1>4 DEF ImportInv, Loading, Moved, OurProfile
    <2> QED
      BY <2>1, <2>2
  <1>5. CASE Imports!RulesPicked(j)
    <2> DEFINE commits == jobs[j].phase = "ready" /\ jobs[j].base = importShown
               p == IF commits THEN "committing" ELSE "over"
    <2>1. /\ jobs[j].phase \in Imports!Prepared
          /\ jobs' = [jobs EXCEPT ![j].phase = p]
          /\ importVpn' = IF commits THEN Imports!BeginOwned(j) ELSE importVpn
          /\ importShown' = importShown
      BY <1>5 DEF Imports!RulesPicked
    <2>2. ruleLoading' \in BOOLEAN /\ (ruleLoading' => ruleLoading /\ commits)
      BY <1>1, <1>5 DEF Imports!RulesPicked, ImportTypes
    <2>3. p \in Imports!Phases /\ jobs[j].phase \notin Late /\ jobs[j].phase # "over"
          /\ (commits => p = "committing") /\ "committing" \in Late /\ "over" \notin Late
          /\ p \notin Querying /\ jobs[j].phase \in Querying
      BY <2>1 DEF Imports!Phases, Imports!Prepared, Late, Imports!Ended, Querying
    <2>4. Moved(j, p)
      BY <1>1, <2>1, <2>3, MovesPhase
    <2>5. importVpn' \in {importVpn, j} /\ (importVpn' # importVpn => commits)
      BY <2>1 DEF Imports!BeginOwned
    <2>6. commits => jobs[j].root = importRoot
      BY <1>2, <2>3 DEF ImportInv, Queries
    <2> HIDE DEF p, commits
    <2>7. ImportTypes'
      BY <1>1, <1>2, <2>1, <2>2, <2>4, <2>5 DEF ImportTypes, Moved
    <2>8. Operation'
      <3>1. importVpn # j
        BY <2>3 DEF ImportInv, Operation
      <3>2. CASE importVpn' = importVpn
        BY <1>2, <2>4, <3>1, <3>2 DEF ImportInv, Operation, Moved
      <3>3. CASE importVpn' = j /\ commits
        BY <1>2, <2>3, <2>4, <2>6, <3>3 DEF Operation, Moved
      <3> QED
        BY <2>5, <3>2, <3>3
    <2>9. RuleButton'
      <3> SUFFICES ASSUME ruleLoading'
                   PROVE  \E i \in DOMAIN jobs' :
                            /\ jobs'[i].kind = "rules" /\ jobs'[i].root = importRoot'
                            /\ jobs'[i].id = importPage' /\ jobs'[i].phase # "over"
        BY DEF RuleButton
      <3>1. ruleLoading /\ commits
        BY <2>2
      <3>2. p # "over"
        BY <2>3, <3>1
      <3>3. PICK i \in DOMAIN jobs :
              /\ jobs[i].kind = "rules" /\ jobs[i].root = importRoot
              /\ jobs[i].id = importPage /\ jobs[i].phase # "over"
        BY <3>1 DEF ImportInv, RuleButton
      <3> QED
        BY <1>2, <2>4, <3>2, <3>3 DEF Moved
    <2>10. Queries'
      BY <1>2, <2>3, <2>4, QueriesMove
    <2> QED
      BY <1>4, <2>4, <2>7, <2>8, <2>9, <2>10 DEF ImportInv
  <1>6. CASE Imports!RulesCommitted(j)
    <2>1. jobs[j].phase \in Imports!Ended /\ jobs' = [jobs EXCEPT ![j].phase = "over"]
      BY <1>6 DEF Imports!RulesCommitted
    <2>2. "over" \in Imports!Phases /\ "over" \notin Querying
      BY DEF Imports!Phases, Querying, Imports!Prepared
    <2>3. Moved(j, "over")
      BY <1>1, <2>1, <2>2, MovesPhase
    <2>4. CASE jobs[j].root = importRoot
      <3>1. /\ ruleLoading' = FALSE /\ importVpn' \in Imports!FinishFollowup(j)
            /\ importShown' = Imports!ShownAfter(j, TRUE)
        BY <1>6, <2>4 DEF Imports!RulesCommitted
      <3>2. /\ importVpn' \in DOMAIN jobs \cup {None, Other, Unknown}
            /\ importVpn' \in DOMAIN jobs => importVpn' = importVpn /\ importVpn' # j
        BY <1>1, <3>1, FollowupEnds
      <3>3. ImportTypes'
        BY <1>1, <1>2, <2>3, <3>1, <3>2, ShownIsNat DEF ImportTypes, Moved
      <3>4. Operation'
        BY <1>2, <2>3, <3>2 DEF ImportInv, Operation, Moved
      <3> QED
        BY <1>2, <1>4, <2>2, <2>3, <3>1, <3>3, <3>4, QueriesMove DEF ImportInv, RuleButton
    <2>5. CASE jobs[j].root # importRoot
      <3>1. UNCHANGED <<ruleLoading, importShown, importVpn>>
        BY <1>6, <2>5 DEF Imports!RulesCommitted
      <3>2. ImportTypes'
        BY <1>1, <1>2, <2>3, <3>1 DEF ImportTypes, Moved
      <3>3. Operation'
        BY <1>2, <2>3, <2>5, <3>1 DEF ImportInv, Operation, Moved
      <3>4. RuleButton'
        BY <1>2, <2>3, <2>5, <3>1 DEF ImportInv, RuleButton, Moved
      <3> QED
        BY <1>2, <1>4, <2>2, <2>3, <3>2, <3>3, <3>4, QueriesMove DEF ImportInv
    <2> QED
      BY <2>4, <2>5
  <1> QED
    BY <1>5, <1>6

(* Cancelling tells a preparation, and moves no job.                       *)
LEMMA CancelledFacts ==
    ASSUME ImportTypes
    PROVE  /\ Imports!Cancelled \in Seq(JobSet) /\ DOMAIN Imports!Cancelled = DOMAIN jobs
           /\ Len(Imports!Cancelled) = Len(jobs)
           /\ \A i \in DOMAIN jobs : /\ Imports!Cancelled[i].kind = jobs[i].kind
                                     /\ Imports!Cancelled[i].root = jobs[i].root
                                     /\ Imports!Cancelled[i].id = jobs[i].id
                                     /\ Imports!Cancelled[i].phase = jobs[i].phase
  <1>1. CASE sender \in DOMAIN jobs /\ sender # None
    <2> DEFINE r == [jobs[sender] EXCEPT !.cancelled = TRUE]
               c == [jobs EXCEPT ![sender] = r]
    <2>1. Imports!Cancelled = c
      BY <1>1 DEF Imports!Cancelled
    <2>2. /\ r \in JobSet /\ r.kind = jobs[sender].kind /\ r.root = jobs[sender].root
          /\ r.id = jobs[sender].id /\ r.phase = jobs[sender].phase
      BY <1>1, JobFacts DEF JobSet
    <2> HIDE DEF r
    <2>3. c \in Seq(JobSet) /\ DOMAIN c = DOMAIN jobs /\ Len(c) = Len(jobs)
      BY <1>1, <2>2, JobFacts, ExceptSeq DEF ImportTypes
    <2>4. \A i \in DOMAIN jobs : c[i] = IF i = sender THEN r ELSE jobs[i]
      OBVIOUS
    <2> HIDE DEF c
    <2> QED
      BY <2>1, <2>2, <2>3, <2>4
  <1>2. CASE ~(sender \in DOMAIN jobs /\ sender # None)
    <2>1. Imports!Cancelled = jobs
      <3>1. CASE sender = None
        BY <3>1 DEF Imports!Cancelled
      <3>2. CASE sender \notin DOMAIN jobs
        <4>1. jobs = [i \in DOMAIN jobs |-> jobs[i]]
          BY JobFacts DEF ImportTypes
        <4> QED
          BY <3>2, <4>1 DEF Imports!Cancelled
      <3> QED
        BY <1>2, <3>1, <3>2
    <2> QED
      BY <2>1 DEF ImportTypes
  <1> QED
    BY <1>1, <1>2

(* Leaving a page drops its queries for rules, and no other job            *)
(* (PageTasks).                                                            *)
LEMMA WithoutFacts ==
    ASSUME NEW c \in Seq(JobSet)
    PROVE  LET w == Imports!WithoutQueries(c)
           IN  /\ w \in Seq(JobSet) /\ DOMAIN w = DOMAIN c
               /\ \A i \in DOMAIN c :
                    /\ w[i].kind = c[i].kind /\ w[i].root = c[i].root /\ w[i].id = c[i].id
                    /\ w[i].phase = IF c[i].kind = "rules" /\ c[i].phase \in Querying
                                    THEN "over" ELSE c[i].phase
  <1> DEFINE w == Imports!WithoutQueries(c)
  <1>1. Len(c) \in Nat /\ DOMAIN c = 1 .. Len(c) /\ \A i \in DOMAIN c : c[i] \in JobSet
    BY LenProperties, ElementOfSeq
  <1>2. w = [i \in DOMAIN c |-> IF c[i].kind = "rules" /\ c[i].phase \in Querying
                                THEN [c[i] EXCEPT !.phase = "over"] ELSE c[i]]
    BY DEF Imports!WithoutQueries, Querying
  <1> HIDE DEF w
  <1>3. ASSUME NEW i \in DOMAIN c
        PROVE  /\ w[i] \in JobSet
               /\ w[i].kind = c[i].kind /\ w[i].root = c[i].root /\ w[i].id = c[i].id
               /\ w[i].phase = IF c[i].kind = "rules" /\ c[i].phase \in Querying
                               THEN "over" ELSE c[i].phase
    <2>1. CASE c[i].kind = "rules" /\ c[i].phase \in Querying
      <3> DEFINE r == [c[i] EXCEPT !.phase = "over"]
      <3>1. w[i] = r
        BY <1>2, <2>1
      <3>2. /\ r \in JobSet /\ r.kind = c[i].kind /\ r.root = c[i].root /\ r.id = c[i].id
            /\ r.phase = "over"
        BY <1>1 DEF JobSet, Imports!Phases
      <3> QED
        BY ONLY <2>1, <3>1, <3>2
    <2>2. CASE ~(c[i].kind = "rules" /\ c[i].phase \in Querying)
      <3>1. w[i] = c[i]
        BY <1>2, <2>2
      <3> QED
        BY <1>1, <2>2, <3>1
    <2> QED
      BY <2>1, <2>2
  <1>4. w \in Seq(JobSet)
    <2>1. w = [i \in 1 .. Len(c) |-> w[i]]
      BY <1>1, <1>2
    <2>2. \A i \in 1 .. Len(c) : w[i] \in JobSet
      BY <1>1, <1>3
    <2>3. [i \in 1 .. Len(c) |-> w[i]] \in Seq(JobSet)
      BY ONLY <1>1, <2>2, IsASeq
    <2> QED
      BY <2>1, <2>3
  <1>5. DOMAIN w = DOMAIN c
    BY <1>2
  <1> QED
    BY <1>3, <1>4, <1>5 DEF w

(* The import that is given up is of the current generation, and its       *)
(* commit has not begun.                                                   *)
LEMMA AbandonedFacts ==
    \A j \in Imports!Abandoned :
        /\ j \in DOMAIN jobs /\ jobs[j].kind = "profile" /\ jobs[j].root = importRoot
        /\ jobs[j].id = generation /\ jobs[j].phase \notin Late
  BY DEF Imports!Abandoned, Imports!Jobs, Imports!Alive, Imports!IsCurrent,
         Imports!InPreparation, Imports!Prepared, Late, Imports!Ended

(* A job that is appended comes after the others.                          *)
LEMMA JobAppended ==
    ASSUME NEW c \in Seq(JobSet), NEW n \in JobSet
    PROVE  LET a == Append(c, n)
           IN  /\ a \in Seq(JobSet) /\ DOMAIN a = DOMAIN c \cup {Len(c) + 1}
               /\ Len(c) + 1 \notin DOMAIN c /\ Len(c) + 1 \in Nat
               /\ \A i \in DOMAIN c : a[i] = c[i]
               /\ a[Len(c) + 1] = n
  <1>1. Len(c) \in Nat /\ DOMAIN c = 1 .. Len(c)
    BY LenProperties
  <1>2. /\ Append(c, n) \in Seq(JobSet) /\ Len(Append(c, n)) = Len(c) + 1
        /\ \A i \in 1 .. Len(c) : Append(c, n)[i] = c[i]
        /\ Append(c, n)[Len(c) + 1] = n
    BY AppendProperties
  <1>3. DOMAIN Append(c, n) = 1 .. Len(c) + 1
    BY <1>2, LenProperties
  <1> QED
    BY <1>1, <1>2, <1>3

(* A new profile import takes the next generation and gives up the one     *)
(* before it (profile_import_generation).                                  *)
LEMMA ProfileStarts ==
    ASSUME Names, ImportInv, Imports!StartProfileImport
    PROVE  ImportInv'
  <1> DEFINE n == [kind |-> "profile", root |-> importRoot, id |-> generation + 2,
                   phase |-> "spawned", cancelled |-> FALSE, base |-> 0,
                   owner |-> TRUE, rev |-> 0]
             c == Imports!Cancelled
  <1>1. ImportTypes /\ DOMAIN jobs \subseteq Nat /\ \A i \in DOMAIN jobs : jobs[i] \in JobSet
    BY JobFacts DEF ImportInv
  <1>2. /\ generation' = generation + 2 /\ jobs' = Append(c, n)
        /\ feedback' = [Imports!Blank EXCEPT !.loading = TRUE]
        /\ early' = early \cup Imports!Abandoned
        /\ UNCHANGED <<ruleLoading, importPage, importRoot, config, importShown, importVpn>>
    BY DEF Imports!StartProfileImport
  <1>3. /\ n \in JobSet /\ n.kind = "profile" /\ n.root = importRoot /\ n.id = generation + 2
        /\ n.phase = "spawned"
    BY <1>1 DEF ImportTypes, JobSet, Imports!Phases
  <1>4. /\ c \in Seq(JobSet) /\ DOMAIN c = DOMAIN jobs /\ Len(c) = Len(jobs)
        /\ \A i \in DOMAIN jobs : /\ c[i].kind = jobs[i].kind /\ c[i].root = jobs[i].root
                                  /\ c[i].id = jobs[i].id /\ c[i].phase = jobs[i].phase
    BY <1>1, CancelledFacts
  <1> HIDE DEF n, c
  <1>5. PICK k \in Nat :
           /\ jobs' \in Seq(JobSet) /\ DOMAIN jobs' = DOMAIN jobs \cup {k}
           /\ k \notin DOMAIN jobs /\ jobs'[k] = n
           /\ \A i \in DOMAIN jobs : jobs'[i] = c[i]
    BY <1>2, <1>3, <1>4, JobAppended
  <1>6. \A i \in DOMAIN jobs : /\ jobs'[i].kind = jobs[i].kind /\ jobs'[i].root = jobs[i].root
                               /\ jobs'[i].id = jobs[i].id /\ jobs'[i].phase = jobs[i].phase
    BY <1>4, <1>5
  <1>7. /\ generation \in Nat /\ generation' = generation + 2 /\ generation' \in Nat
        /\ importRoot \in Nat
        /\ \A i \in DOMAIN jobs : jobs[i].id \in Nat /\ jobs[i].root \in Nat
    <2>1. generation \in Nat /\ importRoot \in Nat
      BY <1>1 DEF ImportTypes
    <2>2. ASSUME NEW i \in DOMAIN jobs PROVE jobs[i].id \in Nat /\ jobs[i].root \in Nat
      BY <1>1 DEF JobSet
    <2> QED
      BY <1>2, <2>1, <2>2
  <1>8. ImportTypes'
    <2>1. /\ feedback' \in [loading : BOOLEAN, error : BOOLEAN, succeeded : BOOLEAN]
          /\ early' \subseteq DOMAIN jobs'
      BY <1>1, <1>2, <1>5, AbandonedFacts DEF Imports!Blank, ImportTypes
    <2> QED
      BY <1>1, <1>2, <1>5, <1>7, <2>1 DEF ImportTypes
  <1>9. Generations'
    <2>1. ASSUME NEW i \in DOMAIN jobs' PROVE jobs'[i].root <= importRoot'
      <3>1. CASE i = k
        BY <1>2, <1>3, <1>5, <1>7, <3>1
      <3>2. CASE i \in DOMAIN jobs
        BY <1>2, <1>6, <3>2 DEF ImportInv, Generations
      <3> QED
        BY <1>5, <3>1, <3>2
    <2>2. ASSUME NEW i \in DOMAIN jobs, OurProfile(i)' PROVE jobs'[i].id < generation'
      <3>1. jobs[i].id <= generation
        BY <1>2, <1>6, <2>2 DEF ImportInv, Generations, OurProfile
      <3> QED
        BY <1>6, <1>7, <3>1
    <2>3. ASSUME NEW i \in DOMAIN jobs', OurProfile(i)' PROVE jobs'[i].id <= generation'
      <3>1. CASE i = k
        BY <1>3, <1>5, <1>7, <3>1
      <3>2. CASE i \in DOMAIN jobs
        <4>1. jobs'[i].id < generation' /\ jobs'[i].id \in Nat
          BY <1>6, <1>7, <2>2, <2>3, <3>2
        <4> QED
          BY <1>7, <4>1
      <3> QED
        BY <1>5, <3>1, <3>2
    <2>4. \A i \in DOMAIN jobs' : OurProfile(i)' /\ jobs'[i].id = generation' => i = k
      BY <1>5, <1>6, <1>7, <2>2
    <2>5. ASSUME NEW i \in early'
          PROVE  /\ jobs'[i].kind = "profile"
                 /\ jobs'[i].root < importRoot' \/ jobs'[i].id < generation'
                 /\ jobs'[i].phase \notin Late
      <3>1. i \in DOMAIN jobs
        BY <1>1, <1>2, AbandonedFacts DEF ImportTypes
      <3>2. CASE i \in early
        <4>1. /\ jobs[i].kind = "profile" /\ jobs[i].phase \notin Late
              /\ jobs[i].root < importRoot \/ jobs[i].id < generation
          BY <3>2 DEF ImportInv, Generations
        <4>2. jobs[i].id < generation => jobs[i].id < generation'
          BY <1>7, <3>1
        <4> QED
          BY <1>2, <1>6, <3>1, <4>1, <4>2
      <3>3. CASE i \in Imports!Abandoned
        <4>1. jobs[i].kind = "profile" /\ jobs[i].phase \notin Late /\ jobs[i].id = generation
          BY <3>3, AbandonedFacts
        <4>2. generation < generation'
          BY <1>7
        <4> QED
          BY <1>6, <3>1, <4>1, <4>2
      <3> QED
        BY <1>2, <3>2, <3>3
    <2> QED
      BY <2>1, <2>3, <2>4, <2>5 DEF Generations
  <1>10. Operation'
    BY <1>1, <1>2, <1>5, <1>6 DEF ImportInv, Operation, ImportTypes, Names
  <1>11. Loading'
    <2>1. feedback'.loading
      BY <1>2 DEF Imports!Blank
    <2>2. OurProfile(k)' /\ jobs'[k].id = generation' /\ jobs'[k].phase # "over"
      BY <1>2, <1>3, <1>5 DEF OurProfile
    <2> QED
      BY <1>5, <2>1, <2>2 DEF Loading
  <1>12. RuleButton'
    BY <1>2, <1>5, <1>6 DEF ImportInv, RuleButton
  <1>13. Queries'
    BY <1>2, <1>3, <1>5, <1>6 DEF ImportInv, Queries
  <1> QED
    BY <1>8, <1>9, <1>10, <1>11, <1>12, <1>13 DEF ImportInv

(* A new import of rules takes the button of the page                      *)
(* (rule_import_loading).                                                  *)
LEMMA RulesStart ==
    ASSUME Names, ImportInv, Imports!ImportRules
    PROVE  ImportInv'
  <1> DEFINE n == [kind |-> "rules", root |-> importRoot, id |-> importPage,
                   phase |-> "preparing", cancelled |-> FALSE, base |-> importShown,
                   owner |-> TRUE, rev |-> 0]
  <1>1. ImportTypes /\ DOMAIN jobs \subseteq Nat /\ jobs \in Seq(JobSet)
    BY JobFacts DEF ImportInv, ImportTypes
  <1>2. /\ jobs' = Append(jobs, n) /\ ruleLoading' = TRUE
        /\ UNCHANGED <<generation, feedback, importPage, importRoot, config, importShown,
                       importVpn, early>>
    BY DEF Imports!ImportRules
  <1>3. /\ n \in JobSet /\ n.kind = "rules" /\ n.root = importRoot /\ n.id = importPage
        /\ n.phase = "preparing"
    BY <1>1 DEF ImportTypes, JobSet, Imports!Phases
  <1> HIDE DEF n
  <1>4. PICK k \in Nat :
           /\ jobs' \in Seq(JobSet) /\ DOMAIN jobs' = DOMAIN jobs \cup {k}
           /\ k \notin DOMAIN jobs /\ jobs'[k] = n
           /\ \A i \in DOMAIN jobs : jobs'[i] = jobs[i]
    BY <1>1, <1>2, <1>3, JobAppended
  <1>5. ImportTypes'
    BY <1>1, <1>2, <1>4 DEF ImportTypes
  <1>6. Generations'
    <2>1. importRoot \in Nat
      BY <1>1 DEF ImportTypes
    <2>2. \A i \in DOMAIN jobs' : jobs'[i].root <= importRoot'
      BY <1>2, <1>3, <1>4, <2>1 DEF ImportInv, Generations
    <2>3. \A i \in DOMAIN jobs' : OurProfile(i)' => i \in DOMAIN jobs /\ OurProfile(i)
      BY <1>2, <1>3, <1>4 DEF OurProfile
    <2>4. \A i \in early' : i \in DOMAIN jobs /\ jobs'[i] = jobs[i]
      BY <1>1, <1>2, <1>4 DEF ImportTypes
    <2> QED
      BY <1>2, <1>4, <2>2, <2>3, <2>4 DEF ImportInv, Generations
  <1>7. Operation'
    BY <1>1, <1>2, <1>4 DEF ImportInv, Operation, ImportTypes, Names
  <1>8. Loading'
    BY <1>2, <1>3, <1>4 DEF ImportInv, Loading, OurProfile
  <1>9. RuleButton'
    BY <1>2, <1>3, <1>4 DEF RuleButton
  <1>10. Queries'
    BY <1>2, <1>3, <1>4 DEF ImportInv, Queries
  <1> QED
    BY <1>5, <1>6, <1>7, <1>8, <1>9, <1>10 DEF ImportInv

(* A cancelled import belongs to an earlier generation, and its            *)
(* preparation is told (profile_import_cancel).                            *)
LEMMA ProfileCancelled ==
    ASSUME Names, ImportInv, Imports!CancelProfileImport
    PROVE  ImportInv'
  <1>1. ImportTypes /\ DOMAIN jobs \subseteq Nat /\ \A i \in DOMAIN jobs : jobs[i] \in JobSet
    BY JobFacts DEF ImportInv
  <1>2. /\ generation' = generation + 1 /\ jobs' = Imports!Cancelled
        /\ feedback' = Imports!Blank
        /\ early' = early \cup Imports!Abandoned
        /\ UNCHANGED <<ruleLoading, importPage, importRoot, config, importShown, importVpn>>
    BY DEF Imports!CancelProfileImport
  <1>3. jobs' \in Seq(JobSet) /\ DOMAIN jobs' = DOMAIN jobs
    BY <1>1, <1>2, CancelledFacts
  <1>4. \A i \in DOMAIN jobs : /\ jobs'[i].kind = jobs[i].kind /\ jobs'[i].root = jobs[i].root
                               /\ jobs'[i].id = jobs[i].id /\ jobs'[i].phase = jobs[i].phase
    BY <1>1, <1>2, CancelledFacts
  <1>5. /\ generation \in Nat /\ generation' = generation + 1 /\ generation' \in Nat
        /\ importRoot \in Nat
        /\ \A i \in DOMAIN jobs : jobs[i].id \in Nat /\ jobs[i].root \in Nat
    <2>1. generation \in Nat /\ importRoot \in Nat
      BY <1>1 DEF ImportTypes
    <2>2. ASSUME NEW i \in DOMAIN jobs PROVE jobs[i].id \in Nat /\ jobs[i].root \in Nat
      BY <1>1 DEF JobSet
    <2> QED
      BY <1>2, <2>1, <2>2
  <1>6. ImportTypes'
    <2>1. /\ feedback' \in [loading : BOOLEAN, error : BOOLEAN, succeeded : BOOLEAN]
          /\ early' \subseteq DOMAIN jobs'
      BY <1>1, <1>2, <1>3, AbandonedFacts DEF Imports!Blank, ImportTypes
    <2> QED
      BY <1>1, <1>2, <1>3, <1>5, <2>1 DEF ImportTypes
  <1>7. \A i \in DOMAIN jobs : OurProfile(i)' => jobs'[i].id < generation'
    <2>1. ASSUME NEW i \in DOMAIN jobs, OurProfile(i)' PROVE jobs'[i].id < generation'
      <3>1. jobs[i].id <= generation
        BY <1>2, <1>4, <2>1 DEF ImportInv, Generations, OurProfile
      <3> QED
        BY <1>2, <1>4, <1>5, <3>1
    <2> QED
      BY <2>1
  <1>8. \A i \in DOMAIN jobs : OurProfile(i)' => jobs'[i].id # generation'
    BY <1>4, <1>5, <1>7
  <1>9. Generations'
    <2>1. \A i \in DOMAIN jobs' : jobs'[i].root <= importRoot'
      BY <1>2, <1>3, <1>4 DEF ImportInv, Generations
    <2>2. \A i \in DOMAIN jobs' : OurProfile(i)' => jobs'[i].id <= generation'
      BY <1>3, <1>4, <1>5, <1>7
    <2>3. ASSUME NEW i \in early'
          PROVE  /\ jobs'[i].kind = "profile"
                 /\ jobs'[i].root < importRoot' \/ jobs'[i].id < generation'
                 /\ jobs'[i].phase \notin Late
      <3>1. i \in DOMAIN jobs
        BY <1>1, <1>2, AbandonedFacts DEF ImportTypes
      <3>2. CASE i \in early
        <4>1. /\ jobs[i].kind = "profile" /\ jobs[i].phase \notin Late
              /\ jobs[i].root < importRoot \/ jobs[i].id < generation
          BY <3>2 DEF ImportInv, Generations
        <4> QED
          BY <1>2, <1>4, <1>5, <3>1, <4>1
      <3>3. CASE i \in Imports!Abandoned
        <4>1. jobs[i].kind = "profile" /\ jobs[i].phase \notin Late /\ jobs[i].id = generation
          BY <3>3, AbandonedFacts
        <4> QED
          BY <1>2, <1>4, <1>5, <3>1, <4>1
      <3> QED
        BY <1>2, <3>2, <3>3
    <2> QED
      BY <1>3, <1>8, <2>1, <2>2, <2>3 DEF Generations
  <1>10. Operation'
    BY <1>2, <1>3, <1>4 DEF ImportInv, Operation
  <1>11. Loading'
    <2>1. feedback'.loading = FALSE
      BY <1>2 DEF Imports!Blank
    <2> QED
      BY <1>3, <1>8, <2>1 DEF Loading
  <1>12. RuleButton'
    BY <1>2, <1>3, <1>4 DEF ImportInv, RuleButton
  <1>13. Queries'
    BY <1>2, <1>3, <1>4 DEF ImportInv, Queries
  <1> QED
    BY <1>6, <1>9, <1>10, <1>11, <1>12, <1>13 DEF ImportInv

(* A page that is left forgets its queries for rules, and its button with  *)
(* it.                                                                     *)
LEMMA PageLeft ==
    ASSUME Names, ImportInv, Imports!LeavePage
    PROVE  ImportInv'
  <1>1. ImportTypes
    BY DEF ImportInv
  <1>2. /\ importPage' = importPage + 1 /\ jobs' = Imports!WithoutQueries(jobs)
        /\ ruleLoading' = FALSE
        /\ UNCHANGED <<generation, feedback, importRoot, config, importShown, importVpn, early>>
    BY DEF Imports!LeavePage
  <1>3. /\ jobs' \in Seq(JobSet) /\ DOMAIN jobs' = DOMAIN jobs
        /\ \A i \in DOMAIN jobs :
             /\ jobs'[i].kind = jobs[i].kind /\ jobs'[i].root = jobs[i].root
             /\ jobs'[i].id = jobs[i].id
             /\ jobs'[i].phase = IF jobs[i].kind = "rules" /\ jobs[i].phase \in Querying
                                 THEN "over" ELSE jobs[i].phase
    BY <1>1, <1>2, WithoutFacts DEF ImportTypes
  <1>4. \A p \in Late : p \notin Querying /\ p # "over"
    BY DEF Late, Querying, Imports!Ended, Imports!Prepared
  <1>5. ImportTypes'
    <2>1. importPage' \in Nat
      BY <1>1, <1>2 DEF ImportTypes
    <2>2. ruleLoading' \in BOOLEAN
      BY ONLY <1>2
    <2>3. jobs' \in Seq(JobSet) /\ DOMAIN jobs' = DOMAIN jobs
      BY <1>3
    <2> QED
      BY <1>1, <1>2, <2>1, <2>2, <2>3 DEF ImportTypes
  <1>6. Generations'
    <2>1. /\ \A i \in DOMAIN jobs' : jobs'[i].root <= importRoot'
          /\ \A i \in DOMAIN jobs' : OurProfile(i)' => OurProfile(i)
      BY <1>2, <1>3 DEF ImportInv, Generations, OurProfile
    <2>2. \A i \in early' : i \in DOMAIN jobs /\ jobs[i].kind = "profile"
      BY <1>1, <1>2 DEF ImportInv, ImportTypes, Generations
    <2>3. \A i \in early' : jobs'[i].phase = jobs[i].phase /\ jobs'[i].id = jobs[i].id
                            /\ jobs'[i].root = jobs[i].root /\ jobs'[i].kind = "profile"
      BY <1>3, <2>2
    <2> QED
      BY <1>2, <1>3, <2>1, <2>3 DEF ImportInv, Generations
  <1>7. Operation'
    BY <1>2, <1>3, <1>4 DEF ImportInv, Operation
  <1>8. Loading'
    BY <1>2, <1>3 DEF ImportInv, Loading, OurProfile
  <1>9. RuleButton'
    BY <1>2 DEF RuleButton
  <1>10. Queries'
    BY <1>2, <1>3 DEF ImportInv, Queries
  <1> QED
    BY <1>5, <1>6, <1>7, <1>8, <1>9, <1>10 DEF ImportInv

(* A root that replaces another knows nothing of the imports begun under   *)
(* that one (profile_import_generation).                                   *)
LEMMA RootReplaced ==
    ASSUME Names, ImportInv, Imports!ReplaceRoot
    PROVE  ImportInv'
  <1>1. ImportTypes /\ DOMAIN jobs \subseteq Nat /\ \A i \in DOMAIN jobs : jobs[i] \in JobSet
    BY JobFacts DEF ImportInv
  <1>2. /\ importRoot' = importRoot + 1 /\ importPage' = importPage + 1
        /\ jobs' = Imports!WithoutQueries(Imports!Cancelled)
        /\ generation' = 0 /\ feedback' = Imports!Blank
        /\ ruleLoading' = FALSE /\ importVpn' = None /\ importShown' = config
        /\ early' = early \cup Imports!Abandoned
        /\ config' = config
    BY DEF Imports!ReplaceRoot
  <1>3. /\ jobs' \in Seq(JobSet) /\ DOMAIN jobs' = DOMAIN jobs
        /\ \A i \in DOMAIN jobs :
             /\ jobs'[i].kind = jobs[i].kind /\ jobs'[i].root = jobs[i].root
             /\ jobs'[i].id = jobs[i].id
             /\ jobs'[i].phase = IF jobs[i].kind = "rules" /\ jobs[i].phase \in Querying
                                 THEN "over" ELSE jobs[i].phase
    BY <1>1, <1>2, CancelledFacts, WithoutFacts
  <1>4. /\ importRoot \in Nat /\ importRoot' \in Nat /\ importPage' \in Nat
        /\ importRoot' = importRoot + 1
        /\ \A i \in DOMAIN jobs : jobs[i].root <= importRoot
    BY <1>1, <1>2 DEF ImportInv, ImportTypes, Generations
  <1>5. \A i \in DOMAIN jobs : jobs[i].root \in Nat
    BY <1>1 DEF JobSet
  <1>6. \A i \in DOMAIN jobs : jobs'[i].root < importRoot' /\ jobs'[i].root # importRoot'
    BY <1>3, <1>4, <1>5
  <1>7. ImportTypes'
    <2>1. /\ feedback' \in [loading : BOOLEAN, error : BOOLEAN, succeeded : BOOLEAN]
          /\ early' \subseteq DOMAIN jobs'
      BY <1>1, <1>2, <1>3, AbandonedFacts DEF Imports!Blank, ImportTypes
    <2> QED
      BY <1>1, <1>2, <1>3, <1>4, <2>1 DEF ImportTypes
  <1>8. \A i \in DOMAIN jobs' : ~OurProfile(i)'
    BY <1>3, <1>6 DEF OurProfile
  <1>9. Generations'
    <2>1. \A i \in DOMAIN jobs' : jobs'[i].root <= importRoot'
      BY <1>3, <1>4, <1>5
    <2>2. \A i \in early' : i \in DOMAIN jobs /\ jobs[i].kind = "profile"
                            /\ jobs[i].phase \notin Late
      BY <1>1, <1>2, AbandonedFacts DEF ImportInv, ImportTypes, Generations
    <2>3. \A i \in early' : jobs'[i].kind = "profile" /\ jobs'[i].root < importRoot'
                            /\ jobs'[i].phase \notin Late
      BY <1>3, <1>6, <2>2
    <2> QED
      BY <1>8, <2>1, <2>3 DEF Generations
  <1>10. Operation'
    <2>1. importVpn' \notin DOMAIN jobs'
      BY <1>1, <1>2, <1>3 DEF Names
    <2> QED
      BY <2>1 DEF Operation
  <1>11. Loading'
    <2>1. feedback'.loading = FALSE
      BY <1>2 DEF Imports!Blank
    <2> QED
      BY <1>8, <2>1 DEF Loading
  <1>12. RuleButton'
    BY <1>2 DEF RuleButton
  <1>13. Queries'
    <2>1. ASSUME NEW i \in DOMAIN jobs PROVE ~(jobs'[i].kind = "rules" /\ jobs'[i].phase \in Querying)
      BY <1>3 DEF Querying, Imports!Prepared
    <2> QED
      BY <1>3, <2>1 DEF Queries
  <1> QED
    BY <1>7, <1>9, <1>10, <1>11, <1>12, <1>13 DEF ImportInv

(* The jobs stay as they are.                                              *)
LEMMA JobsStay ==
    ASSUME ImportInv, UNCHANGED <<generation, ruleLoading, importPage, importRoot, jobs, early>>,
           config' \in Nat, importShown' \in Nat,
           importVpn' \in {importVpn, None, Other, Unknown}, Names,
           feedback' \in [loading : BOOLEAN, error : BOOLEAN, succeeded : BOOLEAN],
           feedback'.loading = feedback.loading
    PROVE  ImportInv'
  <1>1. ImportTypes /\ DOMAIN jobs \subseteq Nat
    BY JobFacts DEF ImportInv
  <1>2. ImportTypes'
    BY <1>1 DEF ImportTypes
  <1>3. Operation'
    BY <1>1 DEF ImportInv, Operation, Names
  <1>4. Generations' /\ Loading' /\ RuleButton' /\ Queries'
    BY DEF ImportInv, Generations, Loading, RuleButton, Queries, OurProfile
  <1> QED
    BY <1>2, <1>3, <1>4 DEF ImportInv

(* Edits, resets and other VPN operations do not touch the imports         *)
(* (reset_profile_import_feedback).                                        *)
LEMMA OthersAct ==
    ASSUME Names, ImportInv,
           \/ Imports!EmptyUrl \/ Imports!ResetFeedback \/ Imports!EditConfig
           \/ Imports!ShowConfig \/ Imports!OtherBegins \/ Imports!OtherEnds
    PROVE  ImportInv'
  <1>1. /\ config \in Nat /\ importShown \in Nat
        /\ feedback \in [loading : BOOLEAN, error : BOOLEAN, succeeded : BOOLEAN]
    BY DEF ImportInv, ImportTypes
  <1>2. CASE Imports!EmptyUrl
    BY <1>1, <1>2, JobsStay DEF Imports!EmptyUrl
  <1>3. CASE Imports!ResetFeedback
    BY <1>1, <1>3, JobsStay DEF Imports!ResetFeedback
  <1>4. CASE Imports!EditConfig
    BY <1>1, <1>4, JobsStay DEF Imports!EditConfig
  <1>5. CASE Imports!ShowConfig
    BY <1>1, <1>5, JobsStay DEF Imports!ShowConfig
  <1>6. CASE Imports!OtherBegins
    BY <1>1, <1>6, JobsStay DEF Imports!OtherBegins
  <1>7. CASE Imports!OtherEnds
    BY <1>1, <1>7, JobsStay DEF Imports!OtherEnds
  <1> QED
    BY <1>2, <1>3, <1>4, <1>5, <1>6, <1>7

(* Every step of the imports keeps the invariant.                          *)
LEMMA ImportSteps ==
    ASSUME Names, ImportInv, [Imports!Next]_(Imports!vars)
    PROVE  ImportInv'
  <1>1. CASE UNCHANGED Imports!vars
    <2>1. UNCHANGED <<generation, feedback, ruleLoading, importPage, importRoot, jobs, config,
                      importShown, importVpn, early>>
      BY <1>1 DEF Imports!vars
    <2> QED
      BY <2>1, JobsStay DEF ImportInv, ImportTypes
  <1>2. ASSUME NEW j \in DOMAIN jobs,
               \/ Imports!PrepareBegins(j) \/ Imports!Prepares(j) \/ Imports!PrepareGivesUp(j)
               \/ Imports!PreparedOnUi(j) \/ Imports!Commits(j) \/ Imports!CommittedOnUi(j)
               \/ Imports!RulesPicked(j) \/ Imports!RulesCommitted(j)
        PROVE  ImportInv'
    BY <1>2, ImportsWork, PreparedReturns, CommittedReturns, RulesReturn
  <1>3. CASE \/ Imports!StartProfileImport \/ Imports!CancelProfileImport \/ Imports!ImportRules
             \/ Imports!LeavePage \/ Imports!ReplaceRoot
    BY <1>3, ProfileStarts, ProfileCancelled, RulesStart, PageLeft, RootReplaced
  <1>4. CASE \/ Imports!EmptyUrl \/ Imports!ResetFeedback \/ Imports!EditConfig
             \/ Imports!ShowConfig \/ Imports!OtherBegins \/ Imports!OtherEnds
    BY <1>4, OthersAct
  <1> QED
    BY <1>1, <1>2, <1>3, <1>4 DEF Imports!Next, Imports!Jobs

(* The result of an import reaches the dialog, the page and the VPN        *)
(* operation that it belongs to, and an import that was given up never     *)
(* lands (profile_import_generation, finish_vpn_followup).                 *)
THEOREM ImportsBelong ==
    ASSUME Imports!ConstantsOK
    PROVE  Imports!Spec => [](/\ Imports!LoadingIsCurrent /\ Imports!GivenUpNeverLands
                              /\ Imports!OperationHasImport /\ Imports!RuleLoadingHasImport)
  <1>0. Names
    BY DEF Imports!ConstantsOK, Names
  <1>1. ASSUME Imports!Init PROVE ImportInv
    BY <1>0, <1>1, ImportInit
  <1>2. ASSUME ImportInv, [Imports!Next]_(Imports!vars) PROVE ImportInv'
    BY <1>0, <1>2, ImportSteps
  <1>3. ImportInv => /\ Imports!LoadingIsCurrent /\ Imports!GivenUpNeverLands
                     /\ Imports!OperationHasImport /\ Imports!RuleLoadingHasImport
    <2> SUFFICES ASSUME ImportInv
                 PROVE  /\ Imports!LoadingIsCurrent /\ Imports!GivenUpNeverLands
                        /\ Imports!OperationHasImport /\ Imports!RuleLoadingHasImport
      OBVIOUS
    <2> USE DEF ImportInv, Imports!Jobs, Imports!Alive, Imports!IsCurrent, Imports!InFlight
    <2>1. Imports!LoadingIsCurrent
      BY DEF Loading, OurProfile, Imports!LoadingIsCurrent
    <2>2. Imports!GivenUpNeverLands
      BY DEF Generations, Late, Imports!GivenUpNeverLands
    <2>3. Imports!OperationHasImport
      BY DEF Operation, Late, Imports!OperationHasImport
    <2>4. Imports!RuleLoadingHasImport
      BY DEF RuleButton, Imports!RuleLoadingHasImport, Imports!OurRules
    <2> QED
      BY <2>1, <2>2, <2>3, <2>4
  <1> QED
    BY <1>1, <1>2, <1>3, PTL DEF Imports!Spec

=============================================================================
