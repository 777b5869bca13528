----------------------------- MODULE DnsMapping ------------------------------
(***************************************************************************)
(* The DNS of the user-space network stack.  A query read from the TUN is  *)
(* answered by a task of its own, from DnsResponseCache or by the resolver *)
(* of the engine.  DnsTable remembers which host an address was resolved   *)
(* for, so that a flow to that address is routed by the name.              *)
(*                                                                         *)
(* Apps keep an answer for as long as it says.  Names are compared without *)
(* case and queries are of one record type; packets are what they parse    *)
(* to.  A task does not wait between the answer it has and the reply: no   *)
(* time passes there.                                                      *)
(***************************************************************************)
EXTENDS Naturals, Sequences, FiniteSets

CONSTANTS
    None,        \* no record, no host
    Hosts,       \* the names that are asked for
    Aliases,     \* names that only appear in answers
    Ips,         \* the addresses
    Answers,     \* what the resolver may answer: for each host, a set of
                 \* sequences of [alias : name, target : name] and
                 \* [name : name, ip : address, ttl : seconds]
    Second,      \* ticks of the clock in a second
    MaxCacheTtl, \* DNS_CACHE_MAX_TTL
    MaxTableTtl, \* the 3600 seconds of DnsTable::insert
    MaxCached,   \* DNS_CACHE_MAX_RECORDS
    MaxMapped,   \* DNS_TABLE_MAX_RECORDS
    MaxPerIp,    \* DNS_TABLE_MAX_HOSTS_PER_IP
    Burst,       \* DNS_BURST_CAP
    MaxQueries,  \* bound on queries
    MaxFlows,    \* bound on flows
    MaxFlushes,  \* bound on flush_dns_cache
    MaxTime      \* bound on the clock

ConstantsOK ==
    /\ {Second, MaxCacheTtl, MaxTableTtl, MaxCached, MaxMapped, MaxPerIp,
        Burst} \subseteq Nat \ {0}
    /\ {MaxQueries, MaxFlows, MaxFlushes, MaxTime} \subseteq Nat
    /\ \A h \in Hosts : \A a \in Answers[h] : \A i \in DOMAIN a :
         "ip" \in DOMAIN a[i] => a[i].ip \in Ips /\ a[i].ttl \in Nat

VARIABLES
    now,      \* monotonic_ms, in ticks
    table,    \* DnsTable: the hosts each address was resolved for
    cache,    \* DnsResponseCache
    tasks,    \* every query that got a permit
    told,     \* what apps hold: address, host, until when, and for how much of that
              \* time the table was last given the address for the host (history)
    deadline, \* how long the resolver let a host have an address (history)
    flow,     \* the last flow: where it went, who the app meant, who it is
    left      \* what is left of the bounds

vars == <<now, table, cache, tasks, told, deadline, flow, left>>

Times == 0..MaxTime + (MaxTableTtl + 1) * Second

Active == {i \in DOMAIN tasks : tasks[i].at # "done"}

TypeOK ==
    /\ now \in 0..MaxTime
    /\ \A ip \in Ips : table[ip] \subseteq [host : Hosts \cup Aliases, exp : Times]
    /\ Cardinality({ip \in Ips : table[ip] # {}}) <= MaxMapped
    /\ \A ip \in Ips : /\ Cardinality(table[ip]) <= MaxPerIp
                       /\ \A d, e \in table[ip] : d.host = e.host => d = e
    /\ Cardinality({h \in Hosts : cache[h] # None}) <= MaxCached
    /\ \A h \in Hosts : cache[h] # None => cache[h].answer \in Answers[h]
    /\ Cardinality(Active) <= Burst
    /\ told \subseteq [ip : Ips, host : Hosts, until : Times, sure : Times]
    /\ left \in [queries : 0..MaxQueries, flows : 0..MaxFlows,
                 flushes : 0..MaxFlushes]

Init ==
    /\ now = 0
    /\ table = [ip \in Ips |-> {}]
    /\ cache = [h \in Hosts |-> None]
    /\ tasks = <<>> /\ told = {}
    /\ deadline = [ip \in Ips |-> [h \in Hosts \cup Aliases |-> 0]]
    /\ flow = None
    /\ left = [queries |-> MaxQueries, flows |-> MaxFlows, flushes |-> MaxFlushes]

Spend(bound) == left[bound] > 0 /\ left' = [left EXCEPT ![bound] = @ - 1]

AtLeast(a, b) == IF a > b THEN a ELSE b
AtMost(a, b) == IF a < b THEN a ELSE b
Clamp(a, low, high) == AtMost(AtLeast(a, low), high)

-----------------------------------------------------------------------------
(* Answers.                                                                *)

IsAlias(entry) == "target" \in DOMAIN entry

\* dns_response_host_for_address: an address belongs to the name that was
\* asked for, through at most eight aliases.
HostForAddress(name, answer) ==
    LET source(n) == {i \in DOMAIN answer : IsAlias(answer[i]) /\ answer[i].target = n}
        back[k \in 0..8] ==
            IF k = 0 THEN name
            ELSE IF source(back[k - 1]) = {} THEN back[k - 1]
            ELSE answer[CHOOSE i \in source(back[k - 1]) :
                          \A j \in source(back[k - 1]) : j <= i].alias
    IN back[8]

\* parse_dns_response_records, of an answer in which every TTL was rewritten
\* to ttl unless that is None.
Records(answer, ttl) ==
    LET addresses == SelectSeq(answer, LAMBDA e : ~IsAlias(e))
    IN [i \in DOMAIN addresses |->
         [ip |-> addresses[i].ip,
          host |-> HostForAddress(addresses[i].name, answer),
          ttl |-> IF ttl = None THEN addresses[i].ttl ELSE ttl]]

LeastTtl(records) ==
    CHOOSE t \in {records[i].ttl : i \in DOMAIN records} :
        \A i \in DOMAIN records : t <= records[i].ttl

-----------------------------------------------------------------------------
(* DnsTable and DnsResponseCache.                                          *)

Pruned == [ip \in Ips |-> {e \in table[ip] : e.exp > now}]

Earliest(entries) == {e \in entries : \A d \in entries : e.exp <= d.exp}

EarliestOf(ip) == CHOOSE t \in {e.exp : e \in Pruned[ip]} :
                    \A e \in Pruned[ip] : t <= e.exp

\* evict_earliest_dns_table_record, when a new address finds the table full
Evict(ip) ==
    LET used == {i \in Ips : Pruned[i] # {}} IN
    IF ip \in used \/ Cardinality(used) < MaxMapped THEN {Pruned}
    ELSE {[Pruned EXCEPT ![v] = {}] :
            v \in {i \in used : \A j \in used : EarliestOf(i) <= EarliestOf(j)}}

\* How long DnsTable::insert keeps a record of that TTL: an hour at most.
Ends(ttl) == now + Clamp(ttl, 1, MaxTableTtl) * Second

\* DnsTable::insert: the host is given its new time, or comes in place of the
\* earliest when there are too many.
Insert(ip, host, ttl) ==
    LET new == [host |-> host, exp |-> Ends(ttl)]
        others(t) == {e \in t[ip] : e.host # host}
        full(t) == others(t) = t[ip] /\ Cardinality(t[ip]) >= MaxPerIp
    IN UNION {IF full(t)
              THEN {[t EXCEPT ![ip] = (@ \ {v}) \cup {new}] : v \in Earliest(t[ip])}
              ELSE {[t EXCEPT ![ip] = others(t) \cup {new}]}
              : t \in Evict(ip)}

\* Mutant: of several hosts, one that lasts longest is returned.
LookupLatest(ip) ==
    IF Pruned[ip] = {} THEN None
    ELSE (CHOOSE e \in Pruned[ip] : \A d \in Pruned[ip] : d.exp <= e.exp).host

\* DnsTable::lookup: a host only when there is no other
Lookup(ip) == IF Cardinality(Pruned[ip]) = 1
              THEN (CHOOSE e \in Pruned[ip] : TRUE).host ELSE None

LiveCache == [h \in Hosts |-> IF cache[h] # None /\ cache[h].exp <= now
                              THEN None ELSE cache[h]]

\* DnsResponseCache::insert; an answer without an address is not kept.
Remember(h, answer) ==
    LET records == Records(answer, None)
        used == {k \in Hosts : LiveCache[k] # None}
        new == [answer |-> answer,
                exp |-> now + Clamp(LeastTtl(records), 1, MaxCacheTtl) * Second]
    IN IF records = <<>> THEN {cache}
       ELSE IF h \in used \/ Cardinality(used) < MaxCached
       THEN {[LiveCache EXCEPT ![h] = new]}
       ELSE {[LiveCache EXCEPT ![v] = None, ![h] = new] :
               v \in {k \in used : \A j \in used : LiveCache[k].exp <= LiveCache[j].exp}}

-----------------------------------------------------------------------------
(* Queries.                                                                *)

\* A hijacked query is read from the TUN; without a permit it is refused.
Query(h) ==
    /\ Spend("queries")
    /\ tasks' = IF Cardinality(Active) < Burst
                THEN Append(tasks, [host |-> h, at |-> "spawned", todo |-> <<>>,
                                    says |-> {}])
                ELSE tasks
    /\ UNCHANGED <<now, table, cache, told, deadline, flow>>

\* The task has an answer: its records go into the table one by one, and
\* then the app is told them.
Has(i, records) ==
    tasks' = [tasks EXCEPT ![i].at = "inserting", ![i].todo = records,
                           ![i].says = {[ip |-> records[r].ip, host |-> tasks[i].host,
                                         until |-> now + records[r].ttl * Second,
                                         sure |-> Ends(records[r].ttl)]
                                          : r \in DOMAIN records}]

\* The record gives its host a new time, also where an answer said more.
Shortened(answers, record) ==
    {IF a.ip = record.ip /\ a.host = record.host
     THEN [a EXCEPT !.sure = AtMost(@, Ends(record.ttl))] ELSE a : a \in answers}

\* DnsResponseCache::lookup: every TTL becomes what is left, rounded up.
Hit(i) ==
    /\ tasks[i].at = "spawned"
    /\ LET h == tasks[i].host IN
       /\ LiveCache[h] # None
       /\ Has(i, Records(cache[h].answer,
                         AtLeast(1, (cache[h].exp - now + Second - 1) \div Second)))
    /\ UNCHANGED <<now, table, cache, told, deadline, flow, left>>

Miss(i) ==
    /\ tasks[i].at = "spawned"
    /\ LiveCache[tasks[i].host] = None
    /\ tasks' = [tasks EXCEPT ![i].at = "resolving"]
    /\ cache' = [cache EXCEPT ![tasks[i].host] = None]
    /\ UNCHANGED <<now, table, told, deadline, flow, left>>

\* handle_query returns; an error becomes an answer without records.
Resolved(i) ==
    /\ tasks[i].at = "resolving"
    /\ \E answer \in Answers[tasks[i].host] \cup {<<>>} :
         LET records == Records(answer, None) IN
         /\ cache' \in Remember(tasks[i].host, answer)
         /\ Has(i, records)
         /\ deadline' = [ip \in Ips |-> [h \in Hosts \cup Aliases |->
              LET lasts == {now + AtLeast(1, records[r].ttl) * Second :
                              r \in {q \in DOMAIN records : /\ records[q].ip = ip
                                                            /\ records[q].host = h}}
              IN CHOOSE t \in lasts \cup {deadline[ip][h]} :
                   \A u \in lasts \cup {deadline[ip][h]} : u <= t]]
    /\ UNCHANGED <<now, table, told, flow, left>>

\* The next record goes into the table.
Inserts(i) ==
    /\ tasks[i].at = "inserting" /\ tasks[i].todo # <<>>
    /\ LET r == Head(tasks[i].todo) IN
       /\ table' \in Insert(r.ip, r.host, r.ttl)
       /\ tasks' = [j \in DOMAIN tasks |->
                      [tasks[j] EXCEPT !.todo = IF i = j THEN Tail(@) ELSE @,
                                       !.says = Shortened(@, r)]]
       /\ told' = Shortened(told, r)
    /\ UNCHANGED <<now, cache, deadline, flow, left>>

\* The reply is sent, and the permit is free again.
Replies(i) ==
    /\ tasks[i].at = "inserting" /\ tasks[i].todo = <<>>
    /\ tasks' = [tasks EXCEPT ![i].at = "done", ![i].says = {}]
    /\ told' = told \cup tasks[i].says
    /\ UNCHANGED <<now, table, cache, deadline, flow, left>>

\* flush_dns_cache
Flush ==
    /\ Spend("flushes")
    /\ table' = [ip \in Ips |-> {}]
    /\ cache' = [h \in Hosts |-> None]
    /\ UNCHANGED <<now, tasks, told, deadline, flow>>

-----------------------------------------------------------------------------
(* Flows.                                                                  *)

\* What a flow to the address is called: sniffed, the app says so itself;
\* otherwise the table does, or nobody.
Named(ip, wanted, sniffed) == IF sniffed THEN wanted ELSE Lookup(ip)

\* An app that holds an answer connects or sends: handle_tcp_stream, where
\* the prefix of the stream may tell, or handle_udp_datagram.
Flow(holding, sniffed) ==
    /\ Spend("flows")
    /\ holding.until > now
    /\ table' = Pruned
    /\ flow' = [ip |-> holding.ip, wanted |-> holding.host,
                sure |-> holding.sure > now,
                said |-> Named(holding.ip, holding.host, sniffed)]
    /\ UNCHANGED <<now, cache, tasks, told, deadline>>

Tick ==
    /\ now < MaxTime
    /\ \A i \in DOMAIN tasks : tasks[i].at # "inserting"
    /\ now' = now + 1
    /\ UNCHANGED <<table, cache, tasks, told, deadline, flow, left>>

Next ==
    \/ \E h \in Hosts : Query(h)
    \/ \E i \in DOMAIN tasks : Hit(i) \/ Miss(i) \/ Resolved(i) \/ Inserts(i) \/ Replies(i)
    \/ Flush
    \/ \E holding \in told, sniffed \in BOOLEAN : Flow(holding, sniffed)
    \/ Tick

Spec == Init /\ [][Next]_vars

-----------------------------------------------------------------------------

\* Nothing the resolver said is used a second or more after the time it gave
\* it, however often it was answered from the cache in between: neither the
\* name of an address, nor a cached answer, nor what an app is told.
NotStale ==
    /\ \A ip \in Ips : \A e \in table[ip] : e.exp < deadline[ip][e.host] + Second
    /\ \A h \in Hosts : cache[h] # None =>
         \A r \in {Records(cache[h].answer, None)[i] : i \in DOMAIN Records(cache[h].answer, None)} :
            cache[h].exp <= deadline[r.ip][r.host]
    /\ \A t \in told : t.until < deadline[t.ip][t.host] + Second

\* While an app holds an answer, the table has the host the app resolved the
\* address for, up to an hour, and up to the end of any answer for that host and
\* address that went into the table later: an answer from the cache, or a new one
\* with a shorter TTL, shortens the mapping the app relies on. It holds where the
\* table has room for every host of every address and is not flushed.
MappedWhileTold ==
    \A t \in told : t.sure > now =>
        \E e \in Pruned[t.ip] : e.host = t.host /\ e.exp >= t.sure

\* A flow of an app that holds its answer is not called by a host the app did
\* not mean: with several hosts on an address the table does not guess
\* (DnsTable::lookup). It may be once the mapping of its own host has ended
\* before the answer, as the hour or a later answer said, or for want of room.
NeverGuesses ==
    flow # None /\ flow.sure => flow.said \in {flow.wanted, None}

=============================================================================
