------------------------------ MODULE FakeDns ------------------------------
(***************************************************************************)
(* The fake DNS of fakedns.c: a pool of addresses that the DNS thread      *)
(* hands out for domain names, the reverse lookups of all the event loops, *)
(* each through a thread-local cache that it checks without a lock, and    *)
(* the clients that remember an answer for its TTL.  An address is its     *)
(* offset in the pool.  Times are seconds modulo TimeMod (2^32).           *)
(***************************************************************************)
EXTENDS Integers, Sequences, FiniteSets

CONSTANTS
    Domains, PoolSize,
    FAKEDNS_MAX_PROBES,      \* the 128 of fakedns_init
    Offset, Step,            \* the halves of the hash of each domain
    FAKEDNS_ENTRY_LIFETIME, FAKEDNS_DNS_TTL, FAKEDNS_MRU_SIZE, TimeMod,
    Threads, DnsThread,      \* the event loops; the one that runs the DNS server
    StartTime,               \* when the proxy is first started
    LastTime, MaxVersion     \* bounds: of the clock, of the overwrites of a slot

FAKEDNS_TTL_REFRESH_THRESHOLD == (FAKEDNS_ENTRY_LIFETIME * 3) \div 10
Slots == 0 .. PoolSize - 1
Times == 0 .. TimeMod - 1
g_max_probes == IF PoolSize < FAKEDNS_MAX_PROBES THEN PoolSize ELSE FAKEDNS_MAX_PROBES

\* The last line is the _Static_assert of fakedns.c.
ASSUME FakeDnsAssumption ==
    /\ PoolSize \in Nat \ {0} /\ FAKEDNS_MAX_PROBES \in Nat \ {0}
    /\ Offset \in [Domains -> Nat] /\ Step \in [Domains -> Nat]
    /\ FAKEDNS_ENTRY_LIFETIME \in Nat /\ FAKEDNS_DNS_TTL \in Nat \ {0}
    /\ FAKEDNS_MRU_SIZE \in Nat \ {0} /\ DnsThread \in Threads /\ MaxVersion \in Nat \ {0}
    /\ TimeMod \in Nat \ {0} /\ TimeMod % 2 = 0 /\ StartTime \in Times
    /\ FAKEDNS_ENTRY_LIFETIME < TimeMod \div 2
    /\ FAKEDNS_TTL_REFRESH_THRESHOLD >= FAKEDNS_DNS_TTL

VARIABLES
    pool,   \* g_fakedns_pool: a slot holds no entry or one for ever
    writer, \* the slot whose overwriting has begun, under the write lock
    mru,    \* the cache of each thread, most recent first (g_fakedns_mru_ptrs)
    now,    \* time(NULL)
    cached  \* the answers that clients have and how long they still use them

vars == <<pool, writer, mru, now, cached>>

NoEntry == [domain |-> "none", expire |-> 0, version |-> 0]
Idle == -1  \* no slot

\* (int32_t)(exp - now)
Remaining(exp) == LET d == (exp - now) % TimeMod
                  IN  IF d < TimeMod \div 2 THEN d ELSE d - TimeMod
NewExpire == (now + FAKEDNS_ENTRY_LIFETIME) % TimeMod

-----------------------------------------------------------------------------
(* The DNS thread: fakedns_lookup_domain.                                  *)

Probe(d, i) == (Offset[d] + i * (2 * Step[d] + 1)) % PoolSize
Probes == 0 .. g_max_probes - 1
Holds(slot, d) == pool[slot] # NoEntry /\ pool[slot].domain = d

\* The scan comes to probe i: no slot before it is empty or holds d.
Reached(d, i) == \A j \in 0 .. i - 1 : pool[Probe(d, j)] # NoEntry /\ ~ Holds(Probe(d, j), d)
Found(d, i) == Reached(d, i) /\ Holds(Probe(d, i), d)
Empty(d, i) == Reached(d, i) /\ pool[Probe(d, i)] = NoEntry
NotFound(d) == \A i \in Probes : ~ Found(d, i)

Expired(d, i) == Reached(d, i) /\ pool[Probe(d, i)] # NoEntry
                 /\ Remaining(pool[Probe(d, i)].expire) < 0
FirstExpired(d, i) == Expired(d, i) /\ \A j \in 0 .. i - 1 : ~ Expired(d, j)

\* The client may get the answer; sendmmsg drops what it cannot send.
Answer(d, slot) == \E got \in BOOLEAN :
    cached' = cached \cup (IF got THEN {[domain |-> d, slot |-> slot, left |-> FAKEDNS_DNS_TTL]}
                           ELSE {})

\* Mutant: an entry is only refreshed when it has run out.
RefreshedExpire_Late(exp) == IF Remaining(exp) >= 0 THEN exp ELSE NewExpire

RefreshedExpire(exp) == IF Remaining(exp) > FAKEDNS_TTL_REFRESH_THRESHOLD THEN exp ELSE NewExpire

LookupFound(d) ==
    /\ writer = Idle
    /\ \E i \in Probes : LET slot == Probe(d, i) IN
        /\ Found(d, i)
        /\ pool' = [pool EXCEPT ![slot].expire = RefreshedExpire(@)]
        /\ Answer(d, slot)
    /\ UNCHANGED <<writer, mru, now>>

\* Mutant: the slot is rewritten as soon as it is reached, before the rest of
\* the chain has been searched for d.
LookupOverwrite_NoScan(d) ==
    /\ writer = Idle
    /\ \E i \in Probes : LET slot == Probe(d, i) IN
        /\ FirstExpired(d, i) /\ pool[slot].version < MaxVersion
        /\ pool' = [pool EXCEPT ![slot].domain = d, ![slot].expire = NewExpire]
        /\ writer' = slot
    /\ UNCHANGED <<mru, now, cached>>

\* The first expired slot of the chain is preferred to an empty one.  Its domain
\* is rewritten first, its version, which the lock-free readers check, last.
LookupOverwrite(d) ==
    /\ writer = Idle /\ NotFound(d)
    /\ \E i \in Probes : LET slot == Probe(d, i) IN
        /\ FirstExpired(d, i) /\ pool[slot].version < MaxVersion
        /\ pool' = [pool EXCEPT ![slot].domain = d, ![slot].expire = NewExpire]
        /\ writer' = slot
    /\ UNCHANGED <<mru, now, cached>>

\* Mutant: the version is not counted up.
NextVersion_Same(v) == v

NextVersion(v) == v + 1

OverwriteDone ==
    /\ writer # Idle
    /\ pool' = [pool EXCEPT ![writer].version = NextVersion(@)]
    /\ writer' = Idle
    /\ Answer(pool[writer].domain, writer)
    /\ UNCHANGED <<mru, now>>

LookupInsert(d) ==
    /\ writer = Idle /\ NotFound(d) /\ \A i \in Probes : ~ Expired(d, i)
    /\ \E i \in Probes : LET slot == Probe(d, i) IN
        /\ Empty(d, i)
        /\ pool' = [pool EXCEPT ![slot] = [domain |-> d, expire |-> NewExpire, version |-> 1]]
        /\ Answer(d, slot)
    /\ UNCHANGED <<writer, mru, now>>

\* SERVFAIL: every probe met a current entry of another domain, or there is no
\* memory for an entry in the empty slot.
LookupRefused(d) ==
    /\ writer = Idle /\ NotFound(d) /\ \A i \in Probes : ~ Expired(d, i)
    /\ UNCHANGED vars

-----------------------------------------------------------------------------
(* The event loops: fakedns_reverse_lookup.                                *)

\* The valid item for the address, which the scan meets first.
MruAt(t, slot, k) ==
    /\ mru[t][k].valid /\ mru[t][k].slot = slot
    /\ \A j \in 1 .. k - 1 : ~ (mru[t][j].valid /\ mru[t][j].slot = slot)

MruCurrent(t, k) == LET e == pool[mru[t][k].slot]
                    IN  e # NoEntry /\ e.version = mru[t][k].version

ToFront(q, k) == <<q[k]>> \o SubSeq(q, 1, k - 1) \o SubSeq(q, k + 1, Len(q))

\* The fast path: a current item of the thread's own cache, without a lock.
MruHit(t, slot, d) ==
    \E k \in 1 .. FAKEDNS_MRU_SIZE : MruAt(t, slot, k) /\ MruCurrent(t, k) /\ mru[t][k].domain = d
MruMiss(t, slot) ==
    \A k \in 1 .. FAKEDNS_MRU_SIZE : MruAt(t, slot, k) => ~ MruCurrent(t, k)

\* What a reverse lookup by thread t would return now.
Resolves(t, slot, d) == MruHit(t, slot, d) \/ (MruMiss(t, slot) /\ writer = Idle /\ Holds(slot, d))

\* The DNS thread is not at once in a lookup of its own.
MayLookup(t) == t = DnsThread => writer = Idle

ReverseFast(t, slot) ==
    /\ MayLookup(t)
    /\ \E k \in 1 .. FAKEDNS_MRU_SIZE :
        /\ MruAt(t, slot, k) /\ MruCurrent(t, k)
        /\ mru' = [mru EXCEPT ![t] = ToFront(@, k)]
    /\ UNCHANGED <<pool, writer, now, cached>>

\* A dirty item is marked invalid.  The slow path waits for the read lock, and the
\* item it found takes the last place, which comes to the front.
Invalidated(t, slot) == [k \in 1 .. FAKEDNS_MRU_SIZE |->
                            [mru[t][k] EXCEPT !.valid = @ /\ ~ MruAt(t, slot, k)]]
ReverseSlow(t, slot) ==
    /\ MruMiss(t, slot) /\ writer = Idle
    /\ mru' = [mru EXCEPT ![t] =
                 IF pool[slot] = NoEntry THEN Invalidated(t, slot)
                 ELSE <<[slot |-> slot, version |-> pool[slot].version,
                         domain |-> pool[slot].domain, valid |-> TRUE]>>
                      \o SubSeq(Invalidated(t, slot), 1, FAKEDNS_MRU_SIZE - 1)]
    /\ UNCHANGED <<pool, writer, now, cached>>

-----------------------------------------------------------------------------
\* A lookup is over before the time that it has read is out of date: what is left
\* of an entry's life exceeds the TTL by hours.
Tick ==
    /\ now # LastTime /\ writer = Idle
    /\ now' = (now + 1) % TimeMod
    /\ cached' = {[a EXCEPT !.left = @ - 1] : a \in {b \in cached : b.left > 0}}
    /\ UNCHANGED <<pool, writer, mru>>

NoItem == [slot |-> 0, version |-> 0, domain |-> "none", valid |-> FALSE]
EmptyMru == [t \in Threads |-> [k \in 1 .. FAKEDNS_MRU_SIZE |-> NoItem]]

\* What fakedns_load may put into a slot: nothing, or an entry with a new lifetime for
\* a domain whose scan may come to the slot.  The save has left out what had expired,
\* in any place, so the loaded chains may have gaps, and a domain that was given a
\* second address before a gap may be in two slots.
Loadable(slot) ==
    {NoEntry} \cup {[domain |-> d, expire |-> NewExpire, version |-> 1] :
                        d \in {e \in Domains : \E i \in Probes : Probe(e, i) = slot}}

\* main: fakedns_init, and fakedns_load if there is a file.
Init ==
    /\ now = StartTime
    /\ pool \in {p \in [Slots -> UNION {Loadable(slot) : slot \in Slots}] :
                    \A slot \in Slots : p[slot] \in Loadable(slot)}
    /\ writer = Idle /\ mru = EmptyMru /\ cached = {}

Query(d) == LookupFound(d) \/ LookupOverwrite(d) \/ LookupInsert(d) \/ LookupRefused(d)
Reverse(t, slot) == ReverseFast(t, slot) \/ ReverseSlow(t, slot)

Next == \/ \E d \in Domains : Query(d)
        \/ OverwriteDone
        \/ \E t \in Threads, slot \in Slots : Reverse(t, slot)
        \/ Tick
Spec == Init /\ [][Next]_vars

-----------------------------------------------------------------------------
(* Safety.                                                                 *)

Entries == [domain : Domains, expire : Times, version : 1 .. MaxVersion]
Items == [slot : Slots, version : 0 .. MaxVersion, domain : Domains \cup {"none"}, valid : BOOLEAN]

\* The pool, the caches and the clients' answers are well formed.
FakeDnsTypeOK ==
    /\ pool \in [Slots -> Entries \cup {NoEntry}]
    /\ writer \in Slots \cup {Idle}
    /\ mru \in [Threads -> [1 .. FAKEDNS_MRU_SIZE -> Items]]
    /\ now \in Times
    /\ cached \subseteq [domain : Domains, slot : Slots, left : 0 .. FAKEDNS_DNS_TTL]

\* "prevent client cache outliving entry" (the _Static_assert of fakedns.c): as long as a client
\* may use an answer, every event loop, from its own cache or from the pool,
\* resolves the address back to the domain the client asked for.  A thread that
\* must wait for the write lock resolves nothing now.
FreshAnswerResolves ==
    \A a \in cached, t \in Threads :
        \/ Resolves(t, a.slot, a.domain)
        \/ MruMiss(t, a.slot) /\ writer # Idle /\ Holds(a.slot, a.domain)

\* The lock-free version check is enough: once an overwriting is complete, no
\* thread resolves the address to what the slot held before, in a pool and caches
\* that are well formed.
MruIsCurrent ==
    /\ FakeDnsTypeOK
    /\ \A t \in Threads, slot \in Slots, d \in Domains :
        MruHit(t, slot, d) /\ writer # slot => Holds(slot, d)

\* At most one slot holds d, and the scan for d comes to it.
OneAddress(d) ==
    /\ \A x, y \in Slots : Holds(x, d) /\ Holds(y, d) => x = y
    /\ \A x \in Slots : Holds(x, d) => \E i \in Probes : Found(d, i) /\ Probe(d, i) = x

\* "Single-writer design": the scan, without a lock and without a second look, never
\* gives a second address to a domain that has none or one where its scan comes to,
\* whatever is inserted or overwritten in its chain.  In a pool that was loaded with a
\* gap before a domain's entry the premise is false of that domain, which is then
\* given a second address, and none of the others is affected.
OneAddressPerDomain == [][\A d \in Domains : OneAddress(d) => OneAddress(d)']_vars
=============================================================================
