--------------------------- MODULE FakeDnsProofs ---------------------------
(***************************************************************************)
(* What TLAPS proves of FakeDns and FakeDnsPersist for every pool, every   *)
(* hash, every number of domains, threads and cache items, and every       *)
(* lifetime and TTL that the code's static assertion admits.               *)
(***************************************************************************)
EXTENDS FakeDnsPersist, SequenceTheorems, TLAPS

-----------------------------------------------------------------------------
(* The clock.                                                              *)

\* The remainder of a difference of two times.
LEMMA ModFacts ==
    ASSUME NEW m \in Nat \ {0}, NEW a \in Int
    PROVE  /\ a % m \in 0 .. m - 1
           /\ 0 <= a /\ a < m => a % m = a
           /\ m <= a /\ a < 2 * m => a % m = a - m
           /\ a < 0 /\ 0 <= a + m => a % m = a + m
<1>1. a % m \in 0 .. m - 1
    OBVIOUS
<1>2. 0 <= a /\ a < m => a % m = a
    OBVIOUS
<1>3. m <= a /\ a < 2 * m => a % m = a - m
    OBVIOUS
<1>4. a < 0 /\ 0 <= a + m => a % m = a + m
    OBVIOUS
<1> QED
    BY <1>1, <1>2, <1>3, <1>4

LEMMA ClockFacts ==
    /\ TimeMod \in Nat \ {0} /\ TimeMod \div 2 \in Nat /\ 2 * (TimeMod \div 2) = TimeMod
    /\ FAKEDNS_ENTRY_LIFETIME \in Nat /\ FAKEDNS_ENTRY_LIFETIME < TimeMod \div 2
    /\ FAKEDNS_DNS_TTL \in Nat \ {0} /\ FAKEDNS_ENTRY_LIFETIME > FAKEDNS_DNS_TTL
    /\ FAKEDNS_TTL_REFRESH_THRESHOLD \in Nat
    /\ FAKEDNS_TTL_REFRESH_THRESHOLD >= FAKEDNS_DNS_TTL
BY FakeDnsAssumption DEF FAKEDNS_TTL_REFRESH_THRESHOLD

\* A new entry lives for FAKEDNS_ENTRY_LIFETIME, also over the wrap of the clock.
LEMMA NewLife ==
    ASSUME now \in Times
    PROVE  NewExpire \in Times /\ Remaining(NewExpire) = FAKEDNS_ENTRY_LIFETIME
<1> DEFINE m == TimeMod
           L == FAKEDNS_ENTRY_LIFETIME
<1>1. m \in Nat \ {0} /\ now \in 0 .. m - 1 /\ L \in Nat /\ L < m \div 2 /\ m \div 2 < m
    BY ClockFacts DEF Times
<1>2. NewExpire \in 0 .. m - 1
    BY <1>1, ModFacts DEF NewExpire
<1>3. NewExpire = now + L \/ NewExpire = now + L - m
  <2> DEFINE a == now + L
  <2>1. a \in Int /\ ((0 <= a /\ a < m) \/ (m <= a /\ a < 2 * m))
      BY <1>1
  <2> HIDE DEF a
  <2>2. a % m = a \/ a % m = a - m
      BY <1>1, <2>1, ModFacts
  <2> QED
      BY <1>1, <2>2 DEF NewExpire, a
<1>4. (NewExpire - now) % m = L
  <2>1. CASE NewExpire = now + L
    <3>1. NewExpire - now = L
        BY <1>1, <2>1
    <3>2. L \in Int /\ 0 <= L /\ L < m
        BY <1>1
    <3>3. L % m = L
        BY <1>1, <3>2, ModFacts
    <3> QED
        BY <3>1, <3>3
  <2>2. CASE NewExpire = now + L - m
    <3>1. NewExpire - now = L - m /\ L - m \in Int /\ L - m < 0 /\ 0 <= L - m + m
        BY <1>1, <2>2
    <3>2. (L - m) % m = L - m + m
        BY <1>1, <3>1, ModFacts
    <3> QED
        BY <1>1, <3>1, <3>2
  <2> QED
      BY <1>3, <2>1, <2>2
<1> QED
    BY <1>1, <1>2, <1>4 DEF Remaining, Times

\* Remaining is a signed number of half the width.
LEMMA RemainingType ==
    ASSUME now \in Times, NEW e \in Times
    PROVE  /\ Remaining(e) \in Int
           /\ (e - now) % TimeMod \in 0 .. TimeMod - 1
           /\ Remaining(e) >= 0 => /\ Remaining(e) = (e - now) % TimeMod
                                   /\ Remaining(e) < TimeMod \div 2
<1>1. e - now \in Int /\ TimeMod \in Nat \ {0} /\ TimeMod \div 2 \in Nat
    BY ClockFacts DEF Times
<1>2. (e - now) % TimeMod \in 0 .. TimeMod - 1
    BY <1>1, ModFacts
<1> QED
    BY <1>1, <1>2 DEF Remaining

\* Each tick takes one second from what remains of a current entry.
LEMMA TickLife ==
    ASSUME now \in Times, NEW e \in Times, Remaining(e) > 0, now' = (now + 1) % TimeMod
    PROVE  now' \in Times /\ Remaining(e)' = Remaining(e) - 1
<1> DEFINE m == TimeMod
           r == (e - now) % m
<1>1. m \in Nat \ {0} /\ now \in 0 .. m - 1 /\ e \in 0 .. m - 1 /\ m \div 2 \in Nat /\ m \div 2 <= m
    BY ClockFacts DEF Times
<1>2. r = Remaining(e) /\ r \in 1 .. m - 1 /\ r < m \div 2
    BY RemainingType, <1>1
<1>3. r = e - now \/ r = e - now + m
  <2> DEFINE a == e - now
  <2>1. a \in Int /\ ((0 <= a /\ a < m) \/ (a < 0 /\ 0 <= a + m))
      BY <1>1
  <2> HIDE DEF a
  <2>2. a % m = a \/ a % m = a + m
      BY <1>1, <2>1, ModFacts
  <2> QED
      BY <1>1, <2>2 DEF a
<1>4. now' \in 0 .. m - 1 /\ (now' = now + 1 \/ now' = now + 1 - m)
  <2> DEFINE a == now + 1
  <2>1. a \in Int /\ ((0 <= a /\ a < m) \/ (m <= a /\ a < 2 * m))
      BY <1>1
  <2> HIDE DEF a
  <2>2. a % m \in 0 .. m - 1 /\ (a % m = a \/ a % m = a - m)
      BY <1>1, <2>1, ModFacts
  <2> QED
      BY <1>1, <2>2 DEF a
<1>5. (e - now') % m = r - 1
  <2>1. e - now' \in {r - 1, r - 1 - m, r - 1 + m}
      BY <1>1, <1>2, <1>3, <1>4
  <2> DEFINE a == e - now'
  <2>2. /\ a \in Int
        /\ \/ 0 <= a /\ a < m /\ a = r - 1
           \/ m <= a /\ a < 2 * m /\ a - m = r - 1
           \/ a < 0 /\ 0 <= a + m /\ a + m = r - 1
      BY <1>1, <1>2, <2>1
  <2> HIDE DEF a, r
  <2>3. a % m = r - 1
      BY <1>1, <2>2, ModFacts
  <2> QED
      BY <1>1, <2>3 DEF a
<1> QED
    BY <1>1, <1>2, <1>4, <1>5 DEF Remaining, Times

-----------------------------------------------------------------------------
(* The inductive invariants.                                               *)

\* The slot that is being overwritten can still count up its version, and its new
\* entry will outlive the answer.
WriterOK ==
    writer # Idle => /\ pool[writer] # NoEntry /\ pool[writer].version < MaxVersion
                     /\ Remaining(pool[writer].expire) > FAKEDNS_DNS_TTL

\* A cached item is never ahead of its slot, and one that has the slot's version
\* has its domain, unless the slot is just being overwritten.
ItemOK(q) ==
    q.valid => /\ pool[q.slot] # NoEntry /\ q.version <= pool[q.slot].version
               /\ q.version = pool[q.slot].version /\ writer # q.slot
                      => q.domain = pool[q.slot].domain

\* The entry behind an answer outlives it.
AnswerOK(a) ==
    /\ Holds(a.slot, a.domain) /\ writer # a.slot
    /\ Remaining(pool[a.slot].expire) > a.left

BaseInv ==
    /\ FakeDnsTypeOK
    /\ WriterOK
    /\ \A t \in Threads, k \in 1 .. FAKEDNS_MRU_SIZE : ItemOK(mru[t][k])
    /\ \A a \in cached : AnswerOK(a)

-----------------------------------------------------------------------------
(* The thread-local caches.                                                *)

\* A cache that is moved about is a cache of the same items.
LEMMA ToFrontFacts ==
    ASSUME NEW S, NEW n \in Nat \ {0}, NEW q \in [1 .. n -> S], NEW k \in 1 .. n
    PROVE  ToFront(q, k) \in [1 .. n -> S]
<1> DEFINE a == SubSeq(q, 1, k - 1)
           b == SubSeq(q, k + 1, n)
<1>1. q \in Seq(S) /\ Len(q) = n
    OBVIOUS
<1>2. a \in Seq(S) /\ Len(a) = k - 1
    BY SubSeqProperties
<1>3. b \in Seq(S) /\ Len(b) = n - k
    BY SubSeqProperties
<1>4. <<q[k]>> \in Seq(S) /\ Len(<<q[k]>>) = 1
    OBVIOUS
<1> HIDE DEF a, b
<1>5. <<q[k]>> \o a \in Seq(S) /\ Len(<<q[k]>> \o a) = k
    BY <1>2, <1>4, ConcatProperties
<1>6. (<<q[k]>> \o a) \o b \in Seq(S) /\ Len((<<q[k]>> \o a) \o b) = n
    BY <1>3, <1>5, ConcatProperties
<1>7. ToFront(q, k) = (<<q[k]>> \o a) \o b
    BY <1>1 DEF ToFront, a, b
<1> QED
    BY <1>6, <1>7, LenProperties

LEMMA ReplaceLastFacts ==
    ASSUME NEW S, NEW n \in Nat \ {0}, NEW q \in [1 .. n -> S], NEW x \in S
    PROVE  <<x>> \o SubSeq(q, 1, n - 1) \in [1 .. n -> S]
<1> DEFINE a == SubSeq(q, 1, n - 1)
<1>1. a \in Seq(S) /\ Len(a) = n - 1
    BY SubSeqProperties
<1>2. <<x>> \in Seq(S) /\ Len(<<x>>) = 1
    OBVIOUS
<1> HIDE DEF a
<1>3. <<x>> \o a \in Seq(S) /\ Len(<<x>> \o a) = n
    BY <1>1, <1>2, ConcatProperties
<1> QED
    BY <1>3, LenProperties DEF a

-----------------------------------------------------------------------------
(* The steps.                                                              *)

LEMMA SizeFacts ==
    /\ PoolSize \in Nat \ {0} /\ FAKEDNS_MRU_SIZE \in Nat \ {0} /\ MaxVersion \in Nat \ {0}
    /\ Idle \notin Slots /\ StartTime \in Times
BY FakeDnsAssumption DEF Idle, Slots

\* The probes of a domain are slots of the pool.
LEMMA ProbeType ==
    ASSUME NEW d \in Domains, NEW i \in Nat
    PROVE  Probe(d, i) \in Slots
<1>1. Offset[d] \in Nat /\ Step[d] \in Nat /\ PoolSize \in Nat \ {0}
    BY FakeDnsAssumption
<1>2. i * (2 * Step[d] + 1) \in Int
    BY <1>1
<1>3. Offset[d] + i * (2 * Step[d] + 1) \in Int
    BY <1>1, <1>2
<1> QED
    BY <1>1, <1>3, ModFacts DEF Probe, Slots

LEMMA ProbesAreNat == Probes \subseteq Nat
    BY FakeDnsAssumption DEF Probes, g_max_probes

\* An entry is not the empty slot.
LEMMA EntryFacts ==
    /\ \A e \in Entries : e # NoEntry /\ e.version \in 1 .. MaxVersion /\ e.expire \in Times
                          /\ e.domain \in Domains
    /\ \A d \in Domains, x \in Times, v \in 1 .. MaxVersion :
          [domain |-> d, expire |-> x, version |-> v] \in Entries
    /\ \A e \in Entries, d \in Domains : [e EXCEPT !.domain = d] \in Entries
    /\ \A e \in Entries, x \in Times : [e EXCEPT !.expire = x] \in Entries
    /\ \A e \in Entries, v \in 1 .. MaxVersion : [e EXCEPT !.version = v] \in Entries
<1>1. \A e \in Entries : e.version \in 1 .. MaxVersion /\ e.expire \in Times /\ e.domain \in Domains
    BY DEF Entries
<1>2. NoEntry.version = 0 /\ 0 \notin 1 .. MaxVersion
    BY SizeFacts DEF NoEntry
<1>3. \A e \in Entries : e # NoEntry
    BY <1>1, <1>2
<1> QED
    BY <1>1, <1>3 DEF Entries

\* An answer that is remembered is a good one, and the others are as they were.
LEMMA AnswerFacts ==
    ASSUME NEW d \in Domains, NEW x \in Slots, Answer(d, x),
           cached \subseteq [domain : Domains, slot : Slots, left : 0 .. FAKEDNS_DNS_TTL],
           \A a \in cached : AnswerOK(a)',
           Holds(x, d)', writer' # x, (Remaining(pool[x].expire))' > FAKEDNS_DNS_TTL
    PROVE  /\ cached' \subseteq [domain : Domains, slot : Slots, left : 0 .. FAKEDNS_DNS_TTL]
           /\ \A a \in cached' : AnswerOK(a)'
<1> DEFINE new == [domain |-> d, slot |-> x, left |-> FAKEDNS_DNS_TTL]
<1>1. cached' = cached \/ cached' = cached \cup {new}
    BY DEF Answer
<1>2. new \in [domain : Domains, slot : Slots, left : 0 .. FAKEDNS_DNS_TTL]
    BY ClockFacts
<1>3. new.slot = x /\ new.domain = d /\ new.left = FAKEDNS_DNS_TTL
    OBVIOUS
<1>4. AnswerOK(new)'
    BY <1>3 DEF AnswerOK
<1> HIDE DEF new
<1> QED
    BY <1>1, <1>2, <1>4

\* What BaseInv says, taken apart.
LEMMA BaseFacts ==
    ASSUME BaseInv
    PROVE  /\ pool \in [Slots -> Entries \cup {NoEntry}]
           /\ writer \in Slots \cup {Idle} /\ now \in Times
           /\ mru \in [Threads -> [1 .. FAKEDNS_MRU_SIZE -> Items]]
           /\ cached \subseteq [domain : Domains, slot : Slots, left : 0 .. FAKEDNS_DNS_TTL]
           /\ \A t \in Threads, k \in 1 .. FAKEDNS_MRU_SIZE :
                 mru[t][k] \in Items /\ mru[t][k].slot \in Slots
                 /\ mru[t][k].version \in Nat /\ ItemOK(mru[t][k])
           /\ \A a \in cached : /\ a.slot \in Slots /\ a.domain \in Domains
                                /\ a.left \in 0 .. FAKEDNS_DNS_TTL /\ AnswerOK(a)
           /\ \A x \in Slots : pool[x] # NoEntry =>
                 /\ pool[x] \in Entries /\ pool[x].expire \in Times
                 /\ pool[x].domain \in Domains /\ pool[x].version \in 1 .. MaxVersion
<1>1. /\ pool \in [Slots -> Entries \cup {NoEntry}]
      /\ writer \in Slots \cup {Idle} /\ now \in Times
      /\ mru \in [Threads -> [1 .. FAKEDNS_MRU_SIZE -> Items]]
      /\ cached \subseteq [domain : Domains, slot : Slots, left : 0 .. FAKEDNS_DNS_TTL]
    BY DEF BaseInv, FakeDnsTypeOK
<1>2. \A q \in Items : q.slot \in Slots /\ q.version \in 0 .. MaxVersion
    BY DEF Items
<1>3. \A t \in Threads, k \in 1 .. FAKEDNS_MRU_SIZE :
         mru[t][k] \in Items /\ ItemOK(mru[t][k])
    BY <1>1 DEF BaseInv
<1>4. \A a \in cached : /\ a.slot \in Slots /\ a.domain \in Domains
                        /\ a.left \in 0 .. FAKEDNS_DNS_TTL /\ AnswerOK(a)
    BY <1>1 DEF BaseInv
<1>5. \A x \in Slots : pool[x] # NoEntry => pool[x] \in Entries
    BY <1>1
<1>6. 0 .. MaxVersion \subseteq Nat
    BY SizeFacts
<1> QED
    BY <1>1, <1>2, <1>3, <1>4, <1>5, <1>6, EntryFacts

\* A refresh only prolongs the life of an entry.
LEMMA FoundStep ==
    ASSUME BaseInv, NEW d \in Domains, LookupFound(d)
    PROVE  BaseInv'
<1>1. PICK i \in Probes : /\ Found(d, i)
                          /\ pool' = [pool EXCEPT ![Probe(d, i)].expire = RefreshedExpire(@)]
                          /\ Answer(d, Probe(d, i))
    BY DEF LookupFound
<1> DEFINE x == Probe(d, i)
<1>2. x \in Slots /\ Holds(x, d) /\ pool[x] # NoEntry /\ pool[x].domain = d
    BY <1>1, ProbeType, ProbesAreNat DEF Found, Holds
<1> HIDE DEF x
<1>3. writer = Idle /\ UNCHANGED <<writer, mru, now>>
    BY DEF LookupFound
<1> DEFINE e == RefreshedExpire(pool[x].expire)
<1>4. e \in Times /\ Remaining(e) > FAKEDNS_DNS_TTL
  <2>1. pool[x].expire \in Times /\ now \in Times
      BY <1>2, BaseFacts
  <2>2. NewExpire \in Times /\ Remaining(NewExpire) = FAKEDNS_ENTRY_LIFETIME
      BY <2>1, NewLife
  <2>3. Remaining(pool[x].expire) \in Int
      BY <2>1, RemainingType
  <2>4. CASE Remaining(pool[x].expire) > FAKEDNS_TTL_REFRESH_THRESHOLD
      BY <2>1, <2>3, <2>4, ClockFacts DEF RefreshedExpire
  <2>5. CASE ~ (Remaining(pool[x].expire) > FAKEDNS_TTL_REFRESH_THRESHOLD)
      BY <2>2, <2>5, ClockFacts DEF RefreshedExpire
  <2> QED
      BY <2>4, <2>5
<1> HIDE DEF e
<1>5. pool' = [pool EXCEPT ![x] = [pool[x] EXCEPT !.expire = e]]
    BY <1>1, <1>2, BaseFacts DEF x, e
<1>6. /\ pool' \in [Slots -> Entries \cup {NoEntry}]
      /\ pool'[x] # NoEntry /\ pool'[x].expire = e
      /\ pool'[x].domain = pool[x].domain /\ pool'[x].version = pool[x].version
      /\ \A y \in Slots : y # x => pool'[y] = pool[y]
  <2>1. pool[x] \in Entries /\ pool \in [Slots -> Entries \cup {NoEntry}]
      BY <1>2, BaseFacts
  <2>2. pool'[x] = [pool[x] EXCEPT !.expire = e] /\ [pool[x] EXCEPT !.expire = e] \in Entries
      BY <1>2, <1>4, <1>5, <2>1, EntryFacts
  <2>3. /\ [pool[x] EXCEPT !.expire = e].expire = e
        /\ [pool[x] EXCEPT !.expire = e].domain = pool[x].domain
        /\ [pool[x] EXCEPT !.expire = e].version = pool[x].version
      BY <2>1 DEF Entries
  <2> QED
      BY <1>2, <1>5, <2>1, <2>2, <2>3, EntryFacts
<1>7. \A a \in cached : AnswerOK(a)'
  <2> SUFFICES ASSUME NEW a \in cached PROVE AnswerOK(a)'
      OBVIOUS
  <2>1. /\ a.slot \in Slots /\ a.left \in 0 .. FAKEDNS_DNS_TTL
        /\ Holds(a.slot, a.domain) /\ writer # a.slot
        /\ Remaining(pool[a.slot].expire) > a.left
      BY BaseFacts DEF AnswerOK
  <2>2. Holds(a.slot, a.domain)' /\ writer' # a.slot
      BY <1>3, <1>6, <2>1 DEF Holds
  <2>3. (Remaining(pool[a.slot].expire))' = Remaining(pool'[a.slot].expire)
      BY <1>3 DEF Remaining
  <2>4. Remaining(e) \in Int
      BY <1>4, BaseFacts, RemainingType
  <2> QED
      BY <1>4, <1>6, <2>1, <2>2, <2>3, <2>4, ClockFacts DEF AnswerOK
<1>8. /\ cached' \subseteq [domain : Domains, slot : Slots, left : 0 .. FAKEDNS_DNS_TTL]
      /\ \A a \in cached' : AnswerOK(a)'
  <2>1. Holds(x, d)' /\ writer' # x
      BY <1>2, <1>3, <1>6, SizeFacts DEF Holds
  <2>2. (Remaining(pool[x].expire))' > FAKEDNS_DNS_TTL
      BY <1>3, <1>4, <1>6 DEF Remaining
  <2> QED
      BY <1>1, <1>2, <1>7, <2>1, <2>2, AnswerFacts, BaseFacts DEF x
<1>9. \A t \in Threads, k \in 1 .. FAKEDNS_MRU_SIZE : ItemOK(mru[t][k])'
    BY <1>3, <1>6, BaseFacts DEF ItemOK
<1> QED
    BY <1>3, <1>6, <1>8, <1>9, BaseFacts DEF BaseInv, FakeDnsTypeOK, WriterOK

\* Overwriting begins: the slot has expired, so no client has an answer for it.
LEMMA OverwriteStep ==
    ASSUME BaseInv, NEW d \in Domains, LookupOverwrite(d)
    PROVE  BaseInv'
<1>1. PICK i \in Probes :
        /\ FirstExpired(d, i) /\ pool[Probe(d, i)].version < MaxVersion
        /\ pool' = [pool EXCEPT ![Probe(d, i)].domain = d, ![Probe(d, i)].expire = NewExpire]
        /\ writer' = Probe(d, i)
    BY DEF LookupOverwrite
<1> DEFINE x == Probe(d, i)
<1>2. /\ x \in Slots /\ pool[x] # NoEntry /\ Remaining(pool[x].expire) < 0
      /\ pool[x].version < MaxVersion
    BY <1>1, ProbeType, ProbesAreNat DEF FirstExpired, Expired
<1>3. pool' = [pool EXCEPT ![x].domain = d, ![x].expire = NewExpire] /\ writer' = x
    BY <1>1
<1> HIDE DEF x
<1>4. writer = Idle /\ UNCHANGED <<mru, now, cached>>
    BY DEF LookupOverwrite
<1>5. now \in Times /\ NewExpire \in Times /\ Remaining(NewExpire) = FAKEDNS_ENTRY_LIFETIME
    BY BaseFacts, NewLife
<1> DEFINE new == [[pool[x] EXCEPT !.domain = d] EXCEPT !.expire = NewExpire]
<1>6. pool[x] \in Entries /\ pool \in [Slots -> Entries \cup {NoEntry}]
    BY <1>2, BaseFacts
<1>7. /\ new \in Entries /\ new.expire = NewExpire /\ new.domain = d
      /\ new.version = pool[x].version
    BY <1>5, <1>6 DEF Entries
<1>8. pool' = [pool EXCEPT ![x] = new]
    BY <1>2, <1>3, <1>6
<1> HIDE DEF new
<1>9. /\ pool' \in [Slots -> Entries \cup {NoEntry}]
      /\ pool'[x] = new /\ pool'[x] # NoEntry
      /\ \A y \in Slots : y # x => pool'[y] = pool[y]
    BY <1>2, <1>6, <1>7, <1>8, EntryFacts
<1>10. WriterOK'
  <2>1. (Remaining(pool[x].expire))' = FAKEDNS_ENTRY_LIFETIME
      BY <1>4, <1>5, <1>7, <1>9 DEF Remaining
  <2> QED
      BY <1>2, <1>3, <1>7, <1>9, <2>1, ClockFacts DEF WriterOK
<1>11. \A a \in cached' : AnswerOK(a)'
  <2> SUFFICES ASSUME NEW a \in cached PROVE AnswerOK(a)'
      BY <1>4
  <2>1. /\ a.slot \in Slots /\ a.left \in 0 .. FAKEDNS_DNS_TTL
        /\ Holds(a.slot, a.domain) /\ Remaining(pool[a.slot].expire) > a.left
      BY BaseFacts DEF AnswerOK
  <2>2. Remaining(pool[x].expire) \in Int /\ FAKEDNS_DNS_TTL \in Nat
      BY <1>2, BaseFacts, RemainingType, ClockFacts
  <2>3. a.slot # x
      BY <1>2, <2>1, <2>2
  <2>4. pool'[a.slot] = pool[a.slot] /\ writer' # a.slot
      BY <1>3, <1>9, <2>1, <2>3
  <2> QED
      BY <1>4, <2>1, <2>4 DEF AnswerOK, Holds, Remaining
<1>12. \A t \in Threads, k \in 1 .. FAKEDNS_MRU_SIZE : ItemOK(mru[t][k])'
  <2> SUFFICES ASSUME NEW t \in Threads, NEW k \in 1 .. FAKEDNS_MRU_SIZE
               PROVE  ItemOK(mru[t][k])'
      OBVIOUS
  <2> DEFINE q == mru[t][k]
  <2>1. q.slot \in Slots /\ ItemOK(q) /\ q' = q
      BY <1>4, BaseFacts
  <2> HIDE DEF q
  <2>2. CASE q.slot = x
      BY <1>2, <1>3, <1>7, <1>9, <2>1, <2>2 DEF ItemOK, q
  <2>3. CASE q.slot # x
    <3>1. pool'[q.slot] = pool[q.slot] /\ writer # q.slot
        BY <1>4, <1>9, <2>1, <2>3, SizeFacts
    <3> QED
        BY <2>1, <3>1 DEF ItemOK, q
  <2> QED
      BY <2>2, <2>3
<1> QED
    BY <1>2, <1>3, <1>4, <1>9, <1>10, <1>11, <1>12, BaseFacts DEF BaseInv, FakeDnsTypeOK

\* Overwriting ends: the new version is one that no cache has.
LEMMA DoneStep ==
    ASSUME BaseInv, OverwriteDone
    PROVE  BaseInv'
<1>0. PICK x \in Slots : x = writer
    BY BaseFacts DEF OverwriteDone
<1>1. /\ pool[x] # NoEntry /\ pool[x].version < MaxVersion
      /\ Remaining(pool[x].expire) > FAKEDNS_DNS_TTL
    BY <1>0, SizeFacts DEF BaseInv, WriterOK
<1>a. PICK d \in Domains : d = pool[x].domain
    BY <1>1, BaseFacts
<1>2. writer' = Idle /\ UNCHANGED <<mru, now>> /\ Answer(d, x)
    BY <1>0, <1>a DEF OverwriteDone
<1>3. pool[x] \in Entries /\ pool \in [Slots -> Entries \cup {NoEntry}]
      /\ pool[x].version \in 1 .. MaxVersion
    BY <1>1, BaseFacts
<1> DEFINE new == [pool[x] EXCEPT !.version = pool[x].version + 1]
<1>4. pool[x].version + 1 \in 1 .. MaxVersion /\ pool[x].version \in Nat
    BY <1>1, <1>3, SizeFacts
<1>5. /\ new \in Entries /\ new.expire = pool[x].expire /\ new.domain = d
      /\ new.version = pool[x].version + 1
    BY <1>a, <1>3, <1>4 DEF Entries
<1>6. pool' = [pool EXCEPT ![x] = new]
    BY <1>0, <1>3 DEF OverwriteDone, NextVersion
<1> HIDE DEF new
<1>7. /\ pool' \in [Slots -> Entries \cup {NoEntry}]
      /\ pool'[x] = new /\ pool'[x] # NoEntry
      /\ \A y \in Slots : y # x => pool'[y] = pool[y]
    BY <1>1, <1>3, <1>5, <1>6, EntryFacts
<1>8. \A a \in cached : AnswerOK(a)'
  <2> SUFFICES ASSUME NEW a \in cached PROVE AnswerOK(a)'
      OBVIOUS
  <2>1. /\ a.slot \in Slots /\ a.slot # x
        /\ Holds(a.slot, a.domain) /\ Remaining(pool[a.slot].expire) > a.left
      BY <1>0, BaseFacts DEF AnswerOK
  <2>2. pool'[a.slot] = pool[a.slot] /\ writer' # a.slot
      BY <1>2, <1>7, <2>1, SizeFacts
  <2> QED
      BY <1>2, <2>1, <2>2 DEF AnswerOK, Holds, Remaining
<1>9. /\ cached' \subseteq [domain : Domains, slot : Slots, left : 0 .. FAKEDNS_DNS_TTL]
      /\ \A a \in cached' : AnswerOK(a)'
  <2>1. Holds(x, d)' /\ writer' # x
      BY <1>2, <1>5, <1>7, SizeFacts DEF Holds
  <2>2. (Remaining(pool[x].expire))' > FAKEDNS_DNS_TTL
      BY <1>1, <1>2, <1>5, <1>7 DEF Remaining
  <2> QED
      BY <1>2, <1>8, <2>1, <2>2, AnswerFacts, BaseFacts
<1>10. ASSUME NEW t \in Threads, NEW k \in 1 .. FAKEDNS_MRU_SIZE PROVE ItemOK(mru[t][k])'
  <2> DEFINE q == mru[t][k]
  <2>1. q.slot \in Slots /\ q.version \in Nat /\ ItemOK(q) /\ q' = q
      BY <1>2, BaseFacts
  <2> HIDE DEF q
  <2>2. CASE q.slot = x
    <3>1. q.valid => q.version <= pool[x].version
        BY <2>1, <2>2 DEF ItemOK
    <3>2. q.valid => q.version < pool'[x].version /\ pool'[x].version \in Nat
        BY <1>4, <1>5, <1>7, <2>1, <3>1
    <3> QED
        BY <1>7, <2>1, <2>2, <3>2 DEF ItemOK, q
  <2>3. CASE q.slot # x
    <3>1. pool'[q.slot] = pool[q.slot] /\ writer # q.slot
        BY <1>0, <1>7, <2>1, <2>3
    <3> QED
        BY <2>1, <3>1 DEF ItemOK, q
  <2> QED
      BY <2>2, <2>3
<1> QED
    BY <1>2, <1>7, <1>9, <1>10, BaseFacts DEF BaseInv, FakeDnsTypeOK, WriterOK

\* A new entry goes where no cache and no client has one.
LEMMA InsertStep ==
    ASSUME BaseInv, NEW d \in Domains, LookupInsert(d)
    PROVE  BaseInv'
<1> DEFINE new == [domain |-> d, expire |-> NewExpire, version |-> 1]
<1>1. PICK i \in Probes : /\ Empty(d, i)
                          /\ pool' = [pool EXCEPT ![Probe(d, i)] = new]
                          /\ Answer(d, Probe(d, i))
    BY DEF LookupInsert
<1>2. PICK x \in Slots : x = Probe(d, i)
    BY ProbeType, ProbesAreNat
<1>3. pool[x] = NoEntry /\ pool' = [pool EXCEPT ![x] = new] /\ Answer(d, x)
    BY <1>1, <1>2 DEF Empty
<1>4. writer = Idle /\ UNCHANGED <<writer, mru, now>>
    BY DEF LookupInsert
<1>5. NewExpire \in Times /\ Remaining(NewExpire) = FAKEDNS_ENTRY_LIFETIME
    BY BaseFacts, NewLife
<1>6. new \in Entries /\ new.expire = NewExpire /\ new.domain = d /\ new.version = 1
    BY <1>5, EntryFacts, SizeFacts
<1> HIDE DEF new
<1>7. /\ pool' \in [Slots -> Entries \cup {NoEntry}]
      /\ pool'[x] = new /\ pool'[x] # NoEntry
      /\ \A y \in Slots : y # x => pool'[y] = pool[y]
    BY <1>3, <1>6, EntryFacts, BaseFacts
<1>8. \A a \in cached : AnswerOK(a)'
  <2> SUFFICES ASSUME NEW a \in cached PROVE AnswerOK(a)'
      OBVIOUS
  <2>1. /\ a.slot \in Slots /\ writer # a.slot
        /\ Holds(a.slot, a.domain) /\ Remaining(pool[a.slot].expire) > a.left
      BY BaseFacts DEF AnswerOK
  <2>2. pool'[a.slot] = pool[a.slot]
      BY <1>3, <1>7, <2>1 DEF Holds
  <2> QED
      BY <1>4, <2>1, <2>2 DEF AnswerOK, Holds, Remaining
<1>9. /\ cached' \subseteq [domain : Domains, slot : Slots, left : 0 .. FAKEDNS_DNS_TTL]
      /\ \A a \in cached' : AnswerOK(a)'
  <2>1. Holds(x, d)' /\ writer' # x
      BY <1>4, <1>6, <1>7, SizeFacts DEF Holds
  <2>2. (Remaining(pool[x].expire))' = FAKEDNS_ENTRY_LIFETIME
      BY <1>4, <1>5, <1>6, <1>7 DEF Remaining
  <2> QED
      BY <1>3, <1>8, <2>1, <2>2, AnswerFacts, BaseFacts, ClockFacts
<1>10. \A t \in Threads, k \in 1 .. FAKEDNS_MRU_SIZE : ItemOK(mru[t][k])'
  <2> SUFFICES ASSUME NEW t \in Threads, NEW k \in 1 .. FAKEDNS_MRU_SIZE
               PROVE  ItemOK(mru[t][k])'
      OBVIOUS
  <2> DEFINE q == mru[t][k]
  <2>1. q.slot \in Slots /\ ItemOK(q) /\ q' = q
      BY <1>4, BaseFacts
  <2> HIDE DEF q
  <2>2. q.valid => pool'[q.slot] = pool[q.slot]
      BY <1>3, <1>7, <2>1 DEF ItemOK
  <2> QED
      BY <1>4, <2>1, <2>2 DEF ItemOK, q
<1> QED
    BY <1>4, <1>7, <1>9, <1>10, BaseFacts DEF BaseInv, FakeDnsTypeOK, WriterOK

\* A reverse lookup changes only the thread's own cache, and what it puts in
\* is what the slot holds.
LEMMA CacheStep ==
    ASSUME BaseInv, NEW t \in Threads,
           NEW c \in [1 .. FAKEDNS_MRU_SIZE -> {q \in Items : ItemOK(q)}],
           mru' = [mru EXCEPT ![t] = c], UNCHANGED <<pool, writer, now, cached>>
    PROVE  BaseInv'
<1>1. mru' \in [Threads -> [1 .. FAKEDNS_MRU_SIZE -> Items]]
    BY BaseFacts
<1>2. \A u \in Threads, k \in 1 .. FAKEDNS_MRU_SIZE : ItemOK(mru[u][k])'
  <2> SUFFICES ASSUME NEW u \in Threads, NEW k \in 1 .. FAKEDNS_MRU_SIZE
               PROVE  ItemOK(mru[u][k])'
      OBVIOUS
  <2>1. ItemOK(mru'[u][k])
      BY BaseFacts
  <2> QED
      BY <2>1 DEF ItemOK
<1>3. \A a \in cached' : AnswerOK(a)'
    BY DEF BaseInv, AnswerOK, Holds, Remaining
<1>4. WriterOK'
    BY DEF BaseInv, WriterOK, Remaining
<1> QED
    BY <1>1, <1>2, <1>3, <1>4, BaseFacts DEF BaseInv, FakeDnsTypeOK

LEMMA ReverseStep ==
    ASSUME BaseInv, NEW t \in Threads, NEW x \in Slots, Reverse(t, x)
    PROVE  BaseInv'
<1> DEFINE n == FAKEDNS_MRU_SIZE
           Good == {q \in Items : ItemOK(q)}
<1>1. mru[t] \in [1 .. n -> Good] /\ n \in Nat \ {0}
    BY BaseFacts, SizeFacts
<1>2. CASE ReverseFast(t, x)
  <2>1. PICK k \in 1 .. n : mru' = [mru EXCEPT ![t] = ToFront(mru[t], k)]
      BY <1>2, BaseFacts DEF ReverseFast
  <2>2. UNCHANGED <<pool, writer, now, cached>>
      BY <1>2 DEF ReverseFast
  <2>3. ToFront(mru[t], k) \in [1 .. n -> Good]
      BY <1>1, ToFrontFacts
  <2> QED
      BY <2>1, <2>2, <2>3, CacheStep
<1>3. CASE ReverseSlow(t, x)
  <2>1. writer = Idle /\ UNCHANGED <<pool, writer, now, cached>>
      BY <1>3 DEF ReverseSlow
  <2>2. Invalidated(t, x) \in [1 .. n -> Good]
    <3> SUFFICES ASSUME NEW k \in 1 .. n
                 PROVE  [mru[t][k] EXCEPT !.valid = @ /\ ~ MruAt(t, x, k)] \in Good
        BY DEF Invalidated
    <3> DEFINE b == mru[t][k].valid /\ ~ MruAt(t, x, k)
               q == [mru[t][k] EXCEPT !.valid = b]
    <3>1. mru[t][k] \in Items /\ ItemOK(mru[t][k])
        BY <1>1
    <3>2. b \in BOOLEAN /\ (b => mru[t][k].valid)
        OBVIOUS
    <3> HIDE DEF b
    <3>3. /\ q \in Items /\ q.valid = b /\ q.slot = mru[t][k].slot
          /\ q.version = mru[t][k].version /\ q.domain = mru[t][k].domain
        BY <3>1, <3>2 DEF Items
    <3> HIDE DEF q
    <3>4. ItemOK(q)
        BY <3>1, <3>2, <3>3 DEF ItemOK
    <3>5. q = [mru[t][k] EXCEPT !.valid = @ /\ ~ MruAt(t, x, k)]
        BY <3>1 DEF q, b
    <3> QED
        BY <3>3, <3>4, <3>5
  <2>3. CASE pool[x] = NoEntry
    <3>1. mru' = [mru EXCEPT ![t] = Invalidated(t, x)]
        BY <1>3, <2>3 DEF ReverseSlow
    <3> QED
        BY <2>1, <2>2, <3>1, CacheStep
  <2>4. CASE pool[x] # NoEntry
    <3> DEFINE q == [slot |-> x, version |-> pool[x].version,
                     domain |-> pool[x].domain, valid |-> TRUE]
    <3>1. mru' = [mru EXCEPT ![t] = <<q>> \o SubSeq(Invalidated(t, x), 1, n - 1)]
        BY <1>3, <2>4 DEF ReverseSlow
    <3>2. pool[x].version \in 1 .. MaxVersion /\ pool[x].domain \in Domains
        BY <2>4, BaseFacts
    <3>a. pool[x].version \in 0 .. MaxVersion /\ pool[x].domain \in Domains \cup {"none"}
        BY <3>2, SizeFacts
    <3>3. q \in Items
        BY <3>a DEF Items
    <3>4. ItemOK(q)
        BY <2>4, <3>2 DEF ItemOK
    <3> HIDE DEF q
    <3>5. <<q>> \o SubSeq(Invalidated(t, x), 1, n - 1) \in [1 .. n -> Good]
        BY <1>1, <2>2, <3>3, <3>4, ReplaceLastFacts
    <3> QED
        BY <2>1, <3>1, <3>5, CacheStep
  <2> QED
      BY <2>3, <2>4
<1> QED
    BY <1>2, <1>3 DEF Reverse

\* The entries and the answers grow older together.
LEMMA TickStep ==
    ASSUME BaseInv, Tick
    PROVE  BaseInv'
<1>1. writer = Idle /\ now' = (now + 1) % TimeMod /\ UNCHANGED <<pool, writer, mru>>
      /\ cached' = {[a EXCEPT !.left = @ - 1] : a \in {b \in cached : b.left > 0}}
    BY DEF Tick
<1>2. now' \in Times
  <2>1. now + 1 \in Int /\ TimeMod \in Nat \ {0}
      BY BaseFacts, ClockFacts DEF Times
  <2> QED
      BY <1>1, <2>1, ModFacts DEF Times
<1>3. ASSUME NEW c \in cached'
      PROVE  c \in [domain : Domains, slot : Slots, left : 0 .. FAKEDNS_DNS_TTL] /\ AnswerOK(c)'
  <2>1. PICK a \in cached : a.left > 0 /\ c = [a EXCEPT !.left = a.left - 1]
      BY <1>1, <1>3
  <2>2. /\ a \in [domain : Domains, slot : Slots, left : 0 .. FAKEDNS_DNS_TTL]
        /\ a.slot \in Slots /\ a.left \in 0 .. FAKEDNS_DNS_TTL /\ AnswerOK(a)
      BY BaseFacts
  <2>3. a.left - 1 \in 0 .. FAKEDNS_DNS_TTL /\ a.left \in Nat
      BY <2>1, <2>2, ClockFacts
  <2>4. /\ c \in [domain : Domains, slot : Slots, left : 0 .. FAKEDNS_DNS_TTL]
        /\ c.slot = a.slot /\ c.domain = a.domain /\ c.left = a.left - 1
      BY <2>1, <2>2, <2>3
  <2>5. /\ pool[a.slot] # NoEntry /\ pool[a.slot].domain = a.domain /\ writer # a.slot
        /\ Remaining(pool[a.slot].expire) > a.left
      BY <2>2 DEF AnswerOK, Holds
  <2> DEFINE e == pool[a.slot].expire
  <2>6. e \in Times /\ now \in Times /\ Remaining(e) \in Int /\ e' = e
      BY <1>1, <2>2, <2>5, BaseFacts, RemainingType
  <2>7. PICK f \in Times : f = e
      BY <2>6
  <2>8. Remaining(f)' = Remaining(f) - 1
      BY <1>1, <2>1, <2>3, <2>5, <2>6, <2>7, TickLife
  <2>9. (Remaining(pool[a.slot].expire))' = Remaining(f)'
      BY <1>1, <2>7 DEF Remaining
  <2>10. (Remaining(pool[a.slot].expire))' > a.left - 1
      BY <2>3, <2>5, <2>6, <2>7, <2>8, <2>9
  <2> QED
      BY <1>1, <2>4, <2>5, <2>10 DEF AnswerOK, Holds
<1>4. \A t \in Threads, k \in 1 .. FAKEDNS_MRU_SIZE : ItemOK(mru[t][k])'
    BY <1>1, BaseFacts DEF ItemOK
<1> QED
    BY <1>1, <1>2, <1>3, <1>4, BaseFacts DEF BaseInv, FakeDnsTypeOK, WriterOK

LEMMA BaseInit == Init => BaseInv
<1> SUFFICES ASSUME Init PROVE BaseInv
    OBVIOUS
<1>1. NoItem \in Items /\ NoItem.valid = FALSE
    BY SizeFacts DEF NoItem, Items, Slots
<1>2. mru \in [Threads -> [1 .. FAKEDNS_MRU_SIZE -> Items]]
    BY <1>1 DEF Init, EmptyMru
<1>3. \A t \in Threads, k \in 1 .. FAKEDNS_MRU_SIZE : ItemOK(mru[t][k])
    BY <1>1 DEF Init, EmptyMru, ItemOK
<1>4. pool \in [Slots -> Entries \cup {NoEntry}]
  <2>1. NewExpire \in Times /\ 1 \in 1 .. MaxVersion
      BY NewLife, SizeFacts DEF Init
  <2>2. \A slot \in Slots : Loadable(slot) \subseteq Entries \cup {NoEntry}
      BY <2>1, EntryFacts DEF Loadable
  <2>3. \E S : pool \in [Slots -> S] /\ \A slot \in Slots : pool[slot] \in Loadable(slot)
      BY DEF Init
  <2> QED
      BY <2>2, <2>3
<1> QED
    BY <1>2, <1>3, <1>4, SizeFacts DEF Init, BaseInv, FakeDnsTypeOK, WriterOK

LEMMA BaseNext == BaseInv /\ Next => BaseInv'
<1> SUFFICES ASSUME BaseInv, Next PROVE BaseInv'
    OBVIOUS
<1>1. CASE \E d \in Domains : Query(d)
  <2>1. PICK d \in Domains : Query(d)
      BY <1>1
  <2>2. CASE LookupFound(d)
      BY <2>2, FoundStep
  <2>3. CASE LookupOverwrite(d)
      BY <2>3, OverwriteStep
  <2>4. CASE LookupInsert(d)
      BY <2>4, InsertStep
  <2>5. CASE LookupRefused(d)
      BY <2>5 DEF LookupRefused, vars, BaseInv, FakeDnsTypeOK, WriterOK, ItemOK, AnswerOK,
                  Holds, Remaining
  <2> QED
      BY <2>1, <2>2, <2>3, <2>4, <2>5 DEF Query
<1>2. CASE OverwriteDone
    BY <1>2, DoneStep
<1>3. CASE \E t \in Threads, slot \in Slots : Reverse(t, slot)
    BY <1>3, ReverseStep
<1>4. CASE Tick
    BY <1>4, TickStep
<1> QED
    BY <1>1, <1>2, <1>3, <1>4 DEF Next

LEMMA BaseStutter == BaseInv /\ UNCHANGED vars => BaseInv'
    BY DEF vars, BaseInv, FakeDnsTypeOK, WriterOK, ItemOK, AnswerOK, Holds, Remaining

LEMMA BaseInvariant == Spec => []BaseInv
    BY BaseInit, BaseNext, BaseStutter, PTL DEF Spec

\* What BaseInv is for.
LEMMA BaseMru == BaseInv => MruIsCurrent
<1> SUFFICES ASSUME BaseInv, NEW t \in Threads, NEW x \in Slots, NEW d \in Domains,
                    MruHit(t, x, d), writer # x
             PROVE  Holds(x, d)
    BY DEF MruIsCurrent, BaseInv
<1>1. PICK k \in 1 .. FAKEDNS_MRU_SIZE :
         MruAt(t, x, k) /\ MruCurrent(t, k) /\ mru[t][k].domain = d
    BY DEF MruHit
<1> QED
    BY <1>1, BaseFacts DEF MruAt, MruCurrent, ItemOK, Holds

LEMMA BaseAnswers == BaseInv => FreshAnswerResolves
<1> SUFFICES ASSUME BaseInv, NEW a \in cached, NEW t \in Threads
             PROVE  \/ Resolves(t, a.slot, a.domain)
                    \/ MruMiss(t, a.slot) /\ writer # Idle /\ Holds(a.slot, a.domain)
    BY DEF FreshAnswerResolves
<1>1. a.slot \in Slots /\ Holds(a.slot, a.domain) /\ writer # a.slot
    BY BaseFacts DEF AnswerOK
<1>2. CASE MruMiss(t, a.slot)
    BY <1>1, <1>2 DEF Resolves
<1>3. CASE ~ MruMiss(t, a.slot)
  <2>1. PICK k \in 1 .. FAKEDNS_MRU_SIZE : MruAt(t, a.slot, k) /\ MruCurrent(t, k)
      BY <1>3 DEF MruMiss
  <2>2. mru[t][k].domain = a.domain
      BY <1>1, <2>1, BaseFacts DEF MruAt, MruCurrent, ItemOK, Holds
  <2> QED
      BY <2>1, <2>2 DEF Resolves, MruHit
<1> QED
    BY <1>2, <1>3

\* The version check of the lock-free fast path is enough: outside of the
\* overwriting of its slot, a cache never resolves an address to anything but
\* what the slot holds.
THEOREM CachesAreCurrent == Spec => []MruIsCurrent
    BY BaseInvariant, BaseMru, PTL

\* As long as a client may use an answer, every event loop resolves its address
\* to the domain that was asked for: the entry outlives every answer, also over
\* the wrap of the clock, and is not overwritten before.
THEOREM AnswersResolve == Spec => []FreshAnswerResolves
    BY BaseInvariant, BaseAnswers, PTL

-----------------------------------------------------------------------------
(* The probe chains.                                                       *)

\* All probes before one of a chain are slots.
LEMMA EarlierProbes ==
    ASSUME NEW d \in Domains, NEW i \in Probes
    PROVE  /\ Probe(d, i) \in Slots
           /\ \A j \in 0 .. i - 1 : Probe(d, j) \in Slots /\ j \in Probes
<1>1. i \in Nat /\ i < g_max_probes /\ g_max_probes \in Nat
    BY FakeDnsAssumption DEF Probes, g_max_probes
<1>2. \A j \in 0 .. i - 1 : j \in Nat /\ j \in Probes
    BY <1>1 DEF Probes
<1> QED
    BY <1>1, <1>2, ProbeType

\* A domain has no second address when every slot that holds it is the one that its
\* scan comes to.
LEMMA OneAddressNext ==
    ASSUME NEW d \in Domains,
           \A y, z \in Slots : pool'[y] # NoEntry /\ pool'[y].domain = d
                               /\ pool'[z] # NoEntry /\ pool'[z].domain = d => y = z,
           \A y \in Slots : pool'[y] # NoEntry /\ pool'[y].domain = d
                            => \E i \in Probes : Probe(d, i) = y /\ Reached(d, i)'
    PROVE  OneAddress(d)'
<1>1. \A y \in Slots : Holds(y, d)' <=> (pool'[y] # NoEntry /\ pool'[y].domain = d)
    BY DEF Holds
<1>2. ASSUME NEW y \in Slots, pool'[y] # NoEntry, pool'[y].domain = d
      PROVE  \E i \in Probes : Found(d, i)' /\ (Probe(d, i) = y)'
  <2>1. PICK i \in Probes : Probe(d, i) = y /\ Reached(d, i)'
      BY <1>2
  <2>2. Holds(Probe(d, i), d)'
      BY <1>2, <2>1 DEF Holds, Probe
  <2>3. Found(d, i)' /\ (Probe(d, i) = y)'
      BY <2>1, <2>2 DEF Found, Probe
  <2> QED
      BY <2>3
<1> QED
    BY <1>1, <1>2 DEF OneAddress

\* What OneAddress says of the slots; a scan that finds nothing means that none of
\* them holds the domain.
LEMMA OneAddressFacts ==
    ASSUME NEW d \in Domains, OneAddress(d)
    PROVE  /\ \A y, z \in Slots : pool[y] # NoEntry /\ pool[y].domain = d
                                  /\ pool[z] # NoEntry /\ pool[z].domain = d => y = z
           /\ \A y \in Slots : pool[y] # NoEntry /\ pool[y].domain = d
                               => \E i \in Probes : Probe(d, i) = y /\ Reached(d, i)
           /\ NotFound(d) => \A y \in Slots : pool[y] # NoEntry => pool[y].domain # d
    BY DEF OneAddress, Holds, Found, NotFound

\* The scan for a domain comes as far as it did when the slots before hold what they
\* held or an entry of another domain.
LEMMA StillReached ==
    ASSUME NEW d \in Domains, NEW i \in Probes, Reached(d, i),
           \A j \in 0 .. i - 1 :
               pool[Probe(d, j)] # NoEntry /\ pool[Probe(d, j)].domain # d
               => pool'[Probe(d, j)] # NoEntry /\ pool'[Probe(d, j)].domain # d
    PROVE  Reached(d, i)'
<1>1. \A j \in 0 .. i - 1 : pool[Probe(d, j)] # NoEntry /\ pool[Probe(d, j)].domain # d
    BY DEF Reached, Holds
<1>2. \A j \in 0 .. i - 1 : pool'[Probe(d, j)] # NoEntry /\ pool'[Probe(d, j)].domain # d
    BY <1>1
<1> QED
    BY <1>2 DEF Reached, Holds, Probe

\* As long as the slots keep their domains the chains are as they were.
LEMMA SameDomains ==
    ASSUME NEW a \in Domains, OneAddress(a),
           \A y \in Slots : /\ pool'[y] = NoEntry <=> pool[y] = NoEntry
                            /\ pool[y] # NoEntry => pool'[y].domain = pool[y].domain
    PROVE  OneAddress(a)'
<1>1. \A y, z \in Slots : pool'[y] # NoEntry /\ pool'[y].domain = a
                          /\ pool'[z] # NoEntry /\ pool'[z].domain = a => y = z
    BY OneAddressFacts
<1>2. ASSUME NEW y \in Slots, pool'[y] # NoEntry, pool'[y].domain = a
      PROVE  \E i \in Probes : Probe(a, i) = y /\ Reached(a, i)'
  <2>1. PICK i \in Probes : Probe(a, i) = y /\ Reached(a, i)
      BY <1>2, OneAddressFacts
  <2>2. \A j \in 0 .. i - 1 : Probe(a, j) \in Slots
      BY EarlierProbes
  <2>3. Reached(a, i)'
      BY <2>1, <2>2, StillReached
  <2> QED
      BY <2>1, <2>3
<1> QED
    BY <1>1, <1>2, OneAddressNext

\* A domain that the scan has not found gets the slot x, which the scan comes to for
\* the first time and finds from then on.  The scans for the others pass through x as
\* before.
LEMMA NewDomain ==
    ASSUME NEW a \in Domains, OneAddress(a),
           NEW d \in Domains, NotFound(d),
           NEW i \in Probes, NEW x \in Slots, x = Probe(d, i), Reached(d, i),
           \A j \in 0 .. i - 1 : Probe(d, j) # x,
           pool'[x] # NoEntry, pool'[x].domain = d,
           \A y \in Slots : y # x => pool'[y] = pool[y]
    PROVE  OneAddress(a)'
<1>1. CASE a = d
  <2>1. \A y \in Slots : pool[y] # NoEntry => pool[y].domain # a
      BY <1>1, OneAddressFacts
  <2>2. \A y \in Slots : pool'[y] # NoEntry /\ pool'[y].domain = a => y = x
      BY <2>1
  <2>3. \A j \in 0 .. i - 1 : Probe(a, j) \in Slots
      BY EarlierProbes
  <2>4. Reached(a, i)'
      BY <1>1, <2>3, StillReached
  <2>5. \A y \in Slots : pool'[y] # NoEntry /\ pool'[y].domain = a
                         => \E k \in Probes : Probe(a, k) = y /\ Reached(a, k)'
      BY <1>1, <2>2, <2>4
  <2> QED
      BY <2>2, <2>5, OneAddressNext
<1>2. CASE a # d
  <2>1. \A y \in Slots : pool'[y] # NoEntry /\ pool'[y].domain = a
                         => y # x /\ pool[y] # NoEntry /\ pool[y].domain = a
      BY <1>2
  <2>2. \A y, z \in Slots : pool'[y] # NoEntry /\ pool'[y].domain = a
                            /\ pool'[z] # NoEntry /\ pool'[z].domain = a => y = z
      BY <2>1, OneAddressFacts
  <2>3. ASSUME NEW y \in Slots, pool'[y] # NoEntry, pool'[y].domain = a
        PROVE  \E k \in Probes : Probe(a, k) = y /\ Reached(a, k)'
    <3>1. PICK k \in Probes : Probe(a, k) = y /\ Reached(a, k)
        BY <2>1, <2>3, OneAddressFacts
    <3>2. \A j \in 0 .. k - 1 : Probe(a, j) \in Slots
        BY EarlierProbes
    <3>3. \A z \in Slots : pool[z] # NoEntry /\ pool[z].domain # a
                           => pool'[z] # NoEntry /\ pool'[z].domain # a
        BY <1>2
    <3>4. Reached(a, k)'
        BY <3>1, <3>2, <3>3, StillReached
    <3> QED
        BY <3>1, <3>4
  <2> QED
      BY <2>2, <2>3, OneAddressNext
<1> QED
    BY <1>1, <1>2

LEMMA OneAddressStep ==
    ASSUME BaseInv, BaseInv', [Next]_vars, NEW a \in Domains, OneAddress(a)
    PROVE  OneAddress(a)'
<1>0. pool \in [Slots -> Entries \cup {NoEntry}] /\ pool' \in [Slots -> Entries \cup {NoEntry}]
    BY DEF BaseInv, FakeDnsTypeOK
<1>1. CASE UNCHANGED pool
    BY <1>1, SameDomains
<1>2. ASSUME NEW d \in Domains, LookupFound(d) PROVE OneAddress(a)'
  <2>1. PICK i \in Probes : pool' = [pool EXCEPT ![Probe(d, i)].expire = RefreshedExpire(@)]
                            /\ Holds(Probe(d, i), d)
      BY <1>2 DEF LookupFound, Found
  <2>2. PICK x \in Slots : x = Probe(d, i)
      BY EarlierProbes
  <2>3. pool[x] \in Entries
      BY <1>0, <2>1, <2>2 DEF Holds
  <2>4. PICK e : e = RefreshedExpire(pool[x].expire)
      OBVIOUS
  <2>5. pool' = [pool EXCEPT ![x] = [pool[x] EXCEPT !.expire = e]]
      BY <1>0, <2>1, <2>2, <2>4
  <2>6. pool'[x] = [pool[x] EXCEPT !.expire = e] /\ \A y \in Slots : y # x => pool'[y] = pool[y]
      BY <1>0, <2>2, <2>5
  <2>7. pool'[x].domain = pool[x].domain /\ pool'[x].version = pool[x].version
      BY <2>3, <2>6 DEF Entries
  <2>8. pool[x] # NoEntry /\ pool'[x] # NoEntry
      BY <2>3, <2>7, EntryFacts, SizeFacts DEF NoEntry
  <2> QED
      BY <2>6, <2>7, <2>8, SameDomains
<1>3. ASSUME NEW d \in Domains, LookupOverwrite(d) PROVE OneAddress(a)'
  <2>1. PICK i \in Probes :
          /\ FirstExpired(d, i)
          /\ pool' = [pool EXCEPT ![Probe(d, i)].domain = d, ![Probe(d, i)].expire = NewExpire]
      BY <1>3 DEF LookupOverwrite
  <2>2. PICK x \in Slots : x = Probe(d, i)
      BY EarlierProbes
  <2>3. Reached(d, i) /\ pool[x] # NoEntry /\ Remaining(pool[x].expire) < 0
      BY <2>1, <2>2 DEF FirstExpired, Expired
  <2>4. pool[x] \in Entries
      BY <1>0, <2>3
  <2>5. ASSUME NEW j \in 0 .. i - 1 PROVE Probe(d, j) # x
    <3>1. Reached(d, j)
      <4>1. 0 .. j - 1 \subseteq 0 .. i - 1
          BY ProbesAreNat
      <4> QED
          BY <2>3, <4>1 DEF Reached
    <3> QED
        BY <2>1, <2>3, <3>1 DEF FirstExpired, Expired
  <2>6. pool' = [pool EXCEPT ![x] = [[pool[x] EXCEPT !.domain = d] EXCEPT !.expire = NewExpire]]
      BY <1>0, <2>1, <2>2
  <2>7. /\ pool'[x] = [[pool[x] EXCEPT !.domain = d] EXCEPT !.expire = NewExpire]
        /\ \A y \in Slots : y # x => pool'[y] = pool[y]
      BY <1>0, <2>6
  <2>8. pool'[x].domain = d /\ pool'[x].version = pool[x].version
      BY <2>4, <2>7 DEF Entries
  <2>9. pool'[x] # NoEntry
      BY <2>4, <2>8, EntryFacts, SizeFacts DEF NoEntry
  <2>10. NotFound(d)
      BY <1>3 DEF LookupOverwrite
  <2> QED
      BY <2>2, <2>3, <2>5, <2>7, <2>8, <2>9, <2>10, NewDomain
<1>4. ASSUME NEW d \in Domains, LookupInsert(d) PROVE OneAddress(a)'
  <2> DEFINE new == [domain |-> d, expire |-> NewExpire, version |-> 1]
  <2>1. PICK i \in Probes : Empty(d, i) /\ pool' = [pool EXCEPT ![Probe(d, i)] = new]
      BY <1>4 DEF LookupInsert
  <2>2. PICK x \in Slots : x = Probe(d, i)
      BY EarlierProbes
  <2>3. Reached(d, i) /\ pool[x] = NoEntry
      BY <2>1, <2>2 DEF Empty
  <2>4. \A j \in 0 .. i - 1 : Probe(d, j) # x
      BY <2>3 DEF Reached
  <2>5. new.domain = d /\ new.version = 1 /\ NoEntry.version = 0
      BY DEF NoEntry
  <2> HIDE DEF new
  <2>6. pool'[x] = new /\ \A y \in Slots : y # x => pool'[y] = pool[y]
      BY <1>0, <2>1, <2>2
  <2>7. pool'[x] # NoEntry /\ pool'[x].domain = d
      BY <2>5, <2>6
  <2>8. NotFound(d)
      BY <1>4 DEF LookupInsert
  <2> QED
      BY <2>2, <2>3, <2>4, <2>6, <2>7, <2>8, NewDomain
<1>5. CASE OverwriteDone
  <2>1. PICK x \in Slots : x = writer
      BY <1>5, BaseFacts DEF OverwriteDone
  <2>2. pool[x] \in Entries
      BY <1>0, <2>1, SizeFacts DEF BaseInv, WriterOK
  <2>3. pool' = [pool EXCEPT ![x] = [pool[x] EXCEPT !.version = pool[x].version + 1]]
      BY <1>0, <1>5, <2>1 DEF OverwriteDone, NextVersion
  <2>4. /\ pool'[x] = [pool[x] EXCEPT !.version = pool[x].version + 1]
        /\ \A y \in Slots : y # x => pool'[y] = pool[y]
      BY <1>0, <2>3
  <2>5. pool'[x].domain = pool[x].domain /\ pool'[x].version = pool[x].version + 1
      BY <2>2, <2>4 DEF Entries
  <2>6. pool[x] # NoEntry /\ pool'[x] # NoEntry
      BY <2>2, <2>5, EntryFacts, SizeFacts DEF NoEntry
  <2> QED
      BY <2>4, <2>5, <2>6, SameDomains
<1>6. ASSUME NEW t \in Threads, NEW x \in Slots, Reverse(t, x) PROVE UNCHANGED pool
    BY <1>6 DEF Reverse, ReverseFast, ReverseSlow
<1>7. ASSUME NEW d \in Domains, LookupRefused(d) PROVE UNCHANGED pool
    BY <1>7 DEF LookupRefused, vars
<1>8. CASE Tick \/ UNCHANGED vars
    BY <1>1, <1>8 DEF Tick, vars
<1> QED
    BY <1>1, <1>2, <1>3, <1>4, <1>5, <1>6, <1>7, <1>8 DEF Next, Query

\* "Single-writer design": the scan of fakedns_lookup_domain, which looks at no
\* slot twice and no further than the first empty one, never gives a second address
\* to a domain that has none or one that its scan comes to: no slot is ever emptied,
\* and what is written into one keeps every scan that passes through it.  The pool
\* may be any that fakedns_load makes; of a domain that was loaded behind a gap, or
\* into two slots, nothing is said.
THEOREM AddressesAreUnique == Spec => OneAddressPerDomain
<1>1. BaseInv /\ BaseInv' /\ [Next]_vars
          => [\A d \in Domains : OneAddress(d) => OneAddress(d)']_vars
    BY OneAddressStep
<1> QED
    BY <1>1, BaseInvariant, PTL DEF Spec, OneAddressPerDomain

-----------------------------------------------------------------------------
(* The file of the saved pool.                                             *)

\* A file is what the four fields say.
Shape(f) == f = [exists |-> f.exists, saved |-> f.saved, whole |-> f.whole, safe |-> f.safe]

\* A file that no power failure can tear.
Durable(f) == Shape(f) /\ f.safe = TRUE /\ (f.exists = TRUE => f.whole = TRUE)

\* The temporary file is complete before it is flushed, and flushed before it
\* takes the place of the old one, which a power failure may bring back.
DiskInv ==
    /\ \A f \in {file} \cup behind : Durable(f)
    /\ Shape(tmp)
    /\ up = "written" => tmp.whole = TRUE
    /\ up = "synced" => tmp.whole = TRUE /\ tmp.safe = TRUE

LEMMA NoFileFacts == Shape(NoFile) /\ NoFile.safe = TRUE /\ NoFile.exists = FALSE
    BY DEF NoFile, Shape

LEMMA PowerLossFacts ==
    ASSUME NEW f, Shape(f)
    PROVE  Shape(AfterPowerLoss(f)) /\ (f.safe = TRUE => AfterPowerLoss(f) = f)
<1>1. PICK a, b, c, d : f = [exists |-> a, saved |-> b, whole |-> c, safe |-> d]
    BY DEF Shape
<1> QED
    BY <1>1 DEF Shape, AfterPowerLoss

\* After a power failure the file is one that was there before, as it was.
LEMMA PowerFailureFacts ==
    ASSUME DiskInv, NEW f \in {file} \cup behind, PowerFailure(f)
    PROVE  file' = f /\ Durable(f) /\ Shape(tmp)' /\ behind' = {}
<1>1. Durable(f) /\ Shape(file) /\ Shape(tmp)
    BY DEF DiskInv, Durable
<1>2. file' = f
    BY <1>1, PowerLossFacts DEF PowerFailure, Durable
<1>3. tmp' = AfterPowerLoss(tmp) \/ tmp' = AfterPowerLoss(file)
    BY DEF PowerFailure
<1>4. Shape(tmp')
    BY <1>1, <1>3, PowerLossFacts
<1> QED
    BY <1>1, <1>2, <1>4 DEF PowerFailure, Shape

LEMMA DiskNext == DiskInv /\ [PersistNext]_persistVars => DiskInv'
<1> SUFFICES ASSUME DiskInv, [PersistNext]_persistVars PROVE DiskInv'
    OBVIOUS
<1>1. PICK a, b, c, d : tmp = [exists |-> a, saved |-> b, whole |-> c, safe |-> d]
    BY DEF DiskInv, Shape
<1>2. CASE UNCHANGED <<up, disk>>
    BY <1>2 DEF DiskInv, Durable, Shape, disk
<1>3. CASE SaveBegin
  <2>1. UNCHANGED <<file, behind>> /\ up' \in {"down", "writing"}
      BY <1>3 DEF SaveBegin, Ended
  <2>2. Shape(tmp)'
      BY <1>3 DEF SaveBegin, DiskInv, Shape
  <2> QED
      BY <2>1, <2>2 DEF DiskInv, Durable, Shape
<1>4. CASE SaveEntries
  <2>1. UNCHANGED <<file, behind>> /\ up' = "written"
      BY <1>4 DEF SaveEntries
  <2>2. PICK g : tmp' = [tmp EXCEPT !.saved = g, !.whole = TRUE]
      BY <1>4 DEF SaveEntries
  <2>3. tmp' = [exists |-> a, saved |-> g, whole |-> TRUE, safe |-> d]
      BY <1>1, <2>2
  <2>4. Shape(tmp)' /\ tmp'.whole = TRUE
      BY <2>3 DEF Shape
  <2> QED
      BY <2>1, <2>4 DEF DiskInv, Durable, Shape
<1>5. CASE SaveSync
  <2>1. /\ UNCHANGED <<file, behind>> /\ up = "written" /\ up' = "synced"
        /\ tmp' = [tmp EXCEPT !.safe = TRUE]
      BY <1>5 DEF SaveSync
  <2>2. tmp' = [exists |-> a, saved |-> b, whole |-> c, safe |-> TRUE] /\ c = TRUE
      BY <1>1, <2>1 DEF DiskInv
  <2>3. Shape(tmp)' /\ tmp'.whole = TRUE /\ tmp'.safe = TRUE
      BY <2>2 DEF Shape
  <2> QED
      BY <2>1, <2>3 DEF DiskInv, Durable, Shape
<1>6. CASE SaveRename
  <2>1. /\ up = "synced" /\ file' = tmp /\ tmp' = NoFile /\ up' = "down"
        /\ behind' = behind \cup {file}
      BY <1>6 DEF SaveRename, Ended
  <2>2. Durable(tmp)
      BY <2>1 DEF DiskInv, Durable
  <2>3. \A f \in {file'} \cup behind' : Durable(f)
      BY <2>1, <2>2 DEF DiskInv
  <2> QED
      BY <2>1, <2>3, NoFileFacts DEF DiskInv, Durable, Shape
<1>7. CASE SaveFails
  <2>1. UNCHANGED <<file, behind>> /\ tmp' = NoFile /\ up' = "down"
      BY <1>7 DEF SaveFails, Ended
  <2> QED
      BY <2>1, NoFileFacts DEF DiskInv, Durable, Shape
<1>8. CASE Crash \/ PowerLoss
  <2>1. up' = "down" /\ (UNCHANGED disk \/ \E f \in {file} \cup behind : PowerFailure(f))
      BY <1>8 DEF Crash, PowerLoss, Ended
  <2>2. CASE UNCHANGED disk
      BY <2>1, <2>2 DEF DiskInv, Durable, Shape, disk
  <2>3. CASE \E f \in {file} \cup behind : PowerFailure(f)
    <3>1. PICK f \in {file} \cup behind : PowerFailure(f)
        BY <2>3
    <3>2. file' = f /\ Durable(f) /\ Shape(tmp)' /\ behind' = {}
        BY <3>1, PowerFailureFacts
    <3> QED
        BY <2>1, <3>2 DEF DiskInv, Durable, Shape
  <2> QED
      BY <2>1, <2>2, <2>3
<1>9. CASE Start \/ StartWithoutFile
  <2>1. up' = "up" /\ UNCHANGED <<file, tmp, behind>>
      BY <1>9 DEF Start, StartWithoutFile, disk
  <2> QED
      BY <2>1 DEF DiskInv, Durable, Shape
<1>10. CASE DirectorySynced
  <2>1. UNCHANGED <<up, file, tmp>> /\ behind' = {}
      BY <1>10 DEF DirectorySynced
  <2> QED
      BY <2>1 DEF DiskInv, Durable, Shape
<1>11. Running \/ Down \/ UNCHANGED persistVars => UNCHANGED <<up, disk>>
    BY DEF Running, Down, persistVars
<1> QED
    BY <1>2, <1>3, <1>4, <1>5, <1>6, <1>7, <1>8, <1>9, <1>10, <1>11 DEF PersistNext

LEMMA DiskInvariant == PersistSpec => []DiskInv
<1>1. PersistInit => DiskInv
    BY NoFileFacts DEF PersistInit, DiskInv, Durable
<1> QED
    BY <1>1, DiskNext, PTL DEF PersistSpec

\* Whatever step of fakedns_save the process or the machine dies in, the file that
\* the next start reads is one that a save completed, or there is none: the last one
\* or, if the power failed before the rename was on the disk, the one before it.
THEOREM SavedFileIsWhole == PersistSpec => []FileIsWhole
<1>1. DiskInv => FileIsWhole
  <2> SUFFICES ASSUME DiskInv, file.exists PROVE file.whole /\ file.safe
      BY DEF FileIsWhole
  <2> QED
      BY DEF DiskInv, Durable
<1> QED
    BY <1>1, DiskInvariant, PTL

-----------------------------------------------------------------------------
(* Restarts.  fakedns_save compares times without the signed difference that *)
(* the lookups use, so what follows is for a clock that does not wrap.     *)

\* The proxy is used for less than half the period of the clock, and for the last
\* time a lifetime before the clock wraps.
NoWrap == /\ LastTime \in Nat /\ StartTime <= LastTime
          /\ LastTime < StartTime + (TimeMod \div 2)
          /\ LastTime + FAKEDNS_ENTRY_LIFETIME < TimeMod

SavedDomains == UNION {[S -> Domains] : S \in SUBSET Slots}
Files == [exists : BOOLEAN, saved : SavedDomains, whole : BOOLEAN, safe : BOOLEAN]

\* Time goes on from the start, and no entry expires before it.
TimeInv ==
    /\ now \in StartTime .. LastTime
    /\ \A x \in Slots : pool[x] # NoEntry => pool[x].expire >= StartTime

\* The process has ended; the file bears out what clients have been told.
DownInv ==
    /\ pool = [slot \in Slots |-> NoEntry] /\ writer = Idle /\ mru = EmptyMru
    /\ cached \subseteq [domain : Domains, slot : Slots, left : 0 .. FAKEDNS_DNS_TTL]
    /\ cached \subseteq Recorded(file)

RestartInv ==
    /\ DiskInv /\ TimeInv /\ file \in Files /\ tmp \in Files /\ behind \subseteq Files
    /\ up \in {"up", "writing", "written", "synced", "down"}
    /\ up # "down" => BaseInv
    /\ up = "down" => DownInv
    /\ up \in {"writing", "written", "synced"} => writer = Idle
    /\ up \in {"written", "synced"} => cached \subseteq Recorded(tmp)

\* An entry keeps its time or begins a new life.
LEMMA ExpireStep ==
    ASSUME BaseInv, Next, NEW y \in Slots, pool'[y] # NoEntry
    PROVE  \/ pool[y] # NoEntry /\ pool'[y].expire = pool[y].expire
           \/ pool'[y].expire = NewExpire
<1>0. pool \in [Slots -> Entries \cup {NoEntry}]
    BY BaseFacts
<1>1. CASE UNCHANGED pool
    BY <1>1
<1>2. ASSUME NEW d \in Domains, LookupFound(d)
      PROVE  \/ pool[y] # NoEntry /\ pool'[y].expire = pool[y].expire
             \/ pool'[y].expire = NewExpire
  <2>1. PICK i \in Probes : pool' = [pool EXCEPT ![Probe(d, i)].expire = RefreshedExpire(@)]
                            /\ Holds(Probe(d, i), d)
      BY <1>2 DEF LookupFound, Found
  <2>2. PICK x \in Slots : x = Probe(d, i)
      BY EarlierProbes
  <2>3. pool[x] \in Entries
      BY <1>0, <2>1, <2>2 DEF Holds
  <2>4. pool'[x] = [pool[x] EXCEPT !.expire = RefreshedExpire(pool[x].expire)]
        /\ \A z \in Slots : z # x => pool'[z] = pool[z]
      BY <1>0, <2>1, <2>2
  <2>5. pool'[x].expire = RefreshedExpire(pool[x].expire)
      BY <2>3, <2>4 DEF Entries
  <2>6. RefreshedExpire(pool[x].expire) \in {pool[x].expire, NewExpire}
      BY DEF RefreshedExpire
  <2> QED
      BY <2>3, <2>4, <2>5, <2>6, EntryFacts
<1>3. ASSUME NEW d \in Domains, LookupOverwrite(d)
      PROVE  \/ pool[y] # NoEntry /\ pool'[y].expire = pool[y].expire
             \/ pool'[y].expire = NewExpire
  <2>1. PICK i \in Probes :
          /\ FirstExpired(d, i)
          /\ pool' = [pool EXCEPT ![Probe(d, i)].domain = d, ![Probe(d, i)].expire = NewExpire]
      BY <1>3 DEF LookupOverwrite
  <2>2. PICK x \in Slots : x = Probe(d, i)
      BY EarlierProbes
  <2>3. pool[x] \in Entries
      BY <1>0, <2>1, <2>2 DEF FirstExpired, Expired
  <2>4. /\ pool'[x] = [[pool[x] EXCEPT !.domain = d] EXCEPT !.expire = NewExpire]
        /\ \A z \in Slots : z # x => pool'[z] = pool[z]
      BY <1>0, <2>1, <2>2
  <2>5. pool'[x].expire = NewExpire
      BY <2>3, <2>4 DEF Entries
  <2> QED
      BY <2>4, <2>5
<1>4. ASSUME NEW d \in Domains, LookupInsert(d)
      PROVE  \/ pool[y] # NoEntry /\ pool'[y].expire = pool[y].expire
             \/ pool'[y].expire = NewExpire
  <2> DEFINE new == [domain |-> d, expire |-> NewExpire, version |-> 1]
  <2>1. PICK i \in Probes : pool' = [pool EXCEPT ![Probe(d, i)] = new]
      BY <1>4 DEF LookupInsert
  <2>2. PICK x \in Slots : x = Probe(d, i)
      BY EarlierProbes
  <2>3. new.expire = NewExpire
      OBVIOUS
  <2> HIDE DEF new
  <2>4. pool'[x] = new /\ \A z \in Slots : z # x => pool'[z] = pool[z]
      BY <1>0, <2>1, <2>2
  <2> QED
      BY <2>3, <2>4
<1>5. CASE OverwriteDone
  <2>1. PICK x \in Slots : x = writer
      BY <1>5, BaseFacts DEF OverwriteDone
  <2>2. pool[x] \in Entries
      BY <1>0, <2>1, SizeFacts DEF BaseInv, WriterOK
  <2>3. /\ pool'[x] = [pool[x] EXCEPT !.version = pool[x].version + 1]
        /\ \A z \in Slots : z # x => pool'[z] = pool[z]
      BY <1>0, <1>5, <2>1 DEF OverwriteDone, NextVersion
  <2>4. pool'[x].expire = pool[x].expire
      BY <2>2, <2>3 DEF Entries
  <2> QED
      BY <2>2, <2>3, <2>4, EntryFacts
<1>6. ASSUME NEW t \in Threads, NEW x \in Slots, Reverse(t, x) PROVE UNCHANGED pool
    BY <1>6 DEF Reverse, ReverseFast, ReverseSlow
<1>7. ASSUME NEW d \in Domains, LookupRefused(d) PROVE UNCHANGED pool
    BY <1>7 DEF LookupRefused, vars
<1>8. CASE Tick
    BY <1>1, <1>8 DEF Tick
<1> QED
    BY <1>1, <1>2, <1>3, <1>4, <1>5, <1>6, <1>7, <1>8 DEF Next, Query

\* Without a wrap, times are compared as numbers.
LEMMA PlainTime ==
    ASSUME NoWrap, now \in StartTime .. LastTime
    PROVE  /\ now \in Times /\ NewExpire = now + FAKEDNS_ENTRY_LIFETIME
           /\ \A e \in Times : e >= StartTime /\ Remaining(e) > 0 => e > now
<1> DEFINE m == TimeMod
           h == TimeMod \div 2
           L == FAKEDNS_ENTRY_LIFETIME
<1>1. /\ m \in Nat \ {0} /\ h \in Nat /\ 2 * h = m /\ L \in Nat
      /\ StartTime \in Nat /\ LastTime \in Nat /\ now \in Nat /\ StartTime <= now /\ now <= LastTime
      /\ LastTime < StartTime + h /\ LastTime + L < m
    BY ClockFacts, SizeFacts DEF NoWrap, Times
<1> HIDE DEF h
<1>2. now \in Times
    BY <1>1 DEF Times
<1>3. NewExpire = now + L
  <2> DEFINE a == now + L
  <2>1. a \in Int /\ 0 <= a /\ a < m
      BY <1>1
  <2> HIDE DEF a
  <2>2. a % m = a
      BY <1>1, <2>1, ModFacts
  <2> QED
      BY <2>2 DEF NewExpire, a
<1>4. ASSUME NEW e \in Times, e >= StartTime, Remaining(e) > 0 PROVE e > now
  <2> SUFFICES ASSUME e <= now PROVE FALSE
      BY <1>1 DEF Times
  <2> DEFINE a == e - now
             r == a % m
  <2>1. a \in Int /\ 0 <= a + h /\ a <= 0 /\ a + h > 0 /\ 0 <= a + m
      BY <1>1, <1>4 DEF Times
  <2> HIDE DEF a
  <2>2. CASE a = 0
    <3>1. r = 0
        BY <1>1, <2>2, ModFacts
    <3> QED
        BY <1>1, <1>4, <3>1 DEF Remaining, a, h
  <2>3. CASE a < 0
    <3>1. r = a + m
        BY <1>1, <2>1, <2>3, ModFacts
    <3>2. ~ (r < h) /\ r - m < 0
        BY <1>1, <2>1, <2>3, <3>1
    <3>3. Remaining(e) = r - m
        BY <3>2 DEF Remaining, a, h
    <3> QED
        BY <1>1, <1>4, <2>1, <3>1, <3>2, <3>3
  <2> QED
      BY <2>1, <2>2, <2>3
<1> QED
    BY <1>2, <1>3, <1>4

LEMMA TimeNext ==
    ASSUME NoWrap, BaseInv, TimeInv, Next
    PROVE  TimeInv'
<1>1. /\ now \in StartTime .. LastTime /\ NewExpire = now + FAKEDNS_ENTRY_LIFETIME
      /\ StartTime \in Nat /\ LastTime \in Nat /\ FAKEDNS_ENTRY_LIFETIME \in Nat
    BY PlainTime, SizeFacts, ClockFacts DEF TimeInv, NoWrap, Times
<1>2. now' \in StartTime .. LastTime
  <2>1. CASE Tick
    <3>1. now' = (now + 1) % TimeMod /\ now # LastTime
        BY <2>1 DEF Tick
    <3> DEFINE a == now + 1
    <3>2. a \in Int /\ 0 <= a /\ a < TimeMod /\ a \in StartTime .. LastTime /\ TimeMod \in Nat \ {0}
        BY <1>1, <3>1, ClockFacts DEF NoWrap
    <3> HIDE DEF a
    <3>3. a % TimeMod = a
        BY <3>2, ModFacts
    <3> QED
        BY <3>1, <3>2, <3>3 DEF a
  <2>2. CASE ~ Tick
    <3>1. now' = now
        BY <2>2 DEF Next, Query, LookupFound, LookupOverwrite, LookupInsert, LookupRefused, vars,
                    OverwriteDone, Reverse, ReverseFast, ReverseSlow
    <3> QED
        BY <1>1, <3>1
  <2> QED
      BY <2>1, <2>2
<1>3. ASSUME NEW x \in Slots, pool'[x] # NoEntry PROVE pool'[x].expire >= StartTime
    BY <1>1, <1>3, ExpireStep DEF TimeInv
<1> QED
    BY <1>2, <1>3 DEF TimeInv

LEMMA FileFacts ==
    /\ NoFile \in Files
    /\ [exists |-> TRUE, saved |-> << >>, whole |-> FALSE, safe |-> FALSE] \in Files
    /\ \A f \in Files, x \in Slots : x \in DOMAIN f.saved => f.saved[x] \in Domains
<1>1. << >> \in SavedDomains
  <2>1. << >> \in [{} -> Domains] /\ {} \in SUBSET Slots
      OBVIOUS
  <2> QED
      BY <2>1 DEF SavedDomains
<1>2. \A g \in SavedDomains : \A x \in DOMAIN g : g[x] \in Domains
    BY DEF SavedDomains
<1> QED
    BY <1>1, <1>2 DEF NoFile, Files

LEMMA LostFile ==
    ASSUME NEW f \in Files
    PROVE  AfterPowerLoss(f) \in Files
BY DEF AfterPowerLoss, Files

LEMMA SyncedFile ==
    ASSUME NEW f \in Files
    PROVE  LET g == [f EXCEPT !.safe = TRUE]
           IN  g \in Files /\ g.saved = f.saved /\ g.whole = f.whole
BY DEF Files

LEMMA WrittenFile ==
    ASSUME NEW f \in Files, NEW g \in SavedDomains
    PROVE  LET h == [f EXCEPT !.saved = g, !.whole = TRUE]
           IN  h \in Files /\ h.saved = g /\ h.whole = TRUE
BY DEF Files

\* What the process leaves when it ends.
LEMMA EndedStep ==
    ASSUME RestartInv, DiskInv', Ended, now' = now,
           file' \in Files, tmp' \in Files, behind' \subseteq Files,
           cached' \subseteq [domain : Domains, slot : Slots, left : 0 .. FAKEDNS_DNS_TTL],
           cached' \subseteq Recorded(file)'
    PROVE  RestartInv'
<1>1. up' = "down" /\ DownInv'
    BY DEF Ended, DownInv, EmptyMru
<1>2. TimeInv'
    BY DEF RestartInv, TimeInv, Ended
<1> QED
    BY <1>1, <1>2 DEF RestartInv

\* The answers of clients are well formed and, with the process, borne out by
\* entries that a save keeps.
LEMMA AnswersKept ==
    ASSUME NoWrap, RestartInv
    PROVE  /\ cached \subseteq [domain : Domains, slot : Slots, left : 0 .. FAKEDNS_DNS_TTL]
           /\ up # "down" => \A a \in cached : /\ a.slot \in Slots /\ Holds(a.slot, a.domain)
                                               /\ Kept(pool[a.slot])
<1>1. CASE up = "down"
    BY <1>1 DEF RestartInv, DownInv
<1>2. CASE up # "down"
  <2>1. BaseInv
      BY <1>2 DEF RestartInv
  <2>2. ASSUME NEW a \in cached
        PROVE  a.slot \in Slots /\ Holds(a.slot, a.domain) /\ Kept(pool[a.slot])
    <3>1. /\ a.slot \in Slots /\ Holds(a.slot, a.domain) /\ a.left \in 0 .. FAKEDNS_DNS_TTL
          /\ Remaining(pool[a.slot].expire) > a.left
        BY <2>1, BaseFacts DEF AnswerOK
    <3> DEFINE e == pool[a.slot].expire
    <3>2. e \in Times /\ e >= StartTime
        BY <2>1, <3>1, BaseFacts DEF Holds, RestartInv, TimeInv
    <3>3. Remaining(e) \in Int /\ Remaining(e) > 0
        BY <2>1, <3>1, <3>2, BaseFacts, RemainingType, ClockFacts
    <3>4. e > now
        BY <3>2, <3>3, PlainTime DEF RestartInv, TimeInv
    <3> QED
        BY <3>1, <3>4 DEF Kept, Holds
  <2> QED
      BY <2>1, <2>2, BaseFacts
<1> QED
    BY <1>1, <1>2

LEMMA SaveStep ==
    ASSUME NoWrap, RestartInv, DiskInv',
           SaveBegin \/ SaveEntries \/ SaveSync \/ SaveRename \/ SaveFails
    PROVE  RestartInv'
<1> DEFINE Answers == [domain : Domains, slot : Slots, left : 0 .. FAKEDNS_DNS_TTL]
<1>0. cached \subseteq Answers /\ file \in Files /\ tmp \in Files /\ behind \subseteq Files
    BY AnswersKept DEF RestartInv
<1>1. ASSUME UNCHANGED vars, up # "down" PROVE BaseInv' /\ TimeInv'
    BY <1>1, BaseStutter DEF RestartInv, TimeInv, vars
<1>2. CASE SaveBegin
  <2>1. up = "up" /\ BaseInv /\ UNCHANGED <<now, cached, file, behind>> /\ writer = Idle
      BY <1>2 DEF SaveBegin, RestartInv
  <2>2. CASE (\A slot \in Slots : pool[slot] = NoEntry) /\ Ended /\ UNCHANGED tmp
    <3>1. cached = {}
        BY <2>1, <2>2, AnswersKept DEF Kept
    <3> QED
        BY <1>0, <2>1, <2>2, <3>1, EndedStep
  <2>3. CASE /\ tmp' = [exists |-> TRUE, saved |-> << >>, whole |-> FALSE, safe |-> FALSE]
             /\ up' = "writing" /\ UNCHANGED <<pool, writer, mru>>
    <3>1. BaseInv' /\ TimeInv' /\ tmp' \in Files
        BY <1>1, <2>1, <2>3, FileFacts DEF vars
    <3> QED
        BY <2>1, <2>3, <3>1 DEF RestartInv
  <2> QED
      BY <1>2, <2>2, <2>3 DEF SaveBegin
<1>3. CASE SaveEntries
  <2>1. /\ up = "writing" /\ BaseInv /\ UNCHANGED <<vars, file, behind>>
        /\ writer = Idle /\ up' = "written"
      BY <1>3 DEF SaveEntries, RestartInv
  <2> DEFINE kept == {slot \in Slots : Kept(pool[slot])}
             g == [slot \in kept |-> pool[slot].domain]
  <2>2. tmp' = [tmp EXCEPT !.saved = g, !.whole = TRUE]
      BY <1>3 DEF SaveEntries
  <2>3. g \in [kept -> Domains] /\ kept \in SUBSET Slots
      BY <2>1, BaseFacts DEF Kept
  <2>4. tmp' \in Files /\ tmp'.saved = g /\ tmp'.whole = TRUE
    <3>1. g \in SavedDomains
        BY <2>3 DEF SavedDomains
    <3> HIDE DEF g
    <3> QED
        BY <1>0, <2>2, <3>1, WrittenFile
  <2>5. ASSUME NEW a \in cached PROVE a.slot \in DOMAIN g /\ g[a.slot] = a.domain
    <3>1. a.slot \in kept /\ pool[a.slot].domain = a.domain
        BY <2>1, AnswersKept DEF Holds
    <3> QED
        BY <3>1
  <2>6. cached' \subseteq Recorded(tmp)'
      BY <2>1, <2>4, <2>5 DEF Recorded, vars
  <2>7. BaseInv' /\ TimeInv' /\ writer' = Idle
      BY <1>1, <2>1 DEF vars
  <2> QED
      BY <1>0, <2>1, <2>4, <2>6, <2>7 DEF RestartInv
<1>4. CASE SaveSync
  <2>1. up = "written" /\ UNCHANGED <<vars, file, behind>> /\ up' = "synced"
        /\ tmp' = [tmp EXCEPT !.safe = TRUE]
      BY <1>4 DEF SaveSync
  <2>2. tmp' \in Files /\ tmp'.saved = tmp.saved /\ tmp'.whole = tmp.whole
      BY <1>0, <2>1, SyncedFile
  <2>3. cached \subseteq Recorded(tmp) /\ writer = Idle
      BY <2>1 DEF RestartInv
  <2>4. cached' \subseteq Recorded(tmp)'
      BY <2>1, <2>2, <2>3 DEF Recorded, vars
  <2>5. BaseInv' /\ TimeInv' /\ writer' = Idle
      BY <1>1, <2>1, <2>3 DEF vars
  <2> QED
      BY <1>0, <2>1, <2>2, <2>4, <2>5 DEF RestartInv
<1>5. CASE SaveRename
  <2>1. /\ up = "synced" /\ file' = tmp /\ tmp' = NoFile /\ Ended /\ UNCHANGED <<now, cached>>
        /\ behind' = behind \cup {file}
      BY <1>5 DEF SaveRename
  <2>2. cached \subseteq Recorded(tmp)
      BY <2>1 DEF RestartInv
  <2>3. cached' \subseteq Recorded(file)'
      BY <2>1, <2>2 DEF Recorded
  <2> QED
      BY <1>0, <2>1, <2>3, FileFacts, EndedStep
<1>6. CASE SaveFails
  <2>1. tmp' = NoFile /\ Ended /\ cached' = Recorded(file) /\ UNCHANGED <<now, file, behind>>
      BY <1>6 DEF SaveFails
  <2>2. cached' \subseteq cached /\ cached' \subseteq Recorded(file)'
      BY <2>1 DEF Recorded
  <2> QED
      BY <1>0, <2>1, <2>2, FileFacts, EndedStep
<1> QED
    BY <1>2, <1>3, <1>4, <1>5, <1>6

LEMMA MachineStep ==
    ASSUME NoWrap, RestartInv, DiskInv', Crash \/ PowerLoss
    PROVE  RestartInv'
<1> DEFINE Answers == [domain : Domains, slot : Slots, left : 0 .. FAKEDNS_DNS_TTL]
<1>0. cached \subseteq Answers /\ file \in Files /\ tmp \in Files /\ behind \subseteq Files
    BY AnswersKept DEF RestartInv
<1>1. ASSUME NEW f \in {file} \cup behind, PowerFailure(f)
      PROVE  file' = f /\ f \in Files /\ tmp' \in Files /\ behind' = {}
  <2>1. file' = f /\ behind' = {} /\ f \in Files
      BY <1>0, <1>1, PowerFailureFacts DEF RestartInv
  <2>2. tmp' = AfterPowerLoss(tmp) \/ tmp' = AfterPowerLoss(file)
      BY <1>1 DEF PowerFailure
  <2> QED
      BY <1>0, <2>1, <2>2, LostFile
<1>2. CASE Crash
  <2>1. Ended /\ UNCHANGED now
      BY <1>2 DEF Crash
  <2>2. CASE cached' = Recorded(file) /\ UNCHANGED disk
    <3>1. cached' \subseteq cached /\ cached' \subseteq Recorded(file)' /\ UNCHANGED <<file, tmp, behind>>
        BY <2>2 DEF Recorded, disk
    <3> QED
        BY <1>0, <2>1, <3>1, EndedStep
  <2>3. CASE \E f \in {file} \cup behind : PowerFailure(f) /\ cached' = Recorded(f)
    <3>1. PICK f \in {file} \cup behind : PowerFailure(f) /\ cached' = Recorded(f)
        BY <2>3
    <3>2. file' = f /\ f \in Files /\ tmp' \in Files /\ behind' = {}
        BY <1>1, <3>1
    <3>3. cached' \subseteq cached /\ cached' \subseteq Recorded(file)'
        BY <3>1, <3>2 DEF Recorded
    <3> QED
        BY <1>0, <2>1, <3>2, <3>3, EndedStep
  <2> QED
      BY <1>2, <2>2, <2>3 DEF Crash
<1>3. CASE PowerLoss
  <2>1. up = "down" /\ up' = "down" /\ UNCHANGED <<pool, writer, mru, now>>
      BY <1>3 DEF PowerLoss
  <2>2. PICK f \in {file} \cup behind :
            PowerFailure(f) /\ cached' = IF f = file THEN cached ELSE Recorded(f)
      BY <1>3 DEF PowerLoss
  <2>3. file' = f /\ f \in Files /\ tmp' \in Files /\ behind' = {}
      BY <1>1, <2>2
  <2>4. cached' \subseteq cached /\ cached' \subseteq Recorded(file)'
    <3>1. cached \subseteq Recorded(file)
        BY <2>1 DEF RestartInv, DownInv
    <3> QED
        BY <2>2, <2>3, <3>1 DEF Recorded
  <2>5. DownInv' /\ TimeInv'
      BY <1>0, <2>1, <2>4 DEF RestartInv, DownInv, TimeInv, EmptyMru
  <2> QED
      BY <2>1, <2>3, <2>5 DEF RestartInv
<1> QED
    BY <1>2, <1>3

\* The kernel's writing back of the directory.
LEMMA SyncedStep ==
    ASSUME RestartInv, DiskInv', DirectorySynced
    PROVE  RestartInv'
<1>1. UNCHANGED vars /\ UNCHANGED <<up, file, tmp>> /\ behind' = {}
    BY DEF DirectorySynced
<1>2. up # "down" => BaseInv'
    BY <1>1, BaseStutter DEF RestartInv
<1>3. up = "down" => DownInv'
    BY <1>1 DEF RestartInv, DownInv, Recorded, EmptyMru, vars
<1>4. TimeInv' /\ (up \in {"written", "synced"} => cached' \subseteq Recorded(tmp)')
    BY <1>1 DEF RestartInv, TimeInv, Recorded, vars
<1> QED
    BY <1>1, <1>2, <1>3, <1>4 DEF RestartInv, vars

LEMMA StartStep ==
    ASSUME NoWrap, RestartInv, DiskInv', Start \/ StartWithoutFile
    PROVE  RestartInv'
<1>1. /\ up = "down" /\ up' = "up" /\ UNCHANGED <<writer, mru, now, disk>>
      /\ writer = Idle /\ mru = EmptyMru
      /\ file \in Files /\ tmp \in Files /\ behind \subseteq Files
      /\ now \in StartTime .. LastTime
    BY DEF Start, StartWithoutFile, RestartInv, DownInv, TimeInv
<1>2. /\ now \in Times /\ NewExpire = now + FAKEDNS_ENTRY_LIFETIME
      /\ NewExpire \in Times /\ Remaining(NewExpire) = FAKEDNS_ENTRY_LIFETIME
    BY <1>1, PlainTime, NewLife
<1>3. NewExpire >= StartTime
    BY <1>1, <1>2, ClockFacts, SizeFacts DEF Times, NoWrap
<1>4. /\ mru' \in [Threads -> [1 .. FAKEDNS_MRU_SIZE -> Items]]
      /\ \A t \in Threads, k \in 1 .. FAKEDNS_MRU_SIZE : ItemOK(mru[t][k])'
  <2>1. NoItem \in Items /\ NoItem.valid = FALSE
      BY SizeFacts DEF NoItem, Items, Slots
  <2>2. mru' = EmptyMru
      BY <1>1
  <2> QED
      BY <2>1, <2>2 DEF EmptyMru, ItemOK
<1>5. CASE Start
  <2>1. /\ pool' = [slot \in Slots |-> LoadedEntry(slot)] /\ UNCHANGED cached
        /\ cached \subseteq [domain : Domains, slot : Slots, left : 0 .. FAKEDNS_DNS_TTL]
        /\ cached \subseteq Recorded(file)
      BY <1>1, <1>5 DEF Start, RestartInv, DownInv
  <2> DEFINE New(x) == [domain |-> file.saved[x], expire |-> NewExpire, version |-> 1]
  <2>2. ASSUME NEW x \in Slots, file.whole, x \in DOMAIN file.saved
        PROVE  /\ LoadedEntry(x) = New(x) /\ New(x) \in Entries
               /\ New(x).domain = file.saved[x] /\ New(x).expire = NewExpire
    <3>1. file.saved[x] \in Domains
        BY <1>1, <2>2, FileFacts
    <3> QED
        BY <1>2, <2>2, <3>1, EntryFacts, SizeFacts DEF LoadedEntry
  <2> HIDE DEF New
  <2>3. ASSUME NEW x \in Slots, ~ (file.whole /\ x \in DOMAIN file.saved)
        PROVE  LoadedEntry(x) = NoEntry
      BY <2>3 DEF LoadedEntry
  <2>4. pool' \in [Slots -> Entries \cup {NoEntry}]
      BY <2>1, <2>2, <2>3
  <2>5. ASSUME NEW a \in cached' PROVE AnswerOK(a)'
    <3>1. /\ a.slot \in Slots /\ a.left \in 0 .. FAKEDNS_DNS_TTL /\ file.whole
          /\ a.slot \in DOMAIN file.saved /\ file.saved[a.slot] = a.domain
        BY <2>1, <2>5 DEF Recorded
    <3>2. pool'[a.slot] = New(a.slot) /\ pool'[a.slot] # NoEntry
        BY <2>1, <2>2, <3>1, EntryFacts
    <3>3. pool'[a.slot].domain = a.domain /\ pool'[a.slot].expire = NewExpire
        BY <2>2, <3>1, <3>2
    <3>4. (Remaining(pool[a.slot].expire))' = FAKEDNS_ENTRY_LIFETIME
        BY <1>1, <1>2, <3>3 DEF Remaining
    <3>5. writer' # a.slot
        BY <1>1, <3>1, SizeFacts
    <3>6. FAKEDNS_ENTRY_LIFETIME > a.left
        BY <3>1, ClockFacts
    <3> QED
        BY <3>2, <3>3, <3>4, <3>5, <3>6 DEF AnswerOK, Holds
  <2>6. BaseInv'
      BY <1>1, <1>2, <1>4, <2>1, <2>4, <2>5 DEF BaseInv, FakeDnsTypeOK, WriterOK
  <2>7. TimeInv'
    <3>1. ASSUME NEW x \in Slots, pool'[x] # NoEntry PROVE pool'[x].expire >= StartTime
        BY <1>3, <2>1, <2>2, <2>3, <3>1
    <3> QED
        BY <1>1, <3>1 DEF TimeInv
  <2> QED
      BY <1>1, <2>6, <2>7 DEF RestartInv, disk
<1>6. CASE StartWithoutFile
  <2>1. pool' = [slot \in Slots |-> NoEntry] /\ cached' = {}
      BY <1>1, <1>6 DEF StartWithoutFile, RestartInv, DownInv
  <2>2. BaseInv'
      BY <1>1, <1>2, <1>4, <2>1 DEF BaseInv, FakeDnsTypeOK, WriterOK
  <2>3. TimeInv'
      BY <1>1, <2>1 DEF TimeInv
  <2> QED
      BY <1>1, <2>2, <2>3 DEF RestartInv, disk
<1> QED
    BY <1>5, <1>6

\* Time passes while the process saves the pool or is down.
LEMMA DownStep ==
    ASSUME NoWrap, RestartInv, DiskInv', Down
    PROVE  RestartInv'
<1>1. /\ up # "up" /\ Tick /\ UNCHANGED <<up, file, tmp, behind>>
      /\ UNCHANGED <<pool, writer, mru>>
      /\ file \in Files /\ tmp \in Files /\ behind \subseteq Files
    BY DEF Down, disk, RestartInv, Tick
<1>2. now' \in StartTime .. LastTime /\ TimeInv'
  <2>1. now' = (now + 1) % TimeMod /\ now # LastTime /\ now \in StartTime .. LastTime
      BY <1>1 DEF Tick, RestartInv, TimeInv
  <2> DEFINE a == now + 1
  <2>2. a \in Int /\ 0 <= a /\ a < TimeMod /\ a \in StartTime .. LastTime /\ TimeMod \in Nat \ {0}
      BY <2>1, ClockFacts, SizeFacts DEF NoWrap, Times
  <2> HIDE DEF a
  <2>3. a % TimeMod = a
      BY <2>2, ModFacts
  <2>4. now' \in StartTime .. LastTime
      BY <2>1, <2>2, <2>3 DEF a
  <2> QED
      BY <1>1, <2>4 DEF RestartInv, TimeInv
<1>3. ASSUME NEW c \in cached'
      PROVE  \E a \in cached : /\ a.left > 0 /\ c = [a EXCEPT !.left = a.left - 1]
    BY <1>1, <1>3 DEF Tick
<1>4. ASSUME NEW c \in cached'
      PROVE  /\ c \in [domain : Domains, slot : Slots, left : 0 .. FAKEDNS_DNS_TTL]
             /\ \E a \in cached : a.slot = c.slot /\ a.domain = c.domain
  <2>1. PICK a \in cached : a.left > 0 /\ c = [a EXCEPT !.left = a.left - 1]
      BY <1>3, <1>4
  <2>2. a \in [domain : Domains, slot : Slots, left : 0 .. FAKEDNS_DNS_TTL]
      BY AnswersKept
  <2>3. a.left - 1 \in 0 .. FAKEDNS_DNS_TTL
      BY <2>1, <2>2, ClockFacts
  <2> QED
      BY <2>1, <2>2, <2>3
<1>5. ASSUME NEW f, cached \subseteq Recorded(f)
      PROVE  \A c \in cached' : f.whole /\ c.slot \in DOMAIN f.saved /\ f.saved[c.slot] = c.domain
    BY <1>4, <1>5 DEF Recorded
<1>6. CASE up = "down"
  <2>1. cached' \subseteq Recorded(file)'
      BY <1>1, <1>5, <1>6 DEF RestartInv, DownInv, Recorded
  <2>2. DownInv'
      BY <1>1, <1>4, <1>6, <2>1 DEF RestartInv, DownInv, EmptyMru
  <2> QED
      BY <1>1, <1>2, <1>6, <2>2 DEF RestartInv
<1>7. CASE up # "down"
  <2>1. BaseInv'
      BY <1>1, <1>7, TickStep DEF RestartInv
  <2>2. up \in {"written", "synced"} => cached' \subseteq Recorded(tmp)'
      BY <1>1, <1>5 DEF RestartInv, Recorded
  <2> QED
      BY <1>1, <1>2, <1>7, <2>1, <2>2 DEF RestartInv
<1> QED
    BY <1>6, <1>7

LEMMA RestartNext ==
    ASSUME NoWrap, RestartInv, [PersistNext]_persistVars
    PROVE  RestartInv'
<1>0. DiskInv'
    BY DiskNext DEF RestartInv
<1>1. CASE Running
  <2>1. up = "up" /\ Next /\ UNCHANGED <<up, file, tmp, behind>> /\ BaseInv
      BY <1>1 DEF Running, disk, RestartInv
  <2>2. BaseInv' /\ TimeInv'
      BY <2>1, BaseNext, TimeNext DEF RestartInv
  <2> QED
      BY <1>0, <2>1, <2>2 DEF RestartInv
<1>2. CASE UNCHANGED persistVars
  <2>1. UNCHANGED vars /\ UNCHANGED <<up, file, tmp, behind>>
      BY <1>2 DEF persistVars, disk
  <2>2. up # "down" => BaseInv'
      BY <2>1, BaseStutter DEF RestartInv
  <2>3. up = "down" => DownInv'
      BY <2>1 DEF RestartInv, DownInv, Recorded, EmptyMru, vars
  <2>4. TimeInv' /\ (up \in {"written", "synced"} => cached' \subseteq Recorded(tmp)')
      BY <2>1 DEF RestartInv, TimeInv, Recorded, vars
  <2> QED
      BY <1>0, <2>1, <2>2, <2>3, <2>4 DEF RestartInv, vars
<1> QED
    BY <1>0, <1>1, <1>2, DownStep, SaveStep, MachineStep, SyncedStep, StartStep
       DEF PersistNext

\* With a clock that does not wrap, a restart keeps its clients' answers good: what
\* the save leaves out no client still uses, a crash in any of its steps leaves the
\* last file, a power failure one that an earlier save completed, and the start gives
\* every entry a life longer than any answer's.  Without NoWrap this
\* is false: see SaveSkipsOnlyExpired.
THEOREM RestartsKeepAnswers == NoWrap => (PersistSpec => []RestartKeepsAnswers)
<1> SUFFICES ASSUME NoWrap PROVE PersistSpec => []RestartKeepsAnswers
    OBVIOUS
<1>1. PersistInit => RestartInv
  <2> SUFFICES ASSUME PersistInit PROVE RestartInv
      OBVIOUS
  <2>1. BaseInv /\ up = "up" /\ file = NoFile /\ tmp = NoFile /\ behind = {}
      BY BaseInit DEF PersistInit
  <2>2. DiskInv /\ file \in Files /\ tmp \in Files /\ behind \subseteq Files
      BY <2>1, NoFileFacts, FileFacts DEF DiskInv, Durable
  <2>3. TimeInv
      BY SizeFacts DEF PersistInit, Init, TimeInv, NoWrap, Times
  <2> QED
      BY <2>1, <2>2, <2>3 DEF RestartInv
<1>2. RestartInv /\ [PersistNext]_persistVars => RestartInv'
    BY RestartNext
<1>3. RestartInv => RestartKeepsAnswers
    BY BaseAnswers DEF RestartInv, RestartKeepsAnswers
<1> QED
    BY <1>1, <1>2, <1>3, PTL DEF PersistSpec
=============================================================================
