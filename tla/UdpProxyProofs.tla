--------------------------- MODULE UdpProxyProofs ---------------------------
(***************************************************************************)
(* What TLAPS proves of UdpProxy for every number of clients, servers and  *)
(* addresses, every size of the tables, every batch size and all timeouts. *)
(***************************************************************************)
EXTENDS UdpProxy, WellFoundedInduction, FiniteSetTheorems, TLAPS

-----------------------------------------------------------------------------
(* The inductive invariant.                                                *)

Addresses == FakeTargets \cup Remotes
Entries == [key : Addresses, entry : EntryIds, age : Ages]
Sends == [entry : EntryIds, src : Addresses]
Batches == [session : SessionIds, left : 0 .. UDP_BATCH_SIZE, sends : SUBSET Sends,
            deferred : SUBSET EntryIds]
Creations == [pkt : Packets, server_idx : Servers, replaced : Servers \cup {None}]

\* No two nodes have the same key.
Distinct(table) == \A n, m \in table : n.key = m.key => n = m

\* A node and the session it points to.
NodeOK(n, fake) ==
    /\ session[n.session] # Free
    /\ n.key = SessionKey(session[n.session])
    /\ uses_fakedns(session[n.session]) = fake

\* The tables index the sessions.
SessionInv ==
    /\ session \in [SessionIds -> Sessions \cup {Free}]
    /\ fullcone \subseteq Nodes /\ symmetric \subseteq Nodes
    /\ IsFiniteSet(fullcone) /\ IsFiniteSet(symmetric)
    /\ \A n \in fullcone : NodeOK(n, FALSE)
    /\ \A n \in symmetric : NodeOK(n, TRUE)
    /\ Distinct(fullcone \cup symmetric)
    /\ \A i \in LiveSessions : \E n \in fullcone \cup symmetric : n.session = i
    /\ fullcone_nodes = Cardinality(fullcone) /\ Cardinality(fullcone) <= fullcone_maxsize
    /\ symmetric_nodes = Cardinality(symmetric) /\ Cardinality(symmetric) <= symmetric_maxsize

\* The table of reply sockets and the evicted ones account for every open socket.
SocketInv ==
    /\ socket \in [EntryIds -> Addresses \cup {Free}]
    /\ tproxy \subseteq Entries /\ IsFiniteSet(tproxy) /\ Distinct(tproxy)
    /\ Cardinality(tproxy) <= tproxy_maxsize
    /\ \A n \in tproxy : socket[n.entry] = n.key
    /\ \A e \in LiveSockets : \/ \E n \in tproxy : n.entry = e
                              \/ batch # NoBatch /\ e \in batch.deferred

\* A batch can still defer as many evictions as it has packets left.
BatchInv ==
    /\ batch \in Batches \cup {NoBatch}
    /\ batch # NoBatch =>
          /\ session[batch.session] # Free
          /\ IsFiniteSet(batch.deferred) /\ IsFiniteSet(batch.sends)
          /\ Cardinality(batch.deferred) + batch.left <= UDP_BATCH_SIZE
          /\ Cardinality(batch.sends) + batch.left <= UDP_BATCH_SIZE
          /\ \A n \in tproxy : n.entry \notin batch.deferred
          /\ \A d \in batch.deferred : socket[d] # Free
          /\ \A q \in batch.sends : socket[q.entry] = q.src

\* What is about to be created is in no table, and nothing happens after the end.
PhaseInv ==
    /\ pending \in Creations \cup {NoPending}
    /\ pending # NoPending =>
          /\ batch = NoBatch
          /\ pending.server_idx # pending.replaced
          /\ \A n \in fullcone \cup symmetric : n.key # SessionKey(pending.pkt)
    /\ exhausted = FALSE /\ closed \in BOOLEAN
    /\ closed => /\ pending = NoPending /\ batch = NoBatch
                 /\ fullcone = {} /\ symmetric = {} /\ tproxy = {}

\* A node is never older than what the next collection will allow for.
AgeInv ==
    /\ gc_in \in 0 .. GC_INTERVAL_SEC
    /\ \A n \in fullcone \cup symmetric :
          n.age + gc_in < g_udp_idletimeout_sec + GC_INTERVAL_SEC
    /\ \A n \in tproxy : 2 * (n.age + gc_in - GC_INTERVAL_SEC) < g_udp_idletimeout_sec

UdpInv == SessionInv /\ SocketInv /\ BatchInv /\ PhaseInv /\ AgeInv

-----------------------------------------------------------------------------
(* Sizes and marks.                                                        *)

LEMMA SizeFacts ==
    /\ fullcone_maxsize \in Nat \ {0} /\ symmetric_maxsize \in Nat \ {0}
    /\ tproxy_maxsize \in Nat \ {0} /\ UDP_BATCH_SIZE \in Nat \ {0}
    /\ session_max_blocks \in Nat /\ tproxy_pool_max_blocks \in Nat
    /\ session_max_blocks = IF FakeTargets # {} THEN fullcone_maxsize + symmetric_maxsize + 1
                            ELSE fullcone_maxsize + 1
    /\ tproxy_pool_max_blocks = tproxy_maxsize + UDP_BATCH_SIZE
<1>1. \A a, b \in Nat \ {0} : a * b \in Nat \ {0}
    OBVIOUS
<1>2. base_size \in Nat \ {0} /\ UINT16_MAX \in Nat \ {0}
    BY SizeAssumption
<1>3. /\ base_size * SYMMETRIC_SIZE_MULTIPLIER \in Nat \ {0}
      /\ base_size * TPROXY_SIZE_MULTIPLIER \in Nat \ {0}
    BY <1>1, <1>2, SizeAssumption
<1>4. \A a \in Nat \ {0} : Clamped(a) \in Nat \ {0}
    BY <1>2 DEF Clamped
<1>5. symmetric_maxsize \in Nat \ {0} /\ tproxy_maxsize \in Nat \ {0}
    BY <1>3, <1>4 DEF symmetric_maxsize, tproxy_maxsize
<1>6. fullcone_maxsize \in Nat \ {0} /\ UDP_BATCH_SIZE \in Nat \ {0}
    BY <1>2, SizeAssumption DEF fullcone_maxsize
<1>7. session_max_blocks = IF FakeTargets # {} THEN fullcone_maxsize + symmetric_maxsize + 1
                           ELSE fullcone_maxsize + 1
    BY <1>5, <1>6 DEF session_max_blocks, fakedns_enabled
<1> QED
    BY <1>5, <1>6, <1>7 DEF tproxy_pool_max_blocks

LEMMA IdFacts ==
    /\ SessionIds \subseteq Nat \ {0} /\ EntryIds \subseteq Nat \ {0}
    /\ IsFiniteSet(SessionIds) /\ Cardinality(SessionIds) = session_max_blocks
    /\ IsFiniteSet(EntryIds) /\ Cardinality(EntryIds) = tproxy_pool_max_blocks
<1>1. \A n \in Nat : IsFiniteSet(1 .. n) /\ Cardinality(1 .. n) = n
    BY FS_Interval
<1>2. session_max_blocks \in Nat /\ tproxy_pool_max_blocks \in Nat
    BY SizeFacts
<1> QED
    BY <1>1, <1>2 DEF SessionIds, EntryIds

\* What marks a free block, no batch and no creation is not one of them.
LEMMA MarkFacts ==
    /\ Free \notin Sessions /\ Free \notin Addresses
    /\ NoBatch \notin Batches /\ NoPending \notin Creations
<1>1. Free \notin Sessions
    BY DEF Free, Sessions
<1>2. Free \notin Addresses
    BY AddressAssumption DEF Addresses
<1>3. NoBatch \notin Batches
    BY IdFacts DEF NoBatch, Batches
<1>4. NoPending \notin Creations
    BY NAssumption DEF NoPending, Creations, Servers, None
<1> QED
    BY <1>1, <1>2, <1>3, <1>4

\* Every nonempty set of naturals has a least element, and Min picks it.
LEMMA LeastNat ==
    ASSUME NEW T \in SUBSET Nat, T # {}
    PROVE  /\ \E x \in T : \A y \in T : x <= y
           /\ Min(T) \in T
<1>1. IsWellFoundedOn(OpToRel(<, Nat), Nat)
    BY NatLessThanWellFounded
<1>2. PICK x \in T : \A y \in T : <<y, x>> \notin OpToRel(<, Nat)
    BY <1>1, WFMin
<1>3. \A y \in T : ~ (y < x)
    BY <1>2 DEF OpToRel
<1>4. \E z \in T : \A y \in T : z =< y
    BY <1>3
<1> QED
    BY <1>4 DEF Min

\* A nonempty table has an oldest node.
LEMMA OldestExists ==
    ASSUME NEW T, T # {}, NEW b \in Nat, \A n \in T : n.age \in 0 .. b
    PROVE  Oldest(T) # {}
<1> DEFINE U == {b - n.age : n \in T}
<1>1. U \in SUBSET Nat /\ U # {}
    OBVIOUS
<1>2. PICK x \in U : \A y \in U : x <= y
    BY <1>1, LeastNat
<1>3. PICK v \in T : x = b - v.age
    BY <1>2
<1>4. \A m \in T : b - v.age <= b - m.age
    BY <1>2, <1>3
<1>5. \A m \in T : m.age <= v.age
    BY <1>4
<1> QED
    BY <1>5 DEF Oldest

\* LRU_DEFINE_ADD: the table has the new node, and lost an old one if it was full.
LEMMA LruAddFacts ==
    ASSUME NEW T, IsFiniteSet(T), NEW new, new \notin T, NEW max \in Nat \ {0},
           Cardinality(T) <= max, NEW b \in Nat, \A n \in T : n.age \in 0 .. b,
           NEW r \in LruAdd(T, new, max)
    PROVE  /\ IsFiniteSet(r.table) /\ Cardinality(r.table) <= max
           /\ \/ /\ r.victims = {} /\ r.table = T \cup {new}
                 /\ Cardinality(r.table) = Cardinality(T) + 1
              \/ \E v \in T : /\ r.victims = {v} /\ r.table = (T \cup {new}) \ {v}
                              /\ Cardinality(r.table) = Cardinality(T)
<1> DEFINE c == Cardinality(T)
<1>1. IsFiniteSet(T \cup {new}) /\ Cardinality(T \cup {new}) = c + 1 /\ c \in Nat
    BY FS_AddElement, FS_CardinalityType
<1>2. CASE LruVictims(T, new, max) = {}
  <2>1. r = [table |-> T \cup {new}, victims |-> {}]
      BY <1>2 DEF LruAdd
  <2>2. c + 1 <= max
    <3> SUFFICES ASSUME c + 1 > max PROVE FALSE
        BY <1>1
    <3>1. Oldest(T) = {}
        BY <1>1, <1>2 DEF LruVictims
    <3>2. T = {}
        BY <3>1, OldestExists
    <3>3. c = 0
        BY <3>2, FS_EmptySet
    <3> QED
        BY <3>3
  <2> QED
      BY <1>1, <2>1, <2>2
<1>3. CASE LruVictims(T, new, max) # {}
  <2>1. LruVictims(T, new, max) \subseteq T
      BY DEF LruVictims, Oldest
  <2>2. PICK v \in T : r = [table |-> (T \cup {new}) \ {v}, victims |-> {v}]
      BY <1>3, <2>1 DEF LruAdd
  <2>3. /\ IsFiniteSet((T \cup {new}) \ {v})
        /\ Cardinality((T \cup {new}) \ {v}) = Cardinality(T \cup {new}) - 1
      BY <1>1, FS_RemoveElement
  <2>4. /\ IsFiniteSet(r.table) /\ Cardinality(r.table) = c
        /\ r.victims = {v} /\ r.table = (T \cup {new}) \ {v}
      BY <1>1, <2>2, <2>3
  <2> QED
      BY <2>4
<1> QED
    BY <1>2, <1>3

\* A change of nodes that keeps their keys keeps their number.
LEMMA SameKeys ==
    ASSUME NEW T, IsFiniteSet(T), Distinct(T),
           NEW B, NEW f \in [T -> B], \A y \in B : \E n \in T : f[n] = y,
           \A n \in T : f[n].key = n.key
    PROVE  IsFiniteSet(B) /\ Cardinality(B) = Cardinality(T)
<1>1. \A n, m \in T : f[n] = f[m] => n = m
    BY DEF Distinct
<1>2. f \in Bijection(T, B)
    BY <1>1 DEF Bijection, Injection, Surjection, IsInjective
<1> QED
    BY <1>2, FS_Bijection DEF ExistsBijection

-----------------------------------------------------------------------------
(* The session tables.                                                     *)

Tables == fullcone \cup symmetric

LEMMA NodeFacts ==
    ASSUME NEW n \in Nodes
    PROVE  /\ n.key \in Keys /\ n.session \in SessionIds /\ n.age \in Ages
           /\ \A a \in Ages : LET m == [n EXCEPT !.age = a]
                              IN  /\ m \in Nodes /\ m.key = n.key /\ m.session = n.session
                                  /\ m.age = a
BY DEF Nodes

\* What SessionInv says, taken apart.
LEMMA SessionFacts ==
    ASSUME SessionInv
    PROVE  /\ \A n \in Tables : /\ n \in Nodes /\ n.session \in LiveSessions
                                /\ n.key = SessionKey(session[n.session])
                                /\ session[n.session] \in Sessions
           /\ \A n, m \in Tables : n.session = m.session => n = m
           /\ \A n \in Tables : (n \in symmetric) <=> uses_fakedns(session[n.session])
           /\ \A n \in Tables : (n \in fullcone) <=> ~ uses_fakedns(session[n.session])
           /\ fullcone \cap symmetric = {}
           /\ Distinct(fullcone) /\ Distinct(symmetric)
<1>1. \A n \in Tables : n \in Nodes /\ n.session \in SessionIds
    BY NodeFacts DEF SessionInv, Tables
<1>2. \A n \in Tables : /\ n.session \in LiveSessions
                        /\ n.key = SessionKey(session[n.session])
                        /\ session[n.session] \in Sessions
    BY <1>1 DEF SessionInv, Tables, NodeOK, LiveSessions
<1>3. \A n, m \in Tables : n.session = m.session => n = m
    BY <1>2 DEF SessionInv, Tables, Distinct
<1>4. /\ \A n \in symmetric : uses_fakedns(session[n.session])
      /\ \A n \in fullcone : ~ uses_fakedns(session[n.session])
    BY DEF SessionInv, NodeOK
<1>5. Distinct(fullcone) /\ Distinct(symmetric)
    BY DEF SessionInv, Distinct
<1> QED
    BY <1>1, <1>2, <1>3, <1>4, <1>5 DEF Tables

\* Each session has a node, so there are no more sessions than nodes.
LEMMA SessionsFit ==
    ASSUME SessionInv
    PROVE  SessionIds \ LiveSessions # {}
<1>1. /\ IsFiniteSet(Tables)
      /\ Cardinality(Tables) = Cardinality(fullcone) + Cardinality(symmetric)
  <2>1. IsFiniteSet(fullcone) /\ IsFiniteSet(symmetric) /\ fullcone \cap symmetric = {}
      BY SessionFacts DEF SessionInv
  <2>2. Cardinality(fullcone \cap symmetric) = 0
      BY <2>1, FS_EmptySet
  <2>3. Cardinality(fullcone) \in Nat /\ Cardinality(symmetric) \in Nat
      BY <2>1, FS_CardinalityType
  <2> QED
    <3>1. /\ IsFiniteSet(fullcone \cup symmetric)
          /\ Cardinality(fullcone \cup symmetric) =
                Cardinality(fullcone) + Cardinality(symmetric) - Cardinality(fullcone \cap symmetric)
        BY <2>1, FS_Union
    <3> QED
        BY <2>2, <2>3, <3>1 DEF Tables
<1>2. Cardinality(LiveSessions) <= Cardinality(Tables)
  <2> DEFINE f == [n \in Tables |-> n.session]
  <2>1. f \in [Tables -> LiveSessions]
      BY SessionFacts
  <2>2. \A i \in LiveSessions : \E n \in Tables : f[n] = i
      BY DEF SessionInv, Tables
  <2>3. f \in Surjection(Tables, LiveSessions)
      BY <2>1, <2>2 DEF Surjection
  <2> QED
      BY <1>1, <2>3, FS_Surjection
<1>3. FakeTargets = {} => symmetric = {}
    BY SessionFacts DEF uses_fakedns, Tables
<1>4. Cardinality(Tables) < session_max_blocks
  <2>1. Cardinality(fullcone) \in Nat /\ Cardinality(symmetric) \in Nat
      BY FS_CardinalityType DEF SessionInv
  <2>2. Cardinality(fullcone) <= fullcone_maxsize /\ Cardinality(symmetric) <= symmetric_maxsize
      BY DEF SessionInv
  <2>3. CASE FakeTargets # {}
      BY <1>1, <2>1, <2>2, <2>3, SizeFacts
  <2>4. CASE FakeTargets = {}
    <3>1. Cardinality(symmetric) = 0
        BY <1>3, <2>4, FS_EmptySet
    <3> QED
        BY <1>1, <2>1, <2>2, <2>4, <3>1, SizeFacts
  <2> QED
      BY <2>3, <2>4
<1> SUFFICES ASSUME SessionIds \ LiveSessions = {} PROVE FALSE
    OBVIOUS
<1>5. LiveSessions = SessionIds
    BY DEF LiveSessions
<1>6. Cardinality(SessionIds) \in Nat /\ Cardinality(Tables) \in Nat
    BY <1>1, FS_CardinalityType, IdFacts
<1> QED
    BY <1>2, <1>4, <1>5, <1>6, IdFacts

\* Nodes that only change their age.
LEMMA AgedStep ==
    ASSUME SessionInv, UNCHANGED <<session, fullcone_nodes, symmetric_nodes>>,
           NEW f \in [Tables -> Nodes],
           \A n \in Tables : f[n].key = n.key /\ f[n].session = n.session,
           fullcone' = {f[n] : n \in fullcone}, symmetric' = {f[n] : n \in symmetric}
    PROVE  SessionInv'
<1>1. \A T \in {fullcone, symmetric} :
         /\ IsFiniteSet({f[n] : n \in T}) /\ Cardinality({f[n] : n \in T}) = Cardinality(T)
  <2> SUFFICES ASSUME NEW T \in {fullcone, symmetric}
               PROVE  /\ IsFiniteSet({f[n] : n \in T})
                      /\ Cardinality({f[n] : n \in T}) = Cardinality(T)
      OBVIOUS
  <2> DEFINE B == {f[n] : n \in T}
             g == [n \in T |-> f[n]]
  <2>1. IsFiniteSet(T) /\ Distinct(T) /\ T \subseteq Tables
      BY SessionFacts DEF SessionInv, Tables
  <2>2. g \in [T -> B] /\ (\A n \in T : g[n].key = n.key) /\ \A y \in B : \E n \in T : g[n] = y
      BY <2>1
  <2> HIDE DEF g, B
  <2>3. IsFiniteSet(B) /\ Cardinality(B) = Cardinality(T)
      BY <2>1, <2>2, SameKeys
  <2> QED
      BY <2>3 DEF B
<1>2. \A n \in fullcone : NodeOK(f[n], FALSE)'
    BY DEF SessionInv, NodeOK, Tables
<1>3. \A n \in symmetric : NodeOK(f[n], TRUE)'
    BY DEF SessionInv, NodeOK, Tables
<1>4. Distinct(fullcone \cup symmetric)'
  <2> SUFFICES ASSUME NEW n \in Tables, NEW m \in Tables, f[n].key = f[m].key
               PROVE  n = m
      BY DEF Distinct, Tables
  <2> QED
      BY DEF SessionInv, Distinct, Tables
<1>5. \A i \in LiveSessions' : \E n \in fullcone' \cup symmetric' : n.session = i
  <2> SUFFICES ASSUME NEW i \in LiveSessions
               PROVE  \E n \in fullcone' \cup symmetric' : n.session = i
      BY DEF LiveSessions
  <2>1. PICK n \in Tables : n.session = i
      BY DEF SessionInv, Tables
  <2>2. f[n] \in fullcone' \cup symmetric' /\ f[n].session = i
      BY <2>1 DEF Tables
  <2> QED
      BY <2>2
<1>6. fullcone' \subseteq Nodes /\ symmetric' \subseteq Nodes
    BY DEF Tables
<1> QED
    BY <1>1, <1>2, <1>3, <1>4, <1>5, <1>6 DEF SessionInv

LEMMA TouchStep ==
    ASSUME SessionInv, NEW i, fullcone' = Touched(fullcone, i), symmetric' = Touched(symmetric, i),
           UNCHANGED <<session, fullcone_nodes, symmetric_nodes>>
    PROVE  /\ SessionInv'
           /\ \A m \in Tables' : \E n \in Tables : m.key = n.key /\ m.age \in {0, n.age}
<1> DEFINE F(n) == IF n.session = i THEN [n EXCEPT !.age = 0] ELSE n
           f == [n \in Tables |-> F(n)]
<1>1. 0 \in Ages
    BY TimeAssumption DEF Ages
<1>2. \A n \in Tables : /\ f[n] \in Nodes /\ f[n].key = n.key /\ f[n].session = n.session
                        /\ f[n].age \in {0, n.age}
    BY <1>1, SessionFacts, NodeFacts
<1>3. fullcone' = {f[n] : n \in fullcone} /\ symmetric' = {f[n] : n \in symmetric}
    BY DEF Touched, Tables
<1>4. f \in [Tables -> Nodes]
    BY <1>2
<1> HIDE DEF f
<1>5. SessionInv'
    BY <1>2, <1>3, <1>4, AgedStep
<1>6. \A m \in Tables' : \E n \in Tables : m = f[n]
    BY <1>3 DEF Tables
<1> QED
    BY <1>2, <1>5, <1>6

\* As many nodes leave a table as sessions are closed.
LEMMA WithoutFacts ==
    ASSUME NEW T, IsFiniteSet(T), \A n, m \in T : n.session = m.session => n = m,
           NEW ids, \A j \in ids : \E n \in T : n.session = j
    PROVE  /\ IsFiniteSet(Without(T, ids)) /\ IsFiniteSet(ids)
           /\ Cardinality(Without(T, ids)) = Cardinality(T) - Cardinality(ids)
           /\ Cardinality(ids) \in Nat /\ Cardinality(T) \in Nat
<1> DEFINE R == {n \in T : n.session \in ids}
           f == [n \in R |-> n.session]
<1>1. f \in Bijection(R, ids)
  <2>1. f \in [R -> ids]
      OBVIOUS
  <2>2. \A n, m \in R : f[n] = f[m] => n = m
      OBVIOUS
  <2>3. \A j \in ids : \E n \in R : f[n] = j
      OBVIOUS
  <2> QED
      BY <2>1, <2>2, <2>3 DEF Bijection, Injection, Surjection, IsInjective
<1>2. R \in SUBSET T /\ T \cap R = R /\ Without(T, ids) = T \ R
    BY DEF Without
<1>3. IsFiniteSet(R)
    BY <1>2, FS_Subset
<1>4. IsFiniteSet(ids) /\ Cardinality(ids) = Cardinality(R)
    BY <1>1, <1>3, FS_Bijection DEF ExistsBijection
<1>5. IsFiniteSet(T \ R) /\ Cardinality(T \ R) = Cardinality(T) - Cardinality(R)
    BY <1>2, FS_Difference
<1> QED
    BY <1>2, <1>4, <1>5, FS_CardinalityType

\* udp_session_close of any set of sessions.
LEMMA CloseStep ==
    ASSUME SessionInv, NEW ids \in SUBSET LiveSessions, CloseSessions(ids)
    PROVE  /\ SessionInv' /\ Tables' \subseteq Tables
           /\ \A n \in Tables' : n.session \notin ids
           /\ LiveSessions' = LiveSessions \ ids
<1> DEFINE full == {j \in ids : ~ uses_fakedns(session[j])}
           sym  == ids \ full
<1>1. /\ session' = [j \in SessionIds |-> IF j \in ids THEN Free ELSE session[j]]
      /\ fullcone' = Without(fullcone, full) /\ symmetric' = Without(symmetric, sym)
      /\ fullcone_nodes' = fullcone_nodes - Cardinality(full)
      /\ symmetric_nodes' = symmetric_nodes - Cardinality(sym)
    BY DEF CloseSessions
<1>2. ids \subseteq SessionIds
    BY DEF LiveSessions
<1>3. \A j \in ids : \E n \in Tables : n.session = j
    BY DEF SessionInv, Tables
<1>4. (\A j \in full : \E n \in fullcone : n.session = j)
      /\ (\A j \in sym : \E n \in symmetric : n.session = j)
    BY <1>3, SessionFacts
<1> HIDE DEF full, sym
<1>5. IsFiniteSet(fullcone) /\ IsFiniteSet(symmetric) /\ fullcone \subseteq Tables
      /\ symmetric \subseteq Tables
    BY DEF SessionInv, Tables
<1>6. /\ IsFiniteSet(fullcone') /\ Cardinality(fullcone') = Cardinality(fullcone) - Cardinality(full)
      /\ Cardinality(full) \in Nat /\ Cardinality(fullcone) \in Nat
  <2>1. \A n, m \in fullcone : n.session = m.session => n = m
      BY <1>5, SessionFacts
  <2> QED
      BY <1>1, <1>4, <1>5, <2>1, WithoutFacts
<1>7. /\ IsFiniteSet(symmetric')
      /\ Cardinality(symmetric') = Cardinality(symmetric) - Cardinality(sym)
      /\ Cardinality(sym) \in Nat /\ Cardinality(symmetric) \in Nat
  <2>1. \A n, m \in symmetric : n.session = m.session => n = m
      BY <1>5, SessionFacts
  <2> QED
      BY <1>1, <1>4, <1>5, <2>1, WithoutFacts
<1>8. /\ fullcone' = {n \in fullcone : n.session \notin full}
      /\ symmetric' = {n \in symmetric : n.session \notin sym}
    BY <1>1 DEF Without
<1>9. /\ fullcone' = {n \in fullcone : n.session \notin ids}
      /\ symmetric' = {n \in symmetric : n.session \notin ids}
  <2>1. \A n \in fullcone : n.session \in ids => n.session \in full
      BY <1>5, SessionFacts DEF full
  <2>2. \A n \in symmetric : n.session \in ids => n.session \in sym
      BY <1>5, SessionFacts DEF sym, full
  <2>3. full \subseteq ids /\ sym \subseteq ids
      BY DEF full, sym
  <2> QED
      BY <1>8, <2>1, <2>2, <2>3
<1>10. Tables' \subseteq Tables /\ \A n \in Tables' : n.session \notin ids
    BY <1>9 DEF Tables
<1>11. LiveSessions' = LiveSessions \ ids
    BY <1>1, <1>2 DEF LiveSessions
<1>12. session' \in [SessionIds -> Sessions \cup {Free}]
    BY <1>1 DEF SessionInv
<1>13. \A n \in Tables : n.session \notin ids => session'[n.session] = session[n.session]
  <2>1. \A n \in Tables : n.session \in SessionIds
      BY SessionFacts DEF LiveSessions
  <2> QED
      BY <1>1, <2>1
<1>14. \A n \in fullcone' : NodeOK(n, FALSE)'
    BY <1>9, <1>13 DEF SessionInv, NodeOK, Tables
<1>15. \A n \in symmetric' : NodeOK(n, TRUE)'
    BY <1>9, <1>13 DEF SessionInv, NodeOK, Tables
<1>16. Distinct(fullcone \cup symmetric)'
    BY <1>9 DEF SessionInv, Distinct
<1>17. \A j \in LiveSessions' : \E n \in fullcone' \cup symmetric' : n.session = j
    BY <1>9, <1>11 DEF SessionInv
<1>18. /\ fullcone_nodes' = Cardinality(fullcone') /\ Cardinality(fullcone') <= fullcone_maxsize
       /\ symmetric_nodes' = Cardinality(symmetric')
       /\ Cardinality(symmetric') <= symmetric_maxsize
    BY <1>1, <1>6, <1>7, SizeFacts DEF SessionInv
<1>19. fullcone' \subseteq Nodes /\ symmetric' \subseteq Nodes
    BY <1>9 DEF SessionInv
<1> QED
    BY <1>6, <1>7, <1>10, <1>11, <1>12, <1>14, <1>15, <1>16, <1>17, <1>18, <1>19 DEF SessionInv

LEMMA KeyType == \A s \in Sessions : SessionKey(s) \in Keys
    BY DEF Sessions, SessionKey, Keys, uses_fakedns, Targets

\* A new session takes a free block; the session of the victim is closed.
LEMMA RegisterStep ==
    ASSUME SessionInv, NEW i \in SessionIds \ LiveSessions, NEW s \in Sessions,
           \A n \in Tables : n.key # SessionKey(s), Register(i, s)
    PROVE  /\ SessionInv'
           /\ \A n \in Tables' : n \in Tables \/ n.age = 0
           /\ \A j \in SessionIds : session[j] = Free /\ session'[j] # Free => session'[j] = s
<1> DEFINE new == [key |-> SessionKey(s), session |-> i, age |-> 0]
           fake == uses_fakedns(s)
           maxsize == IF fake THEN symmetric_maxsize ELSE fullcone_maxsize
           A == IF fake THEN symmetric ELSE fullcone
           O == IF fake THEN fullcone ELSE symmetric
<1>1. PICK r \in LruAdd(A, new, maxsize) :
         LET gone == {v.session : v \in r.victims}
             used == 1 - Cardinality(gone)
         IN  /\ session' = [j \in SessionIds |-> IF j \in gone THEN Free
                                                 ELSE IF j = i THEN s ELSE session[j]]
             /\ IF fake
                THEN /\ symmetric' = r.table
                     /\ symmetric_nodes' = symmetric_nodes + used
                     /\ UNCHANGED <<fullcone, fullcone_nodes>>
                ELSE /\ fullcone' = r.table
                     /\ fullcone_nodes' = fullcone_nodes + used
                     /\ UNCHANGED <<symmetric, symmetric_nodes>>
    BY DEF Register
<1> DEFINE gone == {v.session : v \in r.victims}
           used == 1 - Cardinality(gone)
<1>2. new \in Nodes /\ new.key = SessionKey(s) /\ new.session = i /\ new.age = 0
  <2>1. 0 \in Ages
      BY TimeAssumption DEF Ages
  <2> QED
      BY <2>1, KeyType DEF Nodes
<1>3. A \subseteq Tables /\ O \subseteq Tables /\ Tables = A \cup O /\ A \cap O = {}
    BY SessionFacts DEF Tables
<1>4. new \notin A /\ new \notin O
    BY <1>2, <1>3
<1>5. /\ IsFiniteSet(A) /\ Cardinality(A) <= maxsize /\ maxsize \in Nat \ {0}
      /\ g_udp_idletimeout_sec + GC_INTERVAL_SEC \in Nat
      /\ \A n \in A : n.age \in 0 .. g_udp_idletimeout_sec + GC_INTERVAL_SEC
  <2>1. \A n \in A : n.age \in Ages
      BY <1>3, SessionFacts, NodeFacts
  <2> QED
      BY <2>1, SizeFacts, TimeAssumption DEF SessionInv, Ages
<1> HIDE DEF new, maxsize, A, O
<1>6. /\ IsFiniteSet(r.table) /\ Cardinality(r.table) <= maxsize
      /\ \/ /\ r.victims = {} /\ r.table = A \cup {new}
            /\ Cardinality(r.table) = Cardinality(A) + 1
         \/ \E v \in A : /\ r.victims = {v} /\ r.table = (A \cup {new}) \ {v}
                         /\ Cardinality(r.table) = Cardinality(A)
    BY <1>4, <1>5, LruAddFacts
<1>7. Cardinality(r.table) = Cardinality(A) + used /\ Cardinality(A) \in Nat
  <2>1. Cardinality(A) \in Nat
      BY <1>5, FS_CardinalityType
  <2>2. CASE r.victims = {} /\ Cardinality(r.table) = Cardinality(A) + 1
    <3>1. gone = {}
        BY <2>2
    <3>2. Cardinality(gone) = 0
        BY <3>1, FS_EmptySet
    <3> QED
        BY <2>1, <2>2, <3>2
  <2>3. ASSUME NEW v \in A, r.victims = {v}, Cardinality(r.table) = Cardinality(A)
        PROVE  Cardinality(r.table) = Cardinality(A) + used
    <3>1. gone = {v.session}
        BY <2>3
    <3>2. Cardinality(gone) = 1
        BY <3>1, FS_Singleton
    <3> QED
        BY <2>1, <2>3, <3>2
  <2> QED
      BY <1>6, <2>1, <2>2, <2>3
<1>8. session' = [j \in SessionIds |-> IF j \in gone THEN Free
                                       ELSE IF j = i THEN s ELSE session[j]]
    BY <1>1
<1>9. /\ r.victims \subseteq A /\ r.table = (A \cup {new}) \ r.victims
    BY <1>4, <1>6
<1>10. /\ \A n \in Tables : n.session \in SessionIds /\ n.session # i
       /\ i \notin gone /\ session[i] = Free
  <2>1. \A n \in Tables : n.session \in LiveSessions
      BY SessionFacts
  <2> QED
      BY <1>3, <1>9, <2>1 DEF LiveSessions
<1>11. session'[i] = s /\ s # Free
    BY <1>8, <1>10, MarkFacts
<1>12. \A n \in Tables : n \notin r.victims => session'[n.session] = session[n.session]
  <2> SUFFICES ASSUME NEW n \in Tables, n \notin r.victims
               PROVE  session'[n.session] = session[n.session]
      OBVIOUS
  <2>1. n.session \notin gone
    <3> SUFFICES ASSUME NEW v \in r.victims, v.session = n.session PROVE FALSE
        OBVIOUS
    <3>1. v \in Tables
        BY <1>3, <1>9
    <3> QED
        BY <3>1, SessionFacts
  <2> QED
      BY <1>8, <1>10, <2>1
<1>13. O \cap r.victims = {}
    BY <1>3, <1>9
<1>14. session' \in [SessionIds -> Sessions \cup {Free}]
    BY <1>8 DEF SessionInv
<1>15. Distinct(r.table \cup O)
  <2>1. Distinct(Tables) /\ \A n \in Tables : n.key # new.key
      BY <1>2 DEF SessionInv, Tables
  <2> QED
      BY <1>3, <1>9, <2>1 DEF Distinct
<1>16. \A j \in LiveSessions' : \E n \in r.table \cup O : n.session = j
  <2> SUFFICES ASSUME NEW j \in SessionIds, session'[j] # Free
               PROVE  \E n \in r.table \cup O : n.session = j
      BY DEF LiveSessions
  <2>1. CASE j = i
      BY <1>2, <1>4, <1>9, <2>1
  <2>2. CASE j # i
    <3>1. j \notin gone /\ session[j] # Free
        BY <1>8, <2>2
    <3>2. PICK n \in Tables : n.session = j
        BY <3>1 DEF SessionInv, Tables, LiveSessions
    <3>3. n \notin r.victims
        BY <3>1, <3>2
    <3> QED
        BY <1>3, <1>9, <3>2, <3>3
  <2> QED
      BY <2>1, <2>2
<1>17. r.table \subseteq Nodes /\ O \subseteq Nodes /\ IsFiniteSet(O)
    BY <1>2, <1>3, <1>9, SessionFacts DEF O, SessionInv
<1>18. \A j \in SessionIds : session[j] = Free /\ session'[j] # Free => session'[j] = s
    BY <1>8
<1>19. CASE fake
  <2>1. A = symmetric /\ O = fullcone /\ maxsize = symmetric_maxsize
      BY <1>19 DEF A, O, maxsize
  <2>2. symmetric' = r.table /\ symmetric_nodes' = symmetric_nodes + used
        /\ fullcone' = fullcone /\ fullcone_nodes' = fullcone_nodes
      BY <1>1, <1>19
  <2>3. \A n \in symmetric' : NodeOK(n, TRUE)'
    <3>1. \A n \in symmetric : n \notin r.victims => NodeOK(n, TRUE)'
        BY <1>3, <1>12, <2>1 DEF SessionInv, NodeOK
    <3>2. NodeOK(new, TRUE)'
        BY <1>2, <1>11, <1>19 DEF NodeOK
    <3> QED
        BY <1>9, <2>1, <2>2, <3>1, <3>2
  <2>4. \A n \in fullcone' : NodeOK(n, FALSE)'
      BY <1>3, <1>12, <1>13, <2>1, <2>2 DEF SessionInv, NodeOK
  <2>5. SessionInv'
    <3>1. fullcone' \cup symmetric' = r.table \cup O
        BY <2>1, <2>2
    <3>2. Distinct(fullcone \cup symmetric)'
        BY <1>15, <3>1 DEF Distinct
    <3> QED
        BY <1>6, <1>7, <1>14, <1>16, <1>17, <2>1, <2>2, <2>3, <2>4, <3>1, <3>2 DEF SessionInv
  <2> QED
      BY <1>2, <1>3, <1>9, <1>18, <2>1, <2>2, <2>5 DEF Tables
<1>20. CASE ~ fake
  <2>1. A = fullcone /\ O = symmetric /\ maxsize = fullcone_maxsize
      BY <1>20 DEF A, O, maxsize
  <2>2. fullcone' = r.table /\ fullcone_nodes' = fullcone_nodes + used
        /\ symmetric' = symmetric /\ symmetric_nodes' = symmetric_nodes
      BY <1>1, <1>20
  <2>3. \A n \in fullcone' : NodeOK(n, FALSE)'
    <3>1. \A n \in fullcone : n \notin r.victims => NodeOK(n, FALSE)'
        BY <1>3, <1>12, <2>1 DEF SessionInv, NodeOK
    <3>2. NodeOK(new, FALSE)'
        BY <1>2, <1>11, <1>20 DEF NodeOK
    <3> QED
        BY <1>9, <2>1, <2>2, <3>1, <3>2
  <2>4. \A n \in symmetric' : NodeOK(n, TRUE)'
      BY <1>3, <1>12, <1>13, <2>1, <2>2 DEF SessionInv, NodeOK
  <2>5. SessionInv'
    <3>1. fullcone' \cup symmetric' = r.table \cup O
        BY <2>1, <2>2
    <3>2. Distinct(fullcone \cup symmetric)'
        BY <1>15, <3>1 DEF Distinct
    <3> QED
        BY <1>6, <1>7, <1>14, <1>16, <1>17, <2>1, <2>2, <2>3, <2>4, <3>1, <3>2 DEF SessionInv
  <2> QED
      BY <1>2, <1>3, <1>9, <1>18, <2>1, <2>2, <2>5 DEF Tables
<1> QED
    BY <1>19, <1>20

-----------------------------------------------------------------------------
(* The reply sockets.                                                      *)

LEMMA EntryFacts ==
    ASSUME NEW n \in Entries
    PROVE  /\ n.key \in Addresses /\ n.entry \in EntryIds /\ n.age \in Ages
           /\ \A a \in Ages : LET m == [n EXCEPT !.age = a]
                              IN  /\ m \in Entries /\ m.key = n.key /\ m.entry = n.entry
                                  /\ m.age = a
BY DEF Entries

LEMMA SocketFacts ==
    ASSUME SocketInv
    PROVE  /\ \A n \in tproxy : /\ n \in Entries /\ n.entry \in LiveSockets
                                /\ socket[n.entry] = n.key
           /\ \A n, m \in tproxy : n.entry = m.entry => n = m
<1>1. \A n \in tproxy : n \in Entries /\ n.entry \in EntryIds /\ n.key \in Addresses
                        /\ socket[n.entry] = n.key
    BY EntryFacts DEF SocketInv
<1>2. \A n \in tproxy : n.entry \in LiveSockets
    BY <1>1, MarkFacts DEF LiveSockets
<1> QED
    BY <1>1, <1>2 DEF SocketInv, Distinct

LEMMA BatchFacts ==
    ASSUME BatchInv, batch # NoBatch
    PROVE  /\ batch \in Batches /\ batch.session \in SessionIds
           /\ batch.left \in 0 .. UDP_BATCH_SIZE /\ batch.sends \subseteq Sends
           /\ batch.deferred \subseteq EntryIds
           /\ Cardinality(batch.deferred) \in Nat /\ Cardinality(batch.sends) \in Nat
<1>1. batch \in Batches
    BY DEF BatchInv
<1>2. IsFiniteSet(batch.deferred) /\ IsFiniteSet(batch.sends)
    BY DEF BatchInv
<1> QED
    BY <1>1, <1>2, FS_CardinalityType DEF Batches

\* With a packet of the batch left there is a block for its socket.
LEMMA SocketsFit ==
    ASSUME SocketInv, BatchInv, InBatch
    PROVE  EntryIds \ LiveSockets # {}
<1> DEFINE U == {n.entry : n \in tproxy}
           f == [n \in tproxy |-> n.entry]
           D == batch.deferred
<1>1. batch # NoBatch /\ batch.left > 0
    BY DEF InBatch
<1>2. /\ IsFiniteSet(D) /\ Cardinality(D) \in Nat /\ batch.left \in Nat
      /\ Cardinality(D) + batch.left <= UDP_BATCH_SIZE
  <2>1. batch.left \in Nat
      BY <1>1, BatchFacts, SizeFacts
  <2> QED
      BY <1>1, <2>1, BatchFacts DEF BatchInv
<1>3. IsFiniteSet(U) /\ Cardinality(U) <= Cardinality(tproxy)
  <2>1. f \in Surjection(tproxy, U)
    <3>1. f \in [tproxy -> U]
        OBVIOUS
    <3>2. \A e \in U : \E n \in tproxy : f[n] = e
        OBVIOUS
    <3> QED
        BY <3>1, <3>2 DEF Surjection
  <2> HIDE DEF f, U
  <2> QED
      BY <2>1, FS_Surjection DEF SocketInv
<1>4. LiveSockets \subseteq U \cup D
    BY DEF SocketInv
<1> HIDE DEF U, D
<1>5. IsFiniteSet(U \cup D) /\ Cardinality(U \cup D) <= Cardinality(U) + Cardinality(D)
  <2>1. /\ IsFiniteSet(U \cup D)
        /\ Cardinality(U \cup D) = Cardinality(U) + Cardinality(D) - Cardinality(U \cap D)
      BY <1>2, <1>3, FS_Union
  <2>2. IsFiniteSet(U \cap D)
      BY <1>3, FS_Intersection
  <2>3. Cardinality(U \cap D) \in Nat /\ Cardinality(U) \in Nat
      BY <1>3, <2>2, FS_CardinalityType
  <2> QED
      BY <1>2, <2>1, <2>3
<1> SUFFICES ASSUME EntryIds \ LiveSockets = {} PROVE FALSE
    OBVIOUS
<1>6. EntryIds \subseteq U \cup D
    BY <1>4
<1>7. Cardinality(EntryIds) <= Cardinality(U \cup D)
    BY <1>5, <1>6, FS_Subset
<1>8. Cardinality(tproxy) \in Nat /\ Cardinality(U) \in Nat /\ Cardinality(U \cup D) \in Nat
      /\ Cardinality(tproxy) <= tproxy_maxsize
    BY <1>3, <1>5, FS_CardinalityType DEF SocketInv
<1> QED
    BY <1>1, <1>2, <1>3, <1>5, <1>7, <1>8, SizeFacts, IdFacts

\* A reply is queued, or not.
LEMMA QueueFacts ==
    ASSUME BatchInv, InBatch, NEW e \in EntryIds, NEW src \in Addresses,
           NEW b, b = Queue(e, src) \/ b = [batch EXCEPT !.left = @ - 1]
    PROVE  /\ b \in Batches /\ b.session = batch.session /\ b.left = batch.left - 1
           /\ b.deferred = batch.deferred
           /\ b.sends \in {batch.sends, batch.sends \cup {[entry |-> e, src |-> src]}}
           /\ IsFiniteSet(b.sends) /\ Cardinality(b.sends) + b.left <= UDP_BATCH_SIZE
<1> DEFINE q == [entry |-> e, src |-> src]
<1>1. batch \in Batches /\ batch.left - 1 \in 0 .. UDP_BATCH_SIZE /\ batch.left \in Nat
      /\ batch.sends \subseteq Sends /\ q \in Sends
    BY BatchFacts, SizeFacts DEF InBatch, Sends
<1>2. CASE b = Queue(e, src)
  <2>1. b = [batch EXCEPT !.left = batch.left - 1, !.sends = batch.sends \cup {q}]
      BY <1>2 DEF Queue
  <2>2. /\ b \in Batches /\ b.session = batch.session /\ b.left = batch.left - 1
        /\ b.deferred = batch.deferred /\ b.sends = batch.sends \cup {q}
    <3>1. batch.sends \cup {q} \in SUBSET Sends
        BY <1>1
    <3> HIDE DEF q
    <3> QED
        BY <1>1, <2>1, <3>1 DEF Batches
  <2>3. /\ IsFiniteSet(batch.sends \cup {q})
        /\ Cardinality(batch.sends \cup {q}) <= Cardinality(batch.sends) + 1
        /\ Cardinality(batch.sends \cup {q}) \in Nat
    <3>1. IsFiniteSet(batch.sends) /\ Cardinality(batch.sends) \in Nat
        BY BatchFacts DEF BatchInv, InBatch
    <3> HIDE DEF q
    <3>2. /\ IsFiniteSet(batch.sends \cup {q})
          /\ Cardinality(batch.sends \cup {q}) =
                IF q \in batch.sends THEN Cardinality(batch.sends) ELSE Cardinality(batch.sends) + 1
        BY <3>1, FS_AddElement
    <3> QED
        BY <3>1, <3>2
  <2>4. Cardinality(b.sends) + b.left <= UDP_BATCH_SIZE
    <3>1. Cardinality(batch.sends) + batch.left <= UDP_BATCH_SIZE /\ Cardinality(batch.sends) \in Nat
        BY BatchFacts DEF BatchInv, InBatch
    <3> HIDE DEF q
    <3> QED
        BY <1>1, <2>2, <2>3, <3>1, SizeFacts
  <2> QED
      BY <2>2, <2>3, <2>4
<1>3. CASE b = [batch EXCEPT !.left = @ - 1]
  <2>1. b = [batch EXCEPT !.left = batch.left - 1]
      BY <1>1, <1>3 DEF Batches
  <2>2. /\ b \in Batches /\ b.session = batch.session /\ b.left = batch.left - 1
        /\ b.deferred = batch.deferred /\ b.sends = batch.sends
      BY <1>1, <2>1 DEF Batches
  <2>3. Cardinality(batch.sends) + batch.left <= UDP_BATCH_SIZE /\ Cardinality(batch.sends) \in Nat
        /\ IsFiniteSet(batch.sends)
      BY BatchFacts DEF BatchInv, InBatch
  <2> QED
      BY <1>1, <2>2, <2>3, SizeFacts
<1> QED
    BY <1>2, <1>3

LEMMA ReplyBeginStep ==
    ASSUME SocketInv, BatchInv, NEW i \in SessionIds, ReplyBegin(i)
    PROVE  SocketInv' /\ BatchInv'
<1>1. PICK k \in 1 .. UDP_BATCH_SIZE : batch' = BatchOf(i, k)
    BY DEF ReplyBegin
<1>2. batch = NoBatch /\ session[i] # Free /\ UNCHANGED <<session, socket, tproxy>>
    BY DEF ReplyBegin, LoopFree, LiveSessions, tproxyVars
<1>3. /\ batch' \in Batches /\ batch'.session = i /\ batch'.left = k
      /\ batch'.sends = {} /\ batch'.deferred = {}
  <2>1. k \in 0 .. UDP_BATCH_SIZE
      BY SizeFacts
  <2> QED
      BY <1>1, <2>1 DEF BatchOf, Batches
<1>4. IsFiniteSet({}) /\ Cardinality({}) = 0 /\ k <= UDP_BATCH_SIZE
    BY FS_EmptySet, SizeFacts
<1>5. BatchInv'
    BY <1>2, <1>3, <1>4 DEF BatchInv
<1>6. SocketInv'
    BY <1>2 DEF SocketInv, LiveSockets
<1> QED
    BY <1>5, <1>6

LEMMA ReplyDroppedStep ==
    ASSUME SocketInv, BatchInv, ReplyDropped
    PROVE  SocketInv' /\ BatchInv'
<1>1. InBatch /\ batch' = [batch EXCEPT !.left = @ - 1] /\ UNCHANGED <<session, socket, tproxy>>
    BY DEF ReplyDropped, sessionVars, tproxyVars
<1>2. batch.left \in 1 .. UDP_BATCH_SIZE /\ batch # NoBatch
    BY <1>1, BatchFacts, SizeFacts DEF InBatch
<1>3. batch \in Batches /\ batch.left - 1 \in 0 .. UDP_BATCH_SIZE /\ batch.left \in Nat
    BY <1>2, BatchFacts, SizeFacts
<1>4. /\ batch' \in Batches /\ batch'.session = batch.session /\ batch'.left = batch.left - 1
      /\ batch'.deferred = batch.deferred /\ batch'.sends = batch.sends
    BY <1>1, <1>3 DEF Batches
<1>5. batch' # NoBatch
    BY <1>4, MarkFacts
<1>6. /\ Cardinality(batch.deferred) \in Nat /\ Cardinality(batch.sends) \in Nat
      /\ Cardinality(batch.deferred) + batch.left <= UDP_BATCH_SIZE
      /\ Cardinality(batch.sends) + batch.left <= UDP_BATCH_SIZE
    BY <1>2, BatchFacts DEF BatchInv
<1>7. BatchInv'
    BY <1>1, <1>2, <1>3, <1>4, <1>6, SizeFacts DEF BatchInv
<1>8. SocketInv'
    BY <1>1, <1>2, <1>4, <1>5 DEF SocketInv, LiveSockets
<1> QED
    BY <1>7, <1>8

\* The entry of a known source becomes young.
LEMMA ReplyKnownStep ==
    ASSUME SocketInv, BatchInv, ReplyKnownSource
    PROVE  /\ SocketInv' /\ BatchInv'
           /\ \A m \in tproxy' : m \in tproxy \/ m.age = 0
<1>1. PICK n \in tproxy : /\ tproxy' = (tproxy \ {n}) \cup {[n EXCEPT !.age = 0]}
                          /\ batch' = Queue(n.entry, n.key)
    BY DEF ReplyKnownSource
<1>2. InBatch /\ UNCHANGED <<session, socket>>
    BY DEF ReplyKnownSource, sessionVars
<1>3. n \in Entries /\ n.entry \in EntryIds /\ n.key \in Addresses /\ socket[n.entry] = n.key
    BY SocketFacts, EntryFacts
<1> DEFINE m == [n EXCEPT !.age = 0]
<1>4. m \in Entries /\ m.key = n.key /\ m.entry = n.entry /\ m.age = 0
  <2>1. 0 \in Ages
      BY TimeAssumption DEF Ages
  <2> QED
      BY <1>3, <2>1, EntryFacts
<1>5. tproxy' = (tproxy \ {n}) \cup {m}
    BY <1>1
<1> HIDE DEF m
<1>6. m \notin tproxy \ {n}
    BY <1>4 DEF SocketInv, Distinct
<1>7. IsFiniteSet(tproxy') /\ Cardinality(tproxy') <= tproxy_maxsize
  <2>1. /\ IsFiniteSet(tproxy \ {n}) /\ Cardinality(tproxy \ {n}) = Cardinality(tproxy) - 1
      BY FS_RemoveElement DEF SocketInv
  <2>2. /\ IsFiniteSet(tproxy') /\ Cardinality(tproxy') = Cardinality(tproxy \ {n}) + 1
      BY <1>5, <1>6, <2>1, FS_AddElement
  <2>3. Cardinality(tproxy) \in Nat
      BY FS_CardinalityType DEF SocketInv
  <2> QED
      BY <2>1, <2>2, <2>3 DEF SocketInv
<1>8. Distinct(tproxy)'
    BY <1>4, <1>5 DEF SocketInv, Distinct
<1>9. /\ batch' \in Batches /\ batch'.session = batch.session /\ batch'.left = batch.left - 1
      /\ batch'.deferred = batch.deferred
      /\ batch'.sends \in {batch.sends, batch.sends \cup {[entry |-> n.entry, src |-> n.key]}}
      /\ IsFiniteSet(batch'.sends) /\ Cardinality(batch'.sends) + batch'.left <= UDP_BATCH_SIZE
    BY <1>1, <1>2, <1>3, QueueFacts
<1>10. batch # NoBatch /\ batch' # NoBatch
    BY <1>2, <1>9, MarkFacts DEF InBatch
<1>11. SocketInv'
    BY <1>2, <1>3, <1>4, <1>5, <1>7, <1>8, <1>9, <1>10 DEF SocketInv, LiveSockets
<1>12. BatchInv'
  <2>1. \A q \in batch'.sends : socket'[q.entry] = q.src
      BY <1>2, <1>3, <1>9, <1>10 DEF BatchInv
  <2>2. \A x \in tproxy' : x.entry \notin batch'.deferred
      BY <1>4, <1>5, <1>9, <1>10 DEF BatchInv
  <2>3. IsFiniteSet(batch'.deferred) /\ Cardinality(batch'.deferred) + batch'.left <= UDP_BATCH_SIZE
    <3>1. /\ Cardinality(batch.deferred) \in Nat /\ batch.left \in 0 .. UDP_BATCH_SIZE
          /\ Cardinality(batch.deferred) + batch.left <= UDP_BATCH_SIZE
          /\ IsFiniteSet(batch.deferred)
        BY <1>10, BatchFacts DEF BatchInv
    <3> QED
        BY <1>9, <3>1, SizeFacts
  <2>4. \A d \in batch'.deferred : socket'[d] # Free
      BY <1>2, <1>9, <1>10 DEF BatchInv
  <2> QED
      BY <1>2, <1>9, <1>10, <2>1, <2>2, <2>3, <2>4 DEF BatchInv
<1> QED
    BY <1>4, <1>5, <1>11, <1>12

\* A new source: the entry that it may evict stays open until the batch is sent.
LEMMA ReplyNewStep ==
    ASSUME SocketInv, BatchInv, NEW src \in Addresses, ReplyNewSource(src)
    PROVE  /\ SocketInv' /\ BatchInv' /\ UNCHANGED exhausted
           /\ \A m \in tproxy' : m \in tproxy \/ m.age = 0
<1>1. InBatch /\ UNCHANGED session /\ \A n \in tproxy : n.key # src
    BY DEF ReplyNewSource, sessionVars
<1>2. EntryIds \ LiveSockets # {}
    BY <1>1, SocketsFit
<1>3. PICK e \in EntryIds \ LiveSockets : e = Min(EntryIds \ LiveSockets)
  <2>1. EntryIds \ LiveSockets \in SUBSET Nat
      BY IdFacts
  <2> QED
      BY <1>2, <2>1, LeastNat
<1> DEFINE new == [key |-> src, entry |-> e, age |-> 0]
<1>4. PICK r \in LruAdd(tproxy, new, tproxy_maxsize) :
         tproxy' = r.table /\ EvictEntries(e, src, {v.entry : v \in r.victims})
    BY <1>2, <1>3 DEF ReplyNewSource
<1>5. UNCHANGED exhausted
    BY <1>2 DEF ReplyNewSource
<1>6. new \in Entries /\ new.key = src /\ new.entry = e /\ new.age = 0
  <2>1. 0 \in Ages
      BY TimeAssumption DEF Ages
  <2> QED
      BY <2>1 DEF Entries
<1>7. new \notin tproxy
    BY <1>1, <1>6
<1>8. \A n \in tproxy : n.age \in 0 .. g_udp_idletimeout_sec + GC_INTERVAL_SEC
    BY SocketFacts, EntryFacts DEF Ages
<1>9. g_udp_idletimeout_sec + GC_INTERVAL_SEC \in Nat
    BY TimeAssumption
<1> HIDE DEF new
<1>10. /\ IsFiniteSet(r.table) /\ Cardinality(r.table) <= tproxy_maxsize
       /\ \/ r.victims = {} /\ r.table = tproxy \cup {new}
          \/ \E v \in tproxy : r.victims = {v} /\ r.table = (tproxy \cup {new}) \ {v}
    BY <1>7, <1>8, <1>9, SizeFacts, LruAddFacts DEF SocketInv
<1> DEFINE ids == {v.entry : v \in r.victims}
           b == Queue(e, src)
<1>11. socket' = [socket EXCEPT ![e] = src] /\ batch' = [b EXCEPT !.deferred = @ \cup ids]
    BY <1>4 DEF EvictEntries
<1>12. r.victims \subseteq tproxy /\ tproxy' = (tproxy \cup {new}) \ r.victims
    BY <1>4, <1>7, <1>10
<1>13. ids \subseteq LiveSockets /\ ids \subseteq EntryIds /\ e \notin ids
  <2>1. ids \subseteq LiveSockets
      BY <1>12, SocketFacts
  <2> QED
      BY <2>1 DEF LiveSockets
<1>14. IsFiniteSet(ids) /\ Cardinality(ids) <= 1 /\ Cardinality(ids) \in Nat
  <2>1. CASE r.victims = {}
    <3>1. ids = {}
        BY <2>1
    <3>2. IsFiniteSet({}) /\ Cardinality({}) = 0
        BY FS_EmptySet
    <3> HIDE DEF ids
    <3> QED
        BY <3>1, <3>2
  <2>2. ASSUME NEW v \in tproxy, r.victims = {v}
        PROVE  IsFiniteSet(ids) /\ Cardinality(ids) = 1
    <3>1. ids = {v.entry}
        BY <2>2
    <3> QED
        BY <3>1, FS_Singleton
  <2> QED
      BY <1>10, <2>1, <2>2
<1>15. /\ b \in Batches /\ b.session = batch.session /\ b.left = batch.left - 1
       /\ b.deferred = batch.deferred
       /\ b.sends \in {batch.sends, batch.sends \cup {[entry |-> e, src |-> src]}}
       /\ IsFiniteSet(b.sends) /\ Cardinality(b.sends) + b.left <= UDP_BATCH_SIZE
    BY <1>1, QueueFacts
<1> HIDE DEF b, ids
<1>16. /\ batch' \in Batches /\ batch'.session = batch.session /\ batch'.left = batch.left - 1
       /\ batch'.deferred = batch.deferred \cup ids /\ batch'.sends = b.sends
  <2>1. batch.deferred \cup ids \in SUBSET EntryIds
      BY <1>1, <1>13, BatchFacts DEF InBatch
  <2> QED
      BY <1>11, <1>15, <2>1 DEF Batches
<1>17. batch # NoBatch /\ batch' # NoBatch
    BY <1>1, <1>16, MarkFacts DEF InBatch
<1>18. /\ IsFiniteSet(batch'.deferred)
       /\ Cardinality(batch'.deferred) + batch'.left <= UDP_BATCH_SIZE
  <2> DEFINE D == batch.deferred
  <2>1. /\ Cardinality(D) \in Nat /\ batch.left \in 0 .. UDP_BATCH_SIZE
        /\ Cardinality(D) + batch.left <= UDP_BATCH_SIZE /\ IsFiniteSet(D)
      BY <1>17, BatchFacts DEF BatchInv
  <2> HIDE DEF D
  <2>2. /\ IsFiniteSet(D \cup ids)
        /\ Cardinality(D \cup ids) = Cardinality(D) + Cardinality(ids) - Cardinality(D \cap ids)
      BY <1>14, <2>1, FS_Union
  <2>3. Cardinality(D \cap ids) \in Nat
      BY <2>1, FS_Intersection, FS_CardinalityType
  <2>4. Cardinality(D \cup ids) <= Cardinality(D) + 1
      BY <1>14, <2>1, <2>2, <2>3
  <2> QED
      BY <1>16, <2>1, <2>2, <2>3, <2>4, <1>14, SizeFacts DEF D
<1>19. /\ socket' \in [EntryIds -> Addresses \cup {Free}] /\ socket'[e] = src
       /\ \A d \in EntryIds : d # e => socket'[d] = socket[d]
       /\ socket[e] = Free
    BY <1>3, <1>11 DEF SocketInv, LiveSockets
<1>20. /\ \A n \in tproxy' : socket'[n.entry] = n.key
       /\ \A n \in tproxy' : n \in Entries
       /\ Distinct(tproxy)'
  <2>1. \A n \in tproxy : n \in Entries /\ n.entry \in EntryIds /\ n.entry # e
                          /\ socket[n.entry] = n.key
      BY <1>3, SocketFacts, EntryFacts
  <2>2. Distinct(tproxy)'
      BY <1>1, <1>6, <1>12 DEF SocketInv, Distinct
  <2> QED
      BY <1>6, <1>12, <1>19, <2>1, <2>2
<1>21. \A d \in LiveSockets' : (\E n \in tproxy' : n.entry = d) \/ d \in batch'.deferred
  <2> SUFFICES ASSUME NEW d \in EntryIds, socket'[d] # Free, d \notin batch'.deferred
               PROVE  \E n \in tproxy' : n.entry = d
      BY DEF LiveSockets
  <2>1. CASE d = e
      BY <1>6, <1>7, <1>12, <2>1
  <2>2. CASE d # e
    <3>1. d \in LiveSockets /\ d \notin batch.deferred /\ d \notin ids
        BY <1>16, <1>19, <2>2 DEF LiveSockets
    <3>2. PICK n \in tproxy : n.entry = d
        BY <3>1 DEF SocketInv
    <3>3. n \notin r.victims
        BY <3>1, <3>2 DEF ids
    <3> QED
        BY <1>12, <3>2, <3>3
  <2> QED
      BY <2>1, <2>2
<1>22. SocketInv'
    BY <1>4, <1>10, <1>17, <1>19, <1>20, <1>21 DEF SocketInv
<1>23. BatchInv'
  <2>1. \A q \in batch'.sends : socket'[q.entry] = q.src
    <3>1. \A q \in batch.sends : q.entry \in EntryIds /\ q.src \in Addresses /\ socket[q.entry] = q.src
      <4>1. batch.sends \subseteq Sends
          BY <1>17, BatchFacts
      <4> QED
          BY <1>17, <4>1 DEF BatchInv, Sends
    <3>2. \A q \in batch.sends : q.entry # e
        BY <1>19, <3>1, MarkFacts
    <3> QED
        BY <1>15, <1>16, <1>19, <3>1, <3>2
  <2>2. \A n \in tproxy' : n.entry \notin batch'.deferred
    <3>1. \A n \in tproxy : n.entry \notin batch.deferred
        BY <1>17 DEF BatchInv
    <3>2. \A n \in tproxy : n.entry \in ids => n \in r.victims
        BY <1>12, SocketFacts DEF ids
    <3>3. e \notin batch.deferred
        BY <1>17, <1>19 DEF BatchInv
    <3> QED
        BY <1>6, <1>12, <1>13, <1>16, <3>1, <3>2, <3>3
  <2>3. session'[batch'.session] # Free
      BY <1>1, <1>16, <1>17 DEF BatchInv
  <2>4. \A d \in batch'.deferred : socket'[d] # Free
    <3>1. \A d \in batch.deferred \cup ids : d \in EntryIds /\ socket[d] # Free
      <4>1. batch.deferred \subseteq EntryIds
          BY <1>17, BatchFacts
      <4> QED
          BY <1>13, <1>17, <4>1 DEF BatchInv, LiveSockets
    <3> QED
        BY <1>16, <1>19, <3>1
  <2> QED
      BY <1>15, <1>16, <1>17, <1>18, <2>1, <2>2, <2>3, <2>4 DEF BatchInv
<1> QED
    BY <1>5, <1>6, <1>12, <1>22, <1>23

\* The batch is sent and the evicted entries are freed.
LEMMA ReplyFlushStep ==
    ASSUME SocketInv, BatchInv, ReplyFlush
    PROVE  SocketInv' /\ BatchInv'
<1>1. /\ batch # NoBatch /\ batch' = NoBatch /\ tproxy' = tproxy
      /\ socket' = [e \in EntryIds |-> IF e \in batch.deferred THEN Free ELSE socket[e]]
    BY DEF ReplyFlush
<1>2. socket' \in [EntryIds -> Addresses \cup {Free}]
    BY <1>1 DEF SocketInv
<1>3. \A n \in tproxy : n.entry \in EntryIds /\ socket'[n.entry] = n.key
  <2>1. \A n \in tproxy : n.entry \in EntryIds /\ socket[n.entry] = n.key
      BY SocketFacts, EntryFacts
  <2>2. \A n \in tproxy : n.entry \notin batch.deferred
      BY <1>1 DEF BatchInv
  <2> QED
      BY <1>1, <2>1, <2>2
<1>4. \A e \in LiveSockets' : \E n \in tproxy : n.entry = e
  <2>1. \A e \in LiveSockets' : e \in LiveSockets /\ e \notin batch.deferred
      BY <1>1 DEF LiveSockets
  <2> QED
      BY <2>1 DEF SocketInv
<1> QED
    BY <1>1, <1>2, <1>3, <1>4 DEF SocketInv, BatchInv, Distinct

\* Entries leave the table and are freed.
LEMMA FreeEntriesStep ==
    ASSUME SocketInv, batch = NoBatch, batch' = NoBatch,
           NEW nodes \in SUBSET tproxy, FreeEntries(nodes)
    PROVE  SocketInv'
<1>1. /\ tproxy' = tproxy \ nodes
      /\ socket' = [e \in EntryIds |-> IF \E n \in nodes : n.entry = e THEN Free
                                       ELSE socket[e]]
    BY DEF FreeEntries
<1>2. socket' \in [EntryIds -> Addresses \cup {Free}]
    BY <1>1 DEF SocketInv
<1>3. IsFiniteSet(tproxy') /\ Cardinality(tproxy') <= tproxy_maxsize
  <2>1. IsFiniteSet(tproxy) /\ tproxy' \subseteq tproxy /\ Cardinality(tproxy) <= tproxy_maxsize
      BY <1>1 DEF SocketInv
  <2>2. IsFiniteSet(tproxy') /\ Cardinality(tproxy') <= Cardinality(tproxy)
      BY <2>1, FS_Subset
  <2>3. Cardinality(tproxy) \in Nat /\ Cardinality(tproxy') \in Nat
      BY <2>1, <2>2, FS_CardinalityType
  <2> QED
      BY <2>1, <2>2, <2>3, SizeFacts
<1>4. \A n \in tproxy' : socket'[n.entry] = n.key
  <2>1. \A n \in tproxy : n.entry \in EntryIds /\ socket[n.entry] = n.key
      BY SocketFacts, EntryFacts
  <2>2. \A n \in tproxy' : ~ \E m \in nodes : m.entry = n.entry
      BY <1>1, SocketFacts
  <2> QED
      BY <1>1, <2>1, <2>2
<1>5. \A e \in LiveSockets' : \E n \in tproxy' : n.entry = e
  <2> SUFFICES ASSUME NEW e \in EntryIds, socket'[e] # Free
               PROVE  \E n \in tproxy' : n.entry = e
      BY DEF LiveSockets
  <2>1. e \in LiveSockets /\ ~ \E n \in nodes : n.entry = e
      BY <1>1 DEF LiveSockets
  <2>2. PICK n \in tproxy : n.entry = e
      BY <2>1 DEF SocketInv
  <2> QED
      BY <1>1, <2>1, <2>2
<1>6. tproxy' \subseteq Entries /\ Distinct(tproxy)'
    BY <1>1 DEF SocketInv, Distinct
<1> QED
    BY <1>2, <1>3, <1>4, <1>5, <1>6 DEF SocketInv

\* Entries grow older.
LEMMA OlderEntriesStep ==
    ASSUME SocketInv, batch = NoBatch, UNCHANGED <<socket, batch>>,
           \A n \in tproxy : n.age + 1 \in Ages, tproxy' = Older(tproxy)
    PROVE  SocketInv' /\ \A m \in tproxy' : \E n \in tproxy : m.age = n.age + 1
<1> DEFINE f == [n \in tproxy |-> [n EXCEPT !.age = @ + 1]]
           B == {f[n] : n \in tproxy}
<1>1. \A n \in tproxy : /\ f[n] \in Entries /\ f[n].key = n.key /\ f[n].entry = n.entry
                        /\ f[n].age = n.age + 1
  <2> SUFFICES ASSUME NEW n \in tproxy
               PROVE  /\ f[n] \in Entries /\ f[n].key = n.key /\ f[n].entry = n.entry
                      /\ f[n].age = n.age + 1
      OBVIOUS
  <2>1. n \in Entries /\ n.age + 1 \in Ages
      BY SocketFacts
  <2>2. f[n] = [n EXCEPT !.age = n.age + 1]
      BY <2>1 DEF Entries
  <2> HIDE DEF f
  <2> QED
      BY <2>1, <2>2, EntryFacts
<1>2. tproxy' = B
    BY DEF Older
<1>3. f \in [tproxy -> B] /\ \A y \in B : \E n \in tproxy : f[n] = y
    OBVIOUS
<1>4. B \subseteq Entries
    BY <1>1
<1>5. \A y \in B : \E n \in tproxy : y = f[n]
    OBVIOUS
<1>6. \A n \in tproxy : f[n] \in B
    OBVIOUS
<1> HIDE DEF f, B
<1>7. IsFiniteSet(B) /\ Cardinality(B) = Cardinality(tproxy)
    BY <1>1, <1>3, SameKeys DEF SocketInv
<1>8. Distinct(tproxy)'
    BY <1>1, <1>2, <1>5 DEF SocketInv, Distinct
<1>9. \A m \in B : socket[m.entry] = m.key
    BY <1>1, <1>5 DEF SocketInv
<1>10. \A e \in LiveSockets : \E m \in B : m.entry = e
    BY <1>1, <1>6 DEF SocketInv
<1>11. LiveSockets' = LiveSockets
    BY DEF LiveSockets
<1> QED
    BY <1>1, <1>2, <1>4, <1>5, <1>7, <1>8, <1>9, <1>10, <1>11 DEF SocketInv

-----------------------------------------------------------------------------
(* The steps.                                                              *)

\* Nodes that are as old as before, or new, are within the bound.
LEMMA AgeKept ==
    ASSUME AgeInv, gc_in' = gc_in,
           \A m \in Tables' : m.age = 0 \/ \E n \in Tables : m.age = n.age,
           \A m \in tproxy' : m.age = 0 \/ \E n \in tproxy : m.age = n.age
    PROVE  AgeInv'
<1>1. gc_in \in 0 .. GC_INTERVAL_SEC /\ gc_in \in Nat
      /\ g_udp_idletimeout_sec \in Nat \ {0} /\ GC_INTERVAL_SEC \in Nat \ {0}
    BY TimeAssumption DEF AgeInv
<1>2. /\ 0 + gc_in < g_udp_idletimeout_sec + GC_INTERVAL_SEC
      /\ 2 * (0 + gc_in - GC_INTERVAL_SEC) < g_udp_idletimeout_sec
    BY <1>1
<1>3. \A m \in Tables' : m.age + gc_in < g_udp_idletimeout_sec + GC_INTERVAL_SEC
    BY <1>2 DEF AgeInv, Tables
<1>4. \A m \in tproxy' : 2 * (m.age + gc_in - GC_INTERVAL_SEC) < g_udp_idletimeout_sec
    BY <1>2 DEF AgeInv
<1> QED
    BY <1>1, <1>3, <1>4 DEF AgeInv, Tables

LEMMA SessionFrame ==
    ASSUME SessionInv, UNCHANGED sessionVars
    PROVE  SessionInv' /\ Tables' = Tables
BY DEF SessionInv, sessionVars, Tables, NodeOK, Distinct, LiveSessions

LEMMA SocketFrame ==
    ASSUME SocketInv, UNCHANGED <<socket, tproxy, batch>>
    PROVE  SocketInv'
BY DEF SocketInv, Distinct, LiveSockets

\* A packet that finds a session, or none.
LEMMA IngressStep ==
    ASSUME UdpInv, NEW pkt \in Packets, Ingress(pkt)
    PROVE  UdpInv'
<1>1. SessionInv /\ SocketInv /\ BatchInv /\ PhaseInv /\ AgeInv
    BY DEF UdpInv
<1>2. /\ pending = NoPending /\ batch = NoBatch /\ closed = FALSE
      /\ UNCHANGED <<socket, tproxy, batch, gc_in, exhausted, closed>>
    BY <1>1 DEF Ingress, LoopFree, tproxyVars, PhaseInv
<1>3. SocketInv'
    BY <1>1, <1>2, SocketFrame
<1>4. BatchInv'
    BY <1>2 DEF BatchInv
<1>5. PICK h \in [Servers -> Health], b \in Servers :
         \/ \E n \in udp_session_lookup(pkt) : IngressReplace(pkt, n, h, b) \/ IngressReuse(n, h, b)
         \/ udp_session_lookup(pkt) = {} /\ IngressNew(pkt, b)
    BY DEF Ingress
<1>6. ASSUME NEW n \in udp_session_lookup(pkt), IngressReplace(pkt, n, h, b)
      PROVE  SessionInv' /\ PhaseInv' /\ AgeInv'
  <2>1. n \in Tables /\ n.key = SessionKey(pkt)
      BY DEF udp_session_lookup, Tables
  <2>2. n.session \in LiveSessions /\ session[n.session] \in Sessions
      BY <1>1, <2>1, SessionFacts
  <2>3. PICK old : old = session[n.session].server_idx
      OBVIOUS
  <2>4. PICK new : new = server_selector_udp_replacement(h, b, old)
      OBVIOUS
  <2>5. /\ new # None /\ CloseSessions({n.session})
        /\ pending' = [pkt |-> pkt, server_idx |-> new, replaced |-> old]
      BY <1>6, <2>3, <2>4 DEF IngressReplace
  <2>6. new \in Servers /\ new # old /\ old \in Servers
      BY <2>2, <2>3, <2>4, <2>5 DEF server_selector_udp_replacement, Sessions
  <2>7. /\ SessionInv' /\ Tables' \subseteq Tables
        /\ \A m \in Tables' : m.session \notin {n.session}
      BY <1>1, <2>2, <2>5, CloseStep
  <2>8. \A m \in Tables' : m.key # SessionKey(pkt)
      BY <1>1, <2>1, <2>7 DEF SessionInv, Distinct, Tables
  <2>9. /\ pending' \in Creations /\ pending'.pkt = pkt
        /\ pending'.server_idx # pending'.replaced
      BY <2>5, <2>6 DEF Creations
  <2>10. PhaseInv'
      BY <1>1, <1>2, <2>8, <2>9 DEF PhaseInv, Tables
  <2>11. AgeInv'
      BY <1>1, <1>2, <2>7, AgeKept
  <2> QED
      BY <2>7, <2>10, <2>11
<1>7. ASSUME NEW n \in udp_session_lookup(pkt), IngressReuse(n, h, b)
      PROVE  SessionInv' /\ PhaseInv' /\ AgeInv'
  <2>1. /\ fullcone' = Touched(fullcone, n.session) /\ symmetric' = Touched(symmetric, n.session)
        /\ UNCHANGED <<session, fullcone_nodes, symmetric_nodes, pending>>
      BY <1>7 DEF IngressReuse
  <2>2. /\ SessionInv'
        /\ \A m \in Tables' : \E k \in Tables : m.key = k.key /\ m.age \in {0, k.age}
      BY <1>1, <2>1, TouchStep
  <2>3. AgeInv'
      BY <1>1, <1>2, <2>2, AgeKept
  <2>4. PhaseInv'
      BY <1>1, <1>2, <2>1 DEF PhaseInv
  <2> QED
      BY <2>2, <2>3, <2>4
<1>8. ASSUME udp_session_lookup(pkt) = {}, IngressNew(pkt, b)
      PROVE  SessionInv' /\ PhaseInv' /\ AgeInv'
  <2>1. /\ pending' = [pkt |-> pkt, server_idx |-> b, replaced |-> None]
        /\ UNCHANGED sessionVars
      BY <1>8 DEF IngressNew
  <2>2. SessionInv' /\ Tables' = Tables
      BY <1>1, <2>1, SessionFrame
  <2>3. AgeInv'
      BY <1>1, <1>2, <2>2, AgeKept
  <2>4. \A m \in Tables : m.key # SessionKey(pkt)
      BY <1>8 DEF udp_session_lookup, Tables
  <2>5. b # None
      BY NAssumption DEF Servers, None
  <2>6. /\ pending' \in Creations /\ pending'.pkt = pkt
        /\ pending'.server_idx # pending'.replaced
      BY <2>1, <2>5 DEF Creations
  <2>7. PhaseInv'
      BY <1>1, <1>2, <2>2, <2>4, <2>6 DEF PhaseInv, Tables
  <2> QED
      BY <2>2, <2>3, <2>7
<1> QED
    BY <1>3, <1>4, <1>5, <1>6, <1>7, <1>8 DEF UdpInv

LEMMA CreateFailsStep ==
    ASSUME UdpInv, CreateFails
    PROVE  UdpInv'
<1>1. SessionInv /\ SocketInv /\ BatchInv /\ PhaseInv /\ AgeInv
    BY DEF UdpInv
<1>2. /\ pending' = NoPending
      /\ UNCHANGED <<sessionVars, socket, tproxy, batch, gc_in, exhausted, closed>>
    BY DEF CreateFails, tproxyVars
<1>3. SessionInv' /\ Tables' = Tables /\ SocketInv'
    BY <1>1, <1>2, SessionFrame, SocketFrame
<1>4. AgeInv'
    BY <1>1, <1>2, <1>3, AgeKept
<1>5. BatchInv' /\ PhaseInv'
    BY <1>1, <1>2 DEF BatchInv, PhaseInv, sessionVars
<1> QED
    BY <1>3, <1>4, <1>5 DEF UdpInv

\* The pools have a session and a node for what is to be created.
LEMMA BlocksLeft ==
    ASSUME SessionInv, NEW s \in Sessions
    PROVE  /\ SessionIds \ LiveSessions # {} /\ NodeLeft(s)
           /\ Min(SessionIds \ LiveSessions) \in SessionIds \ LiveSessions
<1>1. SessionIds \ LiveSessions # {}
    BY SessionsFit
<1>2. Min(SessionIds \ LiveSessions) \in SessionIds \ LiveSessions
  <2>1. SessionIds \ LiveSessions \in SUBSET Nat
      BY IdFacts
  <2> QED
      BY <1>1, <2>1, LeastNat
<1>3. Cardinality(fullcone) \in Nat /\ Cardinality(symmetric) \in Nat
    BY FS_CardinalityType DEF SessionInv
<1>4. NodeLeft(s)
  <2>1. uses_fakedns(s) => fakedns_enabled
      BY DEF uses_fakedns, fakedns_enabled
  <2> QED
      BY <1>3, <2>1, SizeFacts
         DEF NodeLeft, SessionInv, fullcone_node_max_blocks, symmetric_node_max_blocks
<1> QED
    BY <1>1, <1>2, <1>4

\* A creation takes place at the server that was chosen.
LEMMA CreateStep ==
    ASSUME UdpInv, udp_session_create
    PROVE  /\ UdpInv'
           /\ \A i \in SessionIds : session[i] = Free /\ session'[i] # Free
                                      => session'[i].server_idx # pending.replaced
<1>1. SessionInv /\ SocketInv /\ BatchInv /\ PhaseInv /\ AgeInv
    BY DEF UdpInv
<1>2. /\ pending # NoPending /\ pending' = NoPending
      /\ UNCHANGED <<socket, tproxy, batch, gc_in, closed>>
    BY DEF udp_session_create, tproxyVars
<1>3. /\ pending \in Creations /\ pending.pkt \in Packets /\ pending.server_idx \in Servers
      /\ pending.server_idx # pending.replaced /\ batch = NoBatch
      /\ \A n \in Tables : n.key # SessionKey(pending.pkt)
    BY <1>1, <1>2 DEF PhaseInv, Creations, Tables
<1> DEFINE s == [client |-> pending.pkt.client, target |-> pending.pkt.target,
                 server_idx |-> pending.server_idx]
           free == SessionIds \ LiveSessions
<1>4. s \in Sessions
    BY <1>3 DEF Packets, Sessions
<1>5. SessionKey(s) = SessionKey(pending.pkt) /\ s.server_idx = pending.server_idx
    BY DEF SessionKey, uses_fakedns
<1>6. \/ free # {} /\ NodeLeft(s) /\ Register(Min(free), s) /\ UNCHANGED exhausted
      \/ free = {} \/ ~ NodeLeft(s)
    BY DEF udp_session_create, CreatedAt
<1> HIDE DEF s
<1>7. /\ Register(Min(free), s) /\ UNCHANGED exhausted
      /\ Min(free) \in SessionIds \ LiveSessions
    BY <1>1, <1>4, <1>6, BlocksLeft
<1>8. /\ SessionInv'
      /\ \A n \in Tables' : n \in Tables \/ n.age = 0
      /\ \A j \in SessionIds : session[j] = Free /\ session'[j] # Free => session'[j] = s
    BY <1>1, <1>3, <1>4, <1>5, <1>7, RegisterStep
<1>9. SocketInv'
    BY <1>1, <1>2, SocketFrame
<1>10. BatchInv'
    BY <1>2, <1>3 DEF BatchInv
<1>11. AgeInv'
    BY <1>1, <1>2, <1>8, AgeKept
<1>12. PhaseInv'
    BY <1>1, <1>2, <1>3, <1>7 DEF PhaseInv
<1> QED
    BY <1>3, <1>5, <1>8, <1>9, <1>10, <1>11, <1>12 DEF UdpInv

LEMMA ReplyStepKeeps ==
    ASSUME UdpInv, ReplyStep
    PROVE  UdpInv' /\ UNCHANGED session
<1>1. SessionInv /\ SocketInv /\ BatchInv /\ PhaseInv /\ AgeInv
    BY DEF UdpInv
<1>2. ASSUME NEW i \in SessionIds, ReplyBegin(i)
      PROVE  UdpInv' /\ UNCHANGED session
  <2>1. /\ fullcone' = Touched(fullcone, i) /\ symmetric' = Touched(symmetric, i)
        /\ UNCHANGED <<session, fullcone_nodes, symmetric_nodes, tproxy, pending, gc_in,
                       exhausted, closed>>
        /\ pending = NoPending /\ closed = FALSE
      BY <1>1, <1>2 DEF ReplyBegin, tproxyVars, LoopFree, PhaseInv
  <2>2. SocketInv' /\ BatchInv'
      BY <1>1, <1>2, ReplyBeginStep
  <2>3. /\ SessionInv'
        /\ \A m \in Tables' : \E k \in Tables : m.key = k.key /\ m.age \in {0, k.age}
      BY <1>1, <2>1, TouchStep
  <2>4. AgeInv'
      BY <1>1, <2>1, <2>3, AgeKept
  <2>5. PhaseInv'
      BY <1>1, <2>1 DEF PhaseInv
  <2> QED
      BY <2>1, <2>2, <2>3, <2>4, <2>5 DEF UdpInv
<1>3. ASSUME batch # NoBatch, SocketInv', BatchInv',
             UNCHANGED <<sessionVars, pending, gc_in, exhausted, closed>>,
             \A m \in tproxy' : m \in tproxy \/ m.age = 0
      PROVE  UdpInv' /\ UNCHANGED session
  <2>1. pending = NoPending /\ closed = FALSE
      BY <1>1, <1>3 DEF PhaseInv
  <2>2. SessionInv' /\ Tables' = Tables
      BY <1>1, <1>3, SessionFrame
  <2>3. AgeInv'
      BY <1>1, <1>3, <2>2, AgeKept
  <2>4. PhaseInv'
      BY <1>1, <1>3, <2>1 DEF PhaseInv
  <2> QED
      BY <1>3, <2>2, <2>3, <2>4 DEF UdpInv, sessionVars
<1>4. CASE ReplyDropped
  <2>1. SocketInv' /\ BatchInv'
      BY <1>1, <1>4, ReplyDroppedStep
  <2>2. /\ batch # NoBatch /\ UNCHANGED tproxy
        /\ UNCHANGED <<sessionVars, pending, gc_in, exhausted, closed>>
      BY <1>4 DEF ReplyDropped, InBatch, tproxyVars
  <2> QED
      BY <1>3, <2>1, <2>2
<1>5. CASE ReplyKnownSource
  <2>1. SocketInv' /\ BatchInv' /\ \A m \in tproxy' : m \in tproxy \/ m.age = 0
      BY <1>1, <1>5, ReplyKnownStep
  <2>2. batch # NoBatch /\ UNCHANGED <<sessionVars, pending, gc_in, exhausted, closed>>
      BY <1>5 DEF ReplyKnownSource, InBatch
  <2> QED
      BY <1>3, <2>1, <2>2
<1>6. CASE ReplyFlush
  <2>1. SocketInv' /\ BatchInv'
      BY <1>1, <1>6, ReplyFlushStep
  <2>2. /\ batch # NoBatch /\ UNCHANGED tproxy
        /\ UNCHANGED <<sessionVars, pending, gc_in, exhausted, closed>>
      BY <1>6 DEF ReplyFlush
  <2> QED
      BY <1>3, <2>1, <2>2
<1>7. ASSUME NEW src \in Addresses, ReplyNewSource(src)
      PROVE  UdpInv' /\ UNCHANGED session
  <2>1. /\ SocketInv' /\ BatchInv' /\ UNCHANGED exhausted
        /\ \A m \in tproxy' : m \in tproxy \/ m.age = 0
      BY <1>1, <1>7, ReplyNewStep
  <2>2. batch # NoBatch /\ UNCHANGED <<sessionVars, pending, gc_in, closed>>
      BY <1>7 DEF ReplyNewSource, InBatch
  <2> QED
      BY <1>3, <2>1, <2>2
<1> QED
    BY <1>2, <1>4, <1>5, <1>6, <1>7 DEF ReplyStep, Addresses

\* Time passes: the timer comes as much closer as the nodes get older.
LEMMA TickStep ==
    ASSUME UdpInv, Tick
    PROVE  UdpInv' /\ UNCHANGED session
<1>1. SessionInv /\ SocketInv /\ BatchInv /\ PhaseInv /\ AgeInv
    BY DEF UdpInv
<1>2. /\ pending = NoPending /\ batch = NoBatch /\ closed = FALSE
      /\ gc_in > 0 /\ gc_in' = gc_in - 1
      /\ fullcone' = Older(fullcone) /\ symmetric' = Older(symmetric) /\ tproxy' = Older(tproxy)
      /\ UNCHANGED <<session, fullcone_nodes, symmetric_nodes, socket, pending, batch,
                     exhausted, closed>>
    BY <1>1 DEF Tick, LoopFree, PhaseInv
<1>3. /\ gc_in \in 0 .. GC_INTERVAL_SEC /\ gc_in \in Nat \ {0}
      /\ g_udp_idletimeout_sec \in Nat \ {0} /\ GC_INTERVAL_SEC \in Nat \ {0}
    BY <1>1, <1>2, TimeAssumption DEF AgeInv
<1>4. \A n \in Tables : /\ n.age \in Nat /\ n.age + 1 \in Ages
                        /\ n.age + 1 + (gc_in - 1) < g_udp_idletimeout_sec + GC_INTERVAL_SEC
  <2>1. \A n \in Tables : n.age \in Ages
      BY <1>1, SessionFacts, NodeFacts
  <2>2. \A n \in Tables : n.age + gc_in < g_udp_idletimeout_sec + GC_INTERVAL_SEC
      BY <1>1 DEF AgeInv, Tables
  <2> QED
      BY <1>3, <2>1, <2>2 DEF Ages
<1>5. \A n \in tproxy : /\ n.age \in Nat /\ n.age + 1 \in Ages
                        /\ 2 * (n.age + 1 + (gc_in - 1) - GC_INTERVAL_SEC) < g_udp_idletimeout_sec
  <2>1. \A n \in tproxy : n.age \in Ages
      BY <1>1, SocketFacts, EntryFacts
  <2>2. \A n \in tproxy : 2 * (n.age + gc_in - GC_INTERVAL_SEC) < g_udp_idletimeout_sec
      BY <1>1 DEF AgeInv
  <2> QED
      BY <1>3, <2>1, <2>2 DEF Ages
<1>6. SocketInv' /\ \A m \in tproxy' : \E n \in tproxy : m.age = n.age + 1
    BY <1>1, <1>2, <1>5, OlderEntriesStep
<1>7. SessionInv' /\ \A m \in Tables' : \E n \in Tables : m.age = n.age + 1
  <2> DEFINE f == [n \in Tables |-> [n EXCEPT !.age = @ + 1]]
  <2>1. \A n \in Tables : /\ f[n] \in Nodes /\ f[n].key = n.key /\ f[n].session = n.session
                          /\ f[n].age = n.age + 1
    <3> SUFFICES ASSUME NEW n \in Tables
                 PROVE  /\ f[n] \in Nodes /\ f[n].key = n.key /\ f[n].session = n.session
                        /\ f[n].age = n.age + 1
        OBVIOUS
    <3>1. n \in Nodes /\ n.age + 1 \in Ages
        BY <1>1, <1>4, SessionFacts
    <3>2. f[n] = [n EXCEPT !.age = n.age + 1]
        BY <3>1 DEF Nodes
    <3> HIDE DEF f
    <3> QED
        BY <3>1, <3>2, NodeFacts
  <2>2. fullcone' = {f[n] : n \in fullcone} /\ symmetric' = {f[n] : n \in symmetric}
      BY <1>2 DEF Older, Tables
  <2>3. f \in [Tables -> Nodes]
      BY <2>1
  <2> HIDE DEF f
  <2>4. SessionInv'
      BY <1>1, <1>2, <2>1, <2>2, <2>3, AgedStep
  <2>5. \A m \in Tables' : \E n \in Tables : m = f[n]
      BY <2>2 DEF Tables
  <2> QED
      BY <2>1, <2>4, <2>5
<1>8. AgeInv'
  <2>1. gc_in' \in 0 .. GC_INTERVAL_SEC
      BY <1>2, <1>3
  <2>2. \A m \in Tables' : m.age + gc_in' < g_udp_idletimeout_sec + GC_INTERVAL_SEC
      BY <1>2, <1>4, <1>7
  <2>3. \A m \in tproxy' : 2 * (m.age + gc_in' - GC_INTERVAL_SEC) < g_udp_idletimeout_sec
      BY <1>2, <1>5, <1>6
  <2> QED
      BY <2>1, <2>2, <2>3 DEF AgeInv, Tables
<1>9. BatchInv' /\ PhaseInv'
    BY <1>1, <1>2 DEF BatchInv, PhaseInv
<1> QED
    BY <1>2, <1>6, <1>7, <1>8, <1>9 DEF UdpInv

\* The collection, and the end of the thread.
LEMMA SweepStep ==
    ASSUME SessionInv, SocketInv, BatchInv, batch = NoBatch, batch' = NoBatch,
           NEW S \in SUBSET Tables, NEW E \in SUBSET tproxy,
           CloseSessions({n.session : n \in S}), FreeEntries(E)
    PROVE  /\ SessionInv' /\ SocketInv' /\ BatchInv'
           /\ Tables' \subseteq Tables \ S /\ tproxy' = tproxy \ E
           /\ \A i \in SessionIds : session[i] = Free => session'[i] = Free
<1> DEFINE ids == {n.session : n \in S}
<1>1. ids \in SUBSET LiveSessions
    BY SessionFacts
<1>2. \A n \in S : n.session \in ids
    OBVIOUS
<1>3. CloseSessions(ids)
    OBVIOUS
<1> HIDE DEF ids
<1>4. /\ SessionInv' /\ Tables' \subseteq Tables /\ \A n \in Tables' : n.session \notin ids
      /\ LiveSessions' = LiveSessions \ ids
    BY <1>1, <1>3, CloseStep
<1>5. SocketInv' /\ tproxy' = tproxy \ E
    BY FreeEntriesStep DEF FreeEntries
<1>6. BatchInv'
    BY DEF BatchInv
<1>7. \A i \in SessionIds : session[i] = Free => session'[i] = Free
    BY <1>4 DEF LiveSessions
<1> QED
    BY <1>2, <1>4, <1>5, <1>6, <1>7

LEMMA GcStep ==
    ASSUME UdpInv, udp_gc_on_tick
    PROVE  UdpInv' /\ \A i \in SessionIds : session[i] = Free => session'[i] = Free
<1>1. SessionInv /\ SocketInv /\ BatchInv /\ PhaseInv /\ AgeInv
    BY DEF UdpInv
<1> DEFINE E == {n \in tproxy : TproxyIdle(n)}
<1>2. /\ pending = NoPending /\ batch = NoBatch /\ closed = FALSE
      /\ gc_in = 0 /\ gc_in' = GC_INTERVAL_SEC
      /\ CloseSessions({n.session : n \in Swept}) /\ FreeEntries(E)
      /\ UNCHANGED <<pending, batch, exhausted, closed>>
    BY <1>1 DEF udp_gc_on_tick, LoopFree, PhaseInv
<1>3. Swept \in SUBSET Tables /\ E \in SUBSET tproxy
    BY DEF Swept, Tables
<1>4. \A n \in tproxy \ E : ~ TproxyIdle(n)
    OBVIOUS
<1> HIDE DEF E
<1>5. /\ SessionInv' /\ SocketInv' /\ BatchInv'
      /\ Tables' \subseteq Tables \ Swept /\ tproxy' = tproxy \ E
      /\ \A i \in SessionIds : session[i] = Free => session'[i] = Free
    BY <1>1, <1>2, <1>3, SweepStep
<1>6. GC_INTERVAL_SEC \in Nat \ {0} /\ g_udp_idletimeout_sec \in Nat \ {0}
    BY TimeAssumption
<1>7. \A n \in Tables' : n.age + GC_INTERVAL_SEC < g_udp_idletimeout_sec + GC_INTERVAL_SEC
  <2>1. \A n \in Tables' : n.age \in Nat
      BY <1>1, <1>5, <1>6, SessionFacts, NodeFacts DEF Ages
  <2>2. \A n \in Tables' : ~ (n.age >= g_udp_idletimeout_sec)
      BY <1>5 DEF Swept, udp_gc_is_idle, Tables
  <2> QED
      BY <1>6, <2>1, <2>2
<1>8. \A n \in tproxy' : 2 * (n.age + GC_INTERVAL_SEC - GC_INTERVAL_SEC) < g_udp_idletimeout_sec
  <2>1. \A n \in tproxy' : n.age \in Nat
      BY <1>1, <1>5, <1>6, SocketFacts, EntryFacts DEF Ages
  <2>2. \A n \in tproxy' : ~ (2 * n.age >= g_udp_idletimeout_sec)
      BY <1>4, <1>5 DEF TproxyIdle
  <2> QED
      BY <1>6, <2>1, <2>2
<1>9. AgeInv'
    BY <1>2, <1>6, <1>7, <1>8 DEF AgeInv, Tables
<1>10. PhaseInv'
    BY <1>1, <1>2 DEF PhaseInv
<1> QED
    BY <1>5, <1>9, <1>10 DEF UdpInv

LEMMA CloseAllStep ==
    ASSUME UdpInv, udp_proxy_close_all_sessions
    PROVE  UdpInv' /\ \A i \in SessionIds : session[i] = Free => session'[i] = Free
<1>1. SessionInv /\ SocketInv /\ BatchInv /\ PhaseInv /\ AgeInv
    BY DEF UdpInv
<1>2. /\ pending = NoPending /\ batch = NoBatch /\ closed' = TRUE
      /\ CloseSessions({n.session : n \in Tables}) /\ FreeEntries(tproxy)
      /\ UNCHANGED <<pending, batch, gc_in, exhausted>>
    BY DEF udp_proxy_close_all_sessions, LoopFree, Tables
<1>3. /\ SessionInv' /\ SocketInv' /\ BatchInv'
      /\ Tables' \subseteq Tables \ Tables /\ tproxy' = tproxy \ tproxy
      /\ \A i \in SessionIds : session[i] = Free => session'[i] = Free
    BY <1>1, <1>2, SweepStep
<1>4. Tables' = {} /\ tproxy' = {}
    BY <1>3
<1>5. AgeInv'
    BY <1>1, <1>2, <1>4, AgeKept
<1>6. PhaseInv'
    BY <1>1, <1>2, <1>4 DEF PhaseInv, Tables
<1> QED
    BY <1>3, <1>5, <1>6 DEF UdpInv

-----------------------------------------------------------------------------
(* The theorems.                                                           *)

LEMMA UdpInitInv ==
    ASSUME UdpInit
    PROVE  UdpInv
<1>1. IsFiniteSet({}) /\ Cardinality({}) = 0
    BY FS_EmptySet
<1>2. LiveSessions = {} /\ LiveSockets = {}
    BY DEF UdpInit, LiveSessions, LiveSockets
<1>3. SessionInv
    BY <1>1, <1>2, SizeFacts DEF UdpInit, SessionInv, Distinct
<1>4. SocketInv
    BY <1>1, <1>2, SizeFacts DEF UdpInit, SocketInv, Distinct
<1>5. BatchInv /\ PhaseInv
    BY DEF UdpInit, BatchInv, PhaseInv
<1>6. AgeInv
    BY TimeAssumption DEF UdpInit, AgeInv
<1> QED
    BY <1>3, <1>4, <1>5, <1>6 DEF UdpInv

\* What every step keeps; and only a creation takes a block of the session pool.
LEMMA UdpNextInv ==
    ASSUME UdpInv, [UdpNext]_udpVars
    PROVE  /\ UdpInv'
           /\ \A i \in SessionIds : pending # NoPending /\ session[i] = Free /\ session'[i] # Free
                                      => session'[i].server_idx # pending.replaced
<1>1. ASSUME NEW pkt \in Packets, Ingress(pkt) PROVE UdpInv' /\ pending = NoPending
    BY <1>1, IngressStep DEF Ingress, LoopFree
<1>2. CASE CreateFails
    BY <1>2, CreateFailsStep DEF CreateFails, sessionVars
<1>3. CASE udp_session_create
    BY <1>3, CreateStep
<1>4. CASE ReplyStep
    BY <1>4, ReplyStepKeeps
<1>5. CASE Tick
    BY <1>5, TickStep
<1>6. CASE udp_gc_on_tick
    BY <1>6, GcStep
<1>7. CASE udp_proxy_close_all_sessions
    BY <1>7, CloseAllStep
<1>8. CASE UNCHANGED udpVars
  <2>1. UNCHANGED <<sessionVars, session, socket, tproxy, pending, batch, gc_in, exhausted, closed>>
      BY <1>8 DEF udpVars, sessionVars, tproxyVars
  <2>2. SessionInv' /\ Tables' = Tables /\ SocketInv'
      BY <2>1, SessionFrame, SocketFrame DEF UdpInv
  <2>3. AgeInv'
      BY <2>1, <2>2, AgeKept DEF UdpInv
  <2>4. BatchInv' /\ PhaseInv'
      BY <2>1 DEF UdpInv, BatchInv, PhaseInv, sessionVars
  <2> QED
      BY <2>1, <2>2, <2>3, <2>4 DEF UdpInv
<1> QED
    BY <1>1, <1>2, <1>3, <1>4, <1>5, <1>6, <1>7, <1>8 DEF UdpNext

LEMMA UdpInvariant == UdpSpec => []UdpInv
    BY UdpInitInv, UdpNextInv, PTL DEF UdpSpec

\* A set that has one node and no other.
LEMMA OneNode ==
    ASSUME NEW T, NEW n \in T, \A m \in T : m = n
    PROVE  Cardinality(T) = 1
<1>1. T = {n}
    OBVIOUS
<1> QED
    BY <1>1, FS_Singleton

\* The state is well formed and the tables index the sessions, for every number
\* of clients and servers, every table size and every batch: each live session of
\* udp_proxy.c is in exactly one of the two tables, under its own key, and the
\* node pools count exactly the nodes.
THEOREM TablesIndexSessions == UdpSpec => []IndexMatchesSessions
<1>1. UdpInv => IndexMatchesSessions
  <2> SUFFICES ASSUME UdpInv PROVE IndexMatchesSessions
      OBVIOUS
  <2>1. SessionInv /\ SocketInv /\ BatchInv /\ PhaseInv /\ AgeInv
      BY DEF UdpInv
  <2>2. Cardinality(fullcone) \in Nat /\ Cardinality(symmetric) \in Nat
      BY <2>1, FS_CardinalityType DEF SessionInv
  <2>3. fullcone_nodes \in 0 .. fullcone_node_max_blocks
      BY <2>1, <2>2, SizeFacts DEF SessionInv, fullcone_node_max_blocks
  <2>4. symmetric_nodes \in 0 .. symmetric_node_max_blocks
    <3>1. CASE FakeTargets = {}
      <4>1. symmetric = {}
          BY <2>1, <3>1, SessionFacts DEF uses_fakedns, Tables
      <4>2. Cardinality(symmetric) = 0
          BY <4>1, FS_EmptySet
      <4> QED
          BY <2>1, <3>1, <4>2 DEF SessionInv, symmetric_node_max_blocks, fakedns_enabled
    <3>2. CASE FakeTargets # {}
        BY <2>1, <2>2, <3>2, SizeFacts
           DEF SessionInv, symmetric_node_max_blocks, fakedns_enabled
    <3> QED
        BY <3>1, <3>2
  <2>5. pending # NoPending => /\ pending.pkt \in Packets
                               /\ pending.server_idx \in Servers
                               /\ pending.replaced \in Servers \cup {None}
      BY <2>1 DEF PhaseInv, Creations
  <2>6. batch # NoBatch => /\ batch.session \in SessionIds
                           /\ batch.left \in 0 .. UDP_BATCH_SIZE
                           /\ batch.deferred \subseteq EntryIds
                           /\ Cardinality(batch.deferred) <= UDP_BATCH_SIZE
                           /\ Cardinality(batch.sends) + batch.left <= UDP_BATCH_SIZE
    <3> SUFFICES ASSUME batch # NoBatch
                 PROVE  /\ batch.session \in SessionIds
                        /\ batch.left \in 0 .. UDP_BATCH_SIZE
                        /\ batch.deferred \subseteq EntryIds
                        /\ Cardinality(batch.deferred) <= UDP_BATCH_SIZE
                        /\ Cardinality(batch.sends) + batch.left <= UDP_BATCH_SIZE
        OBVIOUS
    <3>1. /\ Cardinality(batch.deferred) \in Nat /\ batch.left \in 0 .. UDP_BATCH_SIZE
          /\ Cardinality(batch.deferred) + batch.left <= UDP_BATCH_SIZE
          /\ batch.session \in SessionIds /\ batch.deferred \subseteq EntryIds
        BY <2>1, BatchFacts DEF BatchInv
    <3>2. Cardinality(batch.deferred) <= UDP_BATCH_SIZE
        BY <3>1, SizeFacts
    <3> QED
        BY <2>1, <3>1, <3>2 DEF BatchInv
  <2>7. UdpTypeOK
      BY <2>1, <2>3, <2>4, <2>5, <2>6
         DEF UdpTypeOK, SessionInv, SocketInv, PhaseInv, AgeInv, Addresses, Entries
  <2>8. ASSUME NEW i \in LiveSessions
        PROVE  Cardinality({n \in Tables : n.session = i}) = 1
    <3> DEFINE T == {n \in Tables : n.session = i}
    <3>1. PICK n \in Tables : n.session = i
        BY <2>1 DEF SessionInv, Tables
    <3>2. n \in T /\ \A m \in T : m = n
        BY <2>1, <3>1, SessionFacts
    <3> HIDE DEF T
    <3>3. Cardinality(T) = 1
        BY <3>2, OneNode
    <3> QED
        BY <3>3 DEF T
  <2>9. ASSUME NEW n \in Tables
        PROVE  /\ n.session \in LiveSessions
               /\ n.key = SessionKey(session[n.session])
               /\ (n \in symmetric) = uses_fakedns(session[n.session])
               /\ \A m \in Tables : m.key = n.key => m = n
    <3>1. (n \in symmetric) <=> uses_fakedns(session[n.session])
        BY <2>1, SessionFacts
    <3>2. (n \in symmetric) = uses_fakedns(session[n.session])
        BY <3>1 DEF uses_fakedns
    <3>3. \A m \in Tables : m.key = n.key => m = n
        BY <2>1 DEF SessionInv, Distinct, Tables
    <3> QED
        BY <2>1, <3>2, <3>3, SessionFacts
  <2> QED
      BY <2>1, <2>7, <2>8, <2>9 DEF IndexMatchesSessions, SessionInv, Tables
<1> QED
    BY <1>1, UdpInvariant, PTL

\* The pools of run_event_loop are large enough whatever option -c, the size
\* multipliers and the batch size are: no packet or reply is lost for want of a
\* block, and no table outgrows its configured size.
THEOREM PoolsAreLargeEnough == UdpSpec => []PoolsSuffice
<1>1. UdpInv => PoolsSuffice
    BY DEF UdpInv, SessionInv, SocketInv, PhaseInv, PoolsSuffice
<1> QED
    BY <1>1, UdpInvariant, PTL

\* A reply queued by udp_relay_on_server_reply leaves through an open socket bound
\* to the source the client must see, whatever the batch evicts after it.
THEOREM QueuedSendsHold == UdpSpec => []QueuedSendsAreGood
<1>1. UdpInv => QueuedSendsAreGood
  <2> SUFFICES ASSUME UdpInv, batch # NoBatch
               PROVE  /\ batch.session \in LiveSessions
                      /\ \A q \in batch.sends : socket[q.entry] = q.src
      BY DEF QueuedSendsAreGood
  <2>1. batch.session \in SessionIds
      BY BatchFacts DEF UdpInv
  <2> QED
      BY <2>1 DEF UdpInv, BatchInv, LiveSessions
<1> QED
    BY <1>1, UdpInvariant, PTL

\* No reply socket leaks: between batches the open ones are those of the table,
\* and after udp_proxy_close_all_sessions nothing is open.
THEOREM SocketsNeverLeak == UdpSpec => []NoSocketLeaks
<1>1. UdpInv => NoSocketLeaks
  <2> SUFFICES ASSUME UdpInv, batch = NoBatch
               PROVE  /\ \A n \in tproxy : socket[n.entry] = n.key
                      /\ \A e \in LiveSockets : Cardinality({n \in tproxy : n.entry = e}) = 1
                      /\ closed => LiveSockets = {} /\ LiveSessions = {}
      BY DEF NoSocketLeaks
  <2>1. SessionInv /\ SocketInv /\ PhaseInv
      BY DEF UdpInv
  <2>2. \A e \in LiveSockets : \E n \in tproxy : n.entry = e
      BY <2>1 DEF SocketInv
  <2>3. ASSUME NEW e \in LiveSockets
        PROVE  Cardinality({n \in tproxy : n.entry = e}) = 1
    <3> DEFINE T == {n \in tproxy : n.entry = e}
    <3>1. PICK n \in tproxy : n.entry = e
        BY <2>2
    <3>2. n \in T /\ \A m \in T : m = n
        BY <2>1, <3>1, SocketFacts
    <3> HIDE DEF T
    <3>3. Cardinality(T) = 1
        BY <3>2, OneNode
    <3> QED
        BY <3>3 DEF T
  <2>4. closed => LiveSockets = {} /\ LiveSessions = {}
      BY <2>1, <2>2 DEF PhaseInv, SessionInv
  <2> QED
      BY <2>1, <2>3, <2>4 DEF SocketInv
<1> QED
    BY <1>1, UdpInvariant, PTL

\* No session or reply socket stays idle for longer than its timeout and one
\* interval of udp_gc_on_tick.
THEOREM IdleNeverStays == UdpSpec => []IdleIsCollected
<1>1. UdpInv => IdleIsCollected
  <2> SUFFICES ASSUME UdpInv PROVE IdleIsCollected
      OBVIOUS
  <2>1. SessionInv /\ SocketInv /\ AgeInv
      BY DEF UdpInv
  <2>2. gc_in \in Nat /\ GC_INTERVAL_SEC \in Nat /\ g_udp_idletimeout_sec \in Nat
      BY <2>1, TimeAssumption DEF AgeInv
  <2>3. \A n \in Tables : n.age < g_udp_idletimeout_sec + GC_INTERVAL_SEC
    <3>1. \A n \in Tables : n.age \in Nat
        BY <2>1, <2>2, SessionFacts, NodeFacts DEF Ages
    <3>2. \A n \in Tables : n.age + gc_in < g_udp_idletimeout_sec + GC_INTERVAL_SEC
        BY <2>1 DEF AgeInv, Tables
    <3> QED
        BY <2>2, <3>1, <3>2
  <2>4. \A n \in tproxy : 2 * (n.age - GC_INTERVAL_SEC) < g_udp_idletimeout_sec
    <3>1. \A n \in tproxy : n.age \in Nat
        BY <2>1, <2>2, SocketFacts, EntryFacts DEF Ages
    <3>2. \A n \in tproxy : 2 * (n.age + gc_in - GC_INTERVAL_SEC) < g_udp_idletimeout_sec
        BY <2>1 DEF AgeInv
    <3> QED
        BY <2>2, <3>1, <3>2
  <2> QED
      BY <2>3, <2>4 DEF IdleIsCollected, Tables
<1> QED
    BY <1>1, UdpInvariant, PTL

\* A session that takes the place of one at a failed server is never created at
\* that server again: udp_session_create uses the snapshot that was checked.
THEOREM ReplacementsLeaveFailed == UdpSpec => ReplacementLeavesFailed
<1> DEFINE Leaves == \A i \in SessionIds :
              pending # NoPending /\ session[i] = Free /\ session'[i] # Free
                => session'[i].server_idx # pending.replaced
<1>1. UdpInv /\ [UdpNext]_udpVars => [Leaves]_udpVars
    BY UdpNextInv
<1> QED
    BY <1>1, UdpInvariant, PTL DEF UdpSpec, ReplacementLeavesFailed

=============================================================================
