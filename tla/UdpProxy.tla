------------------------------ MODULE UdpProxy ------------------------------
(***************************************************************************)
(* The UDP half of one worker thread: udp_proxy.c with the tables of       *)
(* udp_lrucache.c, the LRU templates of lrucache.h and the block pools of  *)
(* the sizes run_event_loop computes.  The thread runs one callback at a   *)
(* time, so a callback is cut only where the model has to look inside it:  *)
(* between the choice of a server under the selector's lock and the        *)
(* creation of the session, and between the packets of a batch of replies, *)
(* whose queued sends hold pointers into a table that is changing.         *)
(*                                                                         *)
(* A session or a reply socket is a block of its pool, named by an index;  *)
(* a table is the set of its nodes.  last_active is kept as the time since *)
(* (age), so behaviours need no bound on time.  Packets that parsing drops *)
(* (unknown fake address, too large) change nothing and are left out.      *)
(***************************************************************************)
EXTENDS SelectorOps

CONSTANTS
    Clients,       \* client endpoints
    FakeTargets,   \* destinations that are current fake addresses; {} without fake DNS
    Remotes,       \* the sources a server may report for replies
    base_size,     \* option -c
    SYMMETRIC_SIZE_MULTIPLIER,
    TPROXY_SIZE_MULTIPLIER,
    UINT16_MAX,
    UDP_BATCH_SIZE,
    g_udp_idletimeout_sec,
    GC_INTERVAL_SEC

ASSUME SizeAssumption ==
    /\ base_size \in 1 .. UINT16_MAX /\ UINT16_MAX \in Nat
    /\ SYMMETRIC_SIZE_MULTIPLIER \in Nat \ {0} /\ TPROXY_SIZE_MULTIPLIER \in Nat \ {0}
    /\ UDP_BATCH_SIZE \in Nat \ {0}
ASSUME TimeAssumption ==
    g_udp_idletimeout_sec \in Nat \ {0} /\ GC_INTERVAL_SEC \in Nat \ {0}
Free == [free |-> TRUE]  \* a block that is not in use

ASSUME AddressAssumption ==
    /\ FakeTargets \cap Remotes = {} /\ "direct" \notin FakeTargets
    /\ Free \notin FakeTargets \cup Remotes

-----------------------------------------------------------------------------
(* Sizes: udp_lrucache_set_maxsize, run_event_loop.                        *)

Clamped(size) == IF size > UINT16_MAX THEN UINT16_MAX ELSE size
fullcone_maxsize == base_size
symmetric_maxsize == Clamped(base_size * SYMMETRIC_SIZE_MULTIPLIER)
tproxy_maxsize == Clamped(base_size * TPROXY_SIZE_MULTIPLIER)

fakedns_enabled == FakeTargets # {}

\* Mutant: a pool without the spare block of insert-then-evict.
session_max_blocks_NoSpare ==
    fullcone_maxsize + (IF fakedns_enabled THEN symmetric_maxsize ELSE 0)

session_max_blocks ==
    fullcone_maxsize + (IF fakedns_enabled THEN symmetric_maxsize ELSE 0) + 1
fullcone_node_max_blocks == fullcone_maxsize + 1
symmetric_node_max_blocks == IF fakedns_enabled THEN symmetric_maxsize + 1 ELSE 0
tproxy_pool_max_blocks == tproxy_maxsize + UDP_BATCH_SIZE

-----------------------------------------------------------------------------
VARIABLES
    session,    \* g_udp_session_pool: session[i] is a session or Free
    fullcone,   \* g_udp_fullcone_table: nodes with key, session and age
    symmetric,  \* g_udp_symmetric_table
    fullcone_nodes, symmetric_nodes,  \* blocks in use of the two node pools
    socket,     \* g_udp_tproxy_pool: socket[e] is the bound address or Free
    tproxy,     \* g_udp_tproxy_table: nodes with key, entry and age
    pending,    \* the packet and server of a session about to be created, and
                \* (history) the server of the session it takes the place of
    batch,      \* the batch of replies under way
    gc_in,      \* time until the GC timer is due
    exhausted,  \* history: a pool had no block left
    closed      \* udp_proxy_close_all_sessions has run

sessionVars == <<session, fullcone, symmetric, fullcone_nodes, symmetric_nodes>>
tproxyVars == <<socket, tproxy>>
udpVars == <<sessionVars, tproxyVars, pending, batch, gc_in, exhausted, closed>>

NoPending == [server_idx |-> None]
NoBatch == [session |-> 0]

\* Destinations that are no fake addresses are one: a full-cone session carries
\* packets to all of them and never reads the one it was created with.
Direct == "direct"
Targets == FakeTargets \cup {Direct}
Packets == [client : Clients, target : Targets]
uses_fakedns(pkt) == pkt.target \in FakeTargets

Sessions == [client : Clients, target : Targets, server_idx : Servers]
SessionIds == 1 .. session_max_blocks
EntryIds == 1 .. tproxy_pool_max_blocks
LiveSessions == {i \in SessionIds : session[i] # Free}
LiveSockets == {e \in EntryIds : socket[e] # Free}

SessionKey(s) == IF uses_fakedns(s) THEN <<s.client, s.target>> ELSE <<s.client>>
Ages == 0 .. g_udp_idletimeout_sec + GC_INTERVAL_SEC
Keys == (Clients \X FakeTargets) \cup {<<c>> : c \in Clients}

UdpInit ==
    /\ session = [i \in SessionIds |-> Free]
    /\ fullcone = {} /\ symmetric = {}
    /\ fullcone_nodes = 0 /\ symmetric_nodes = 0
    /\ socket = [e \in EntryIds |-> Free]
    /\ tproxy = {}
    /\ pending = NoPending
    /\ batch = NoBatch
    /\ gc_in = GC_INTERVAL_SEC
    /\ exhausted = FALSE
    /\ closed = FALSE

LoopFree == pending = NoPending /\ batch = NoBatch /\ ~ closed

-----------------------------------------------------------------------------
(* The LRU templates.  Between nodes equally old the code takes the one    *)
(* inserted first; the model allows any.                                   *)

Oldest(nodes) == {n \in nodes : \A m \in nodes : m.age <= n.age}

\* LRU_DEFINE_ADD inserts new, then removes one of these if there is one.
LruVictims(table, new, maxsize) ==
    IF Cardinality(table \cup {new}) > maxsize THEN Oldest(table) ELSE {}

\* The table and the set of victims (at most one) an insertion may lead to.
LruAdd(table, new, maxsize) ==
    LET victims == LruVictims(table, new, maxsize)
    IN  IF victims = {} THEN {[table |-> table \cup {new}, victims |-> {}]}
        ELSE {[table |-> (table \cup {new}) \ {v}, victims |-> {v}] : v \in victims}

Touched(table, i) == {IF n.session = i THEN [n EXCEPT !.age = 0] ELSE n : n \in table}
Without(table, ids) == {n \in table : n.session \notin ids}

\* udp_session_close of the sessions ids, whose nodes leave the tables.
CloseSessions(ids) ==
    LET full == {i \in ids : ~ uses_fakedns(session[i])}
        sym  == ids \ full
    IN  /\ session' = [i \in SessionIds |-> IF i \in ids THEN Free ELSE session[i]]
        /\ fullcone' = Without(fullcone, full)
        /\ symmetric' = Without(symmetric, sym)
        /\ fullcone_nodes' = fullcone_nodes - Cardinality(full)
        /\ symmetric_nodes' = symmetric_nodes - Cardinality(sym)

-----------------------------------------------------------------------------
(* A packet from a client: udp_session_get_or_create.                      *)

\* server_selector_udp_replacement, under the selector's lock.
server_selector_udp_replacement(h, b, i) ==
    IF b # i /\ h[i] = "failed" /\ h[b] = "ok" THEN b ELSE None

\* The states the selector may be in at any moment: ServerSelectorProofs shows
\* that no server out-ranks the published best.
RankMinimal(h, b) == \A i \in Servers : ss_health_rank(h[b]) <= ss_health_rank(h[i])

udp_session_lookup(pkt) ==
    {n \in fullcone \cup symmetric : n.key = SessionKey(pkt)}

\* Mutant: the session of the failed server stays in its table.
IngressReplace_KeepsOld(pkt, n, h, b) ==
    LET old == session[n.session].server_idx
        new == server_selector_udp_replacement(h, b, old)
    IN  /\ new # None
        /\ pending' = [pkt |-> pkt, server_idx |-> new, replaced |-> old]
        /\ UNCHANGED sessionVars

\* The node's session is replaced ...
IngressReplace(pkt, n, h, b) ==
    LET old == session[n.session].server_idx
        new == server_selector_udp_replacement(h, b, old)
    IN  /\ new # None
        /\ CloseSessions({n.session})
        /\ pending' = [pkt |-> pkt, server_idx |-> new, replaced |-> old]

\* ... or reused.
IngressReuse(n, h, b) ==
    /\ server_selector_udp_replacement(h, b, session[n.session].server_idx) = None
    /\ fullcone' = Touched(fullcone, n.session)
    /\ symmetric' = Touched(symmetric, n.session)
    /\ UNCHANGED <<session, fullcone_nodes, symmetric_nodes, pending>>

IngressNew(pkt, b) ==
    /\ pending' = [pkt |-> pkt, server_idx |-> b, replaced |-> None]
    /\ UNCHANGED sessionVars

Ingress(pkt) ==
    /\ LoopFree
    /\ \E h \in [Servers -> Health], b \in Servers :
          /\ RankMinimal(h, b)
          /\ \/ \E n \in udp_session_lookup(pkt) :
                   IngressReplace(pkt, n, h, b) \/ IngressReuse(n, h, b)
             \/ udp_session_lookup(pkt) = {} /\ IngressNew(pkt, b)
    /\ UNCHANGED <<tproxyVars, batch, gc_in, exhausted, closed>>

-----------------------------------------------------------------------------
(* udp_session_create, with the packet and the server of pending.          *)

\* A socket, the server's context or the session's keys fail: all is undone.
CreateFails ==
    /\ pending # NoPending
    /\ pending' = NoPending
    /\ UNCHANGED <<sessionVars, tproxyVars, batch, gc_in, exhausted, closed>>

\* Mutant: the best server is read again instead of the checked one.
CreatedAt_Reread(p) == Servers

CreatedAt(p) == {p.server_idx}

\* udp_session_register_fullcone or _symmetric: a node, insertion, eviction.
Register(i, s) ==
    LET new == [key |-> SessionKey(s), session |-> i, age |-> 0]
        fake == uses_fakedns(s)
        maxsize == IF fake THEN symmetric_maxsize ELSE fullcone_maxsize
    IN  \E r \in LruAdd(IF fake THEN symmetric ELSE fullcone, new, maxsize) :
            LET gone == {v.session : v \in r.victims}
                used == 1 - Cardinality(gone)
            IN  /\ session' = [j \in SessionIds |-> IF j \in gone THEN Free
                                                    ELSE IF j = i THEN s ELSE session[j]]
                /\ IF fake
                   THEN /\ symmetric' = r.table
                        /\ symmetric_nodes' = symmetric_nodes + used
                        /\ UNCHANGED <<fullcone, fullcone_nodes>>
                   ELSE /\ fullcone' = r.table
                        /\ fullcone_nodes' = fullcone_nodes + used
                        /\ UNCHANGED <<symmetric, symmetric_nodes>>

NodeLeft(s) == IF uses_fakedns(s) THEN symmetric_nodes < symmetric_node_max_blocks
               ELSE fullcone_nodes < fullcone_node_max_blocks

udp_session_create ==
    /\ pending # NoPending
    /\ \E srv \in CreatedAt(pending) :
          LET s == [client |-> pending.pkt.client, target |-> pending.pkt.target,
                    server_idx |-> srv]
              free == SessionIds \ LiveSessions
          IN  \/ free # {} /\ NodeLeft(s) /\ Register(Min(free), s) /\ UNCHANGED exhausted
              \/ (free = {} \/ ~ NodeLeft(s)) /\ exhausted' = TRUE /\ UNCHANGED sessionVars
    /\ pending' = NoPending
    /\ UNCHANGED <<tproxyVars, batch, gc_in, closed>>

-----------------------------------------------------------------------------
(* A batch of replies: udp_relay_on_server_reply.                          *)

BatchOf(i, k) == [session |-> i, left |-> k, sends |-> {}, deferred |-> {}]

\* recvmmsg returned some of at most UDP_BATCH_SIZE packets; the session is
\* touched.  sends holds the entries queued and the source each must show,
\* deferred the evicted entries.
ReplyBegin(i) ==
    /\ LoopFree
    /\ i \in LiveSessions
    /\ \E k \in 1 .. UDP_BATCH_SIZE : batch' = BatchOf(i, k)
    /\ fullcone' = Touched(fullcone, i)
    /\ symmetric' = Touched(symmetric, i)
    /\ UNCHANGED <<session, fullcone_nodes, symmetric_nodes, tproxyVars, pending,
                   gc_in, exhausted, closed>>

\* The source the client must see: the fake address, or the one in the packet.
ReplySources(s) == IF uses_fakedns(s) THEN {s.target} ELSE Remotes

InBatch == batch # NoBatch /\ batch.left > 0
Queue(e, src) == [batch EXCEPT !.left = @ - 1,
                               !.sends = @ \cup {[entry |-> e, src |-> src]}]

\* The packet does not open, or no socket can be made or bound.
ReplyDropped ==
    /\ InBatch
    /\ batch' = [batch EXCEPT !.left = @ - 1]
    /\ UNCHANGED <<sessionVars, tproxyVars, pending, gc_in, exhausted, closed>>

\* udp_tproxy_entry_get_or_create finds the source's entry and refreshes it.
ReplyKnownSource ==
    /\ InBatch
    /\ \E n \in tproxy :
          /\ n.key \in ReplySources(session[batch.session])
          /\ tproxy' = (tproxy \ {n}) \cup {[n EXCEPT !.age = 0]}
          /\ batch' = Queue(n.entry, n.key)
    /\ UNCHANGED <<sessionVars, socket, pending, gc_in, exhausted, closed>>

\* Mutant: a victim is freed at once, as in the session tables.
EvictEntries_Now(e, src, ids) ==
    /\ socket' = [d \in EntryIds |-> IF d \in ids THEN Free
                                     ELSE IF d = e THEN src ELSE socket[d]]
    /\ batch' = Queue(e, src)

\* The new socket, and the victims whose freeing is put off.
EvictEntries(e, src, ids) ==
    /\ socket' = [socket EXCEPT ![e] = src]
    /\ batch' = [Queue(e, src) EXCEPT !.deferred = @ \cup ids]

\* ... or makes one: a socket, a block, insertion, and eviction.
ReplyNewSource(src) ==
    /\ InBatch
    /\ src \in ReplySources(session[batch.session])
    /\ \A n \in tproxy : n.key # src
    /\ LET free == EntryIds \ LiveSockets
       IN  \/ /\ free # {}
              /\ LET new == [key |-> src, entry |-> Min(free), age |-> 0]
                 IN  \E r \in LruAdd(tproxy, new, tproxy_maxsize) :
                        /\ tproxy' = r.table
                        /\ EvictEntries(new.entry, src, {v.entry : v \in r.victims})
              /\ UNCHANGED exhausted
           \/ /\ free = {}
              /\ exhausted' = TRUE
              /\ batch' = [batch EXCEPT !.left = @ - 1]
              /\ UNCHANGED tproxyVars
    /\ UNCHANGED <<sessionVars, pending, gc_in, closed>>

\* Mutant: the deferred entries are forgotten.
ReplyFlush_Forgets ==
    /\ batch # NoBatch /\ batch.left = 0
    /\ batch' = NoBatch
    /\ UNCHANGED <<sessionVars, tproxyVars, pending, gc_in, exhausted, closed>>

\* udp_tproxy_flush_client_sends, then the deferred entries are freed.
ReplyFlush ==
    /\ batch # NoBatch /\ batch.left = 0
    /\ socket' = [e \in EntryIds |-> IF e \in batch.deferred THEN Free ELSE socket[e]]
    /\ batch' = NoBatch
    /\ UNCHANGED <<sessionVars, tproxy, pending, gc_in, exhausted, closed>>

-----------------------------------------------------------------------------
(* Time, the GC timer, the end.                                            *)

Older(table) == {[n EXCEPT !.age = @ + 1] : n \in table}

\* The loop is not late for its timer: time passes only while none is due.
Tick ==
    /\ LoopFree /\ gc_in > 0
    /\ gc_in' = gc_in - 1
    /\ fullcone' = Older(fullcone) /\ symmetric' = Older(symmetric)
    /\ tproxy' = Older(tproxy)
    /\ UNCHANGED <<session, fullcone_nodes, symmetric_nodes, socket, pending, batch,
                   exhausted, closed>>

udp_gc_is_idle(n) == n.age >= g_udp_idletimeout_sec
TproxyIdle(n) == 2 * n.age >= g_udp_idletimeout_sec

\* Mutant: only the full-cone table is swept.
Swept_FullconeOnly == {n \in fullcone : udp_gc_is_idle(n)}

\* The nodes of the two session tables that udp_gc_on_tick closes.
Swept == {n \in fullcone \cup symmetric : udp_gc_is_idle(n)}

FreeEntries(nodes) ==
    /\ tproxy' = tproxy \ nodes
    /\ socket' = [e \in EntryIds |-> IF \E n \in nodes : n.entry = e THEN Free
                                     ELSE socket[e]]

udp_gc_on_tick ==
    /\ LoopFree /\ gc_in = 0
    /\ gc_in' = GC_INTERVAL_SEC
    /\ CloseSessions({n.session : n \in Swept})
    /\ FreeEntries({n \in tproxy : TproxyIdle(n)})
    /\ UNCHANGED <<pending, batch, exhausted, closed>>

udp_proxy_close_all_sessions ==
    /\ LoopFree
    /\ closed' = TRUE
    /\ CloseSessions({n.session : n \in fullcone \cup symmetric})
    /\ FreeEntries(tproxy)
    /\ UNCHANGED <<pending, batch, gc_in, exhausted>>

-----------------------------------------------------------------------------
ReplyStep == \/ \E i \in SessionIds : ReplyBegin(i)
             \/ ReplyDropped \/ ReplyKnownSource \/ ReplyFlush
             \/ \E src \in FakeTargets \cup Remotes : ReplyNewSource(src)
UdpNext ==
    \/ \E pkt \in Packets : Ingress(pkt)
    \/ CreateFails \/ udp_session_create
    \/ ReplyStep
    \/ Tick \/ udp_gc_on_tick \/ udp_proxy_close_all_sessions

UdpSpec == UdpInit /\ [][UdpNext]_udpVars

-----------------------------------------------------------------------------
Nodes == [key : Keys, session : SessionIds, age : Ages]
\* The type invariant, with the bounds of the batch arrays of the reply handler.
UdpTypeOK ==
    /\ session \in [SessionIds -> Sessions \cup {Free}]
    /\ fullcone \subseteq Nodes /\ symmetric \subseteq Nodes
    /\ fullcone_nodes \in 0 .. fullcone_node_max_blocks
    /\ symmetric_nodes \in 0 .. symmetric_node_max_blocks
    /\ socket \in [EntryIds -> FakeTargets \cup Remotes \cup {Free}]
    /\ tproxy \subseteq [key : FakeTargets \cup Remotes, entry : EntryIds, age : Ages]
    /\ pending # NoPending => /\ pending.pkt \in Packets
                             /\ pending.server_idx \in Servers
                             /\ pending.replaced \in Servers \cup {None}
    /\ batch # NoBatch => /\ batch.session \in SessionIds
                         /\ batch.left \in 0 .. UDP_BATCH_SIZE
                         /\ batch.deferred \subseteq EntryIds
                         /\ Cardinality(batch.deferred) <= UDP_BATCH_SIZE
                         /\ Cardinality(batch.sends) + batch.left <= UDP_BATCH_SIZE
    /\ gc_in \in 0 .. GC_INTERVAL_SEC
    /\ exhausted \in BOOLEAN /\ closed \in BOOLEAN

\* The state is well formed, and the tables and the pools agree at every moment:
\* a node points to a live session that has its key, a live session has exactly
\* one node and this in the table of its kind, no two nodes share a key, and no
\* node block leaks.  It is what the assertions "(fullcone_node != NULL) ^
\* (symmetric_node != NULL)" of udp_proxy.c rest on, over replacement, eviction,
\* GC and failed creations.
IndexMatchesSessions ==
    /\ UdpTypeOK
    /\ \A i \in LiveSessions :
          Cardinality({n \in fullcone \cup symmetric : n.session = i}) = 1
    /\ \A n \in fullcone \cup symmetric :
          /\ n.session \in LiveSessions
          /\ n.key = SessionKey(session[n.session])
          /\ (n \in symmetric) = uses_fakedns(session[n.session])
          /\ \A m \in fullcone \cup symmetric : m.key = n.key => m = n
    /\ fullcone_nodes = Cardinality(fullcone)
    /\ symmetric_nodes = Cardinality(symmetric)

\* Insert-then-evict keeps each table within its configured size, and the pools
\* of run_event_loop are large enough for it: no packet or reply is ever lost
\* because a pool ran out, not even with all tables full and a whole batch of
\* evictions deferred.
PoolsSuffice ==
    /\ ~ exhausted
    /\ Cardinality(fullcone) <= fullcone_maxsize
    /\ Cardinality(symmetric) <= symmetric_maxsize
    /\ Cardinality(tproxy) <= tproxy_maxsize

\* Every queued reply will leave through an open socket bound to the source the
\* client must see, although later packets of the batch may evict that socket's
\* entry and blocks of freed entries are used again.
QueuedSendsAreGood ==
    batch # NoBatch =>
        /\ batch.session \in LiveSessions
        /\ \A q \in batch.sends : socket[q.entry] = q.src

\* Between batches every open reply socket is in the table, once and under its
\* address: none leaks, also not the evicted ones, and after the end of the
\* thread none is open.
NoSocketLeaks ==
    batch = NoBatch =>
        /\ \A n \in tproxy : socket[n.entry] = n.key
        /\ \A e \in LiveSockets : Cardinality({n \in tproxy : n.entry = e}) = 1
        /\ closed => LiveSockets = {} /\ LiveSessions = {}

\* Nothing idle outlives its timeout by more than a GC interval, in any table.
IdleIsCollected ==
    /\ \A n \in fullcone \cup symmetric : n.age < g_udp_idletimeout_sec + GC_INTERVAL_SEC
    /\ \A n \in tproxy : 2 * (n.age - GC_INTERVAL_SEC) < g_udp_idletimeout_sec

\* "Use the checked snapshot, rather than rereading a concurrently changing
\* global best": a session that replaces one of a failed server is never at that
\* same server, whatever the selector does between the check and the creation.
ReplacementLeavesFailed ==
    [][\A i \in SessionIds :
          pending # NoPending /\ session[i] = Free /\ session'[i] # Free
            => session'[i].server_idx # pending.replaced]_udpVars
=============================================================================
