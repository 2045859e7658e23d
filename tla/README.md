# A TLA+ model of tproxy2ss2022

tproxy2ss2022 is a transparent proxy: it accepts redirected TCP connections and
UDP packets, carries them to one of up to 8 Shadowsocks-2022 servers,
and can hand out fake DNS addresses so that the servers see domain names. This
directory holds TLA+ modules of its core logic, TLC configurations that check
them on small instances, and TLAPS proofs. All paths below are under `src/src/`.

## 1. The system

Threads: `main` runs an event loop of its own (it is also a worker, and the only
one that runs the DNS server and the probes); further workers run one loop each.
A loop runs one callback at a time. Threads share the selectors (mutex, with
lock-free reads of the published best) and the fake DNS pool (rwlock, with
lock-free reads of versions), and `running` and the exit watchers of the workers
(mutex, `ev_async_send`). Everything else, the memory pools included, is
thread-local.

| component | state it keeps | operations | what makes it correct |
|---|---|---|---|
| server selector (`server_selector.c`), one each for TCP and UDP | per server: health, failure epoch, sample window, score; the published best; the probes of the round | timer starts a round, a probe connects, sends, decrypts its answer, times out or is skipped, business success and failure, choice of a candidate, UDP replacement, stop | the best is never out-ranked in health; a late answer does not undo a newer failure; rounds are counted; no pinning to a dead server; no switch on half a round; a verdict is that of the answer; a probe releases everything once |
| TCP handshake (`tcp_proxy.c`) | session: server, tried mask, epoch, header sent so far, initial payload, timers | accept, wait for the initial payload, connect (TFO), send the header, time out, retry at the next server | the payload goes to one server at most; every session leaves the handshake; all servers are tried before giving up; the epoch is that of the attempt |
| TCP relay (`tcp_proxy.c`) | input buffer, decrypted window in it, framing state, sealed chunk, EOF and shutdown flags, watcher masks | read, write, open, seal, compact, half-close | byte-exact delivery, no stall, a cut stream is not passed on as an end |
| fake DNS (`fakedns.c`, `fakedns_server.c`) | pool of entries (domain, expiry, version), per-thread MRU | A query: find, refresh, overwrite, insert; reverse lookup; save, load | an answer a client may still use resolves to its domain; the file is never torn |
| UDP proxy (`udp_proxy.c`, `lrucache.h`, `udp_lrucache.c`) | full-cone and symmetric session tables, reply-socket table | lookup or create, replace the server, batch of replies with deferred evictions, GC | tables within bounds, no use of a freed entry, pools large enough for insert-then-evict |
| memory pool (`mempool.c`) | slabs, free list, magic of each block | expand, alloc, free, destroy | a block is in use once; free list and counters agree |
| life cycle (`main.c`) | threads, their loops, exit watchers | start, signal, worker failure, join, save | main always returns; the save follows the joins |
| arguments, sockets, logging, bundled libraries, the SS2022 library (an empty submodule) | | | not modelled, see section 8 |

How they interact: a session reads the best at accept, takes a failure epoch before
each connect, reports failures from the retry and success on the first
authenticated response. UDP sessions only ask for a replacement. Sessions of both
kinds resolve fake addresses. `main` saves the pool after all workers are joined.

Hard to test here: reports of several workers and probes crossing each other;
answers that are older than failures; a timer racing connect and send; partial
sends with data decrypted in place; half-closes in both directions; lock-free
reads during an overwriting; a crash inside the save or a rename that the power
failure undoes; tables, pools and batches at
their limits with evictions of what is still in use; stop and failure in the middle
of the start. `PROJECT.json` lists each of
these hazards at its line, with the properties that cover it.

## 2. The modules

| module | models | composes or extends |
|---|---|---|
| `SelectorOps` | ranking, candidate scan, update of the best: operators | |
| `ServerSelector` | one selector: probes, rounds, business reports | `SelectorOps` |
| `TcpHandshake` | sessions from accept to the first response, together with the TCP selector | `ServerSelector` |
| `TcpRelay` | the relay of one session | |
| `FakeDns` | pool, DNS thread, reverse lookups, clients' caches | |
| `FakeDnsPersist` | save, load, crashes | `FakeDns` |
| `UdpProxy` | the UDP half of a thread: sessions, tables, reply sockets, GC, pool sizes | `SelectorOps` |
| `BlockAllocator` | what a memory pool promises: the abstract specification | |
| `Mempool` | a memory pool: slabs, headers, free list | refines `BlockAllocator` |
| `Lifecycle` | main, the workers, signals, exit requests, joins | |
| `WireProbe` | the TCP and the UDP probe of a server on the wire | |
| `MC...` | constants for TLC | the module of the name |
| `ServerSelectorProofs`, `TcpHandshakeProofs`, `TcpRelayProofs`, `FakeDnsProofs`, `UdpProxyProofs`, `MempoolProofs`, `LifecycleProofs`, `WireProbeProofs` | theorems (section 4) | the module of the name and TLAPS; `TcpHandshakeProofs` also `ServerSelectorProofs`, `FakeDnsProofs` also `FakeDnsPersist` |

Definitions that model a function have its name. Definitions named
`Something_Variant` are deliberate faults of `Something`: each property has one that
breaks it, listed in `PROJECT.json`.

**ServerSelector.** One action is one section under `selector->lock`, or one callback
of the main loop up to its next lock section. So `ss_record_probe` and
`ss_probe_done` are two actions with `finishing` between them, and the loop of
`selector_start_probe_round` is one `ProbeStart` per server with `cur` as its index:
workers interleave with both. The history fields `fresh` and `wrapped` exist for
`NoStaleRecovery` only. Here a probe is its outcome (`WireProbe` says where that comes
from), and the weighting in `ss_compute_score` is abstracted to a member of `Scores`.
`ss_candidate_locked` is stated declaratively, and `CandidateIsTheScan` checks it
against the loop of the code (`ss_candidate_scan`).

**TcpHandshake.** `phase` is the position in the callbacks; `queued` is history: the
servers that were handed a whole header with payload. A failed step goes to
`retry`, which is cut in two (`RetryReport`, `RetryNext`) because it takes the lock
twice. `FailWith` distinguishes failures blamed on the server from local ones, as
`socket_error_is_local` does. `ImplementsSelector` states that the composition is a
behaviour of `ServerSelector` alone: the sessions are legal clients.

**TcpRelay.** `s` is `session->relay`. A byte of the server's stream is its position,
so that mixing up, repeating or losing bytes shows; a piece authenticates iff it is
the next of the stream. The other direction is the same: `c2s` holds the positions of
the sealed bytes, `c2s_off` selects the ones that a `send` takes, and `to_server` is
what the server has received, so a wrong offset shows as well (`SealedIsSent`). A handler is the set of states it may leave behind, by how
much `recv` and `send` took. The stream may be cut anywhere.

**FakeDns.** An address is its offset in the pool. `Init` is what `main` has after
`fakedns_init` and, if there is a file, `fakedns_load`: any pool of new entries in slots
that their domains' scans may come to (`Loadable`), the empty one among them. The save
leaves out what has expired, so a loaded chain may have gaps, and a domain may even be
in two slots. So `OneAddressPerDomain` is a property of steps: a domain that no slot
holds, or one slot that its scan comes to (`OneAddress`), stays so. A domain that was
loaded behind a gap is not of this kind and is given a second address; the first one
still resolves (`FreshAnswerResolves`, `RestartKeepsAnswers`), which is what clients need.
The probe scan is stated with
quantifiers (`Reached`, `Found`, `Empty`, `FirstExpired`). Overwriting is two steps,
because the version that lock-free readers check is written last. `cached` is what
clients hold, counting down their TTL. Time is modulo `TimeMod`, and `Remaining` is
the signed difference of the code. A lookup is assumed to take less time than the
hours between TTL and lifetime (`Tick` waits for the writer).

**FakeDnsPersist.** `fakedns_save` in its steps, each of which may fail, with process
crash and power loss between them; unsynced contents do not survive power loss. The
code fsyncs the file and never the directory, so a completed rename is not durable:
`behind` are the files that a power failure may bring back under the name, up to
`MaxBehind` of them, until the kernel writes the directory (`DirectorySynced`). An
orderly end holds the next start to all answers of the clients. A crash or a failed
save holds it to those that the file in place records (`Recorded`): the code never
saves in between, so newer answers are lost, but older ones must not be. A power
failure that undoes the rename holds it to those that the older file records: an orderly
end does not save the answers of its clients from a power failure right after it.

**UdpProxy.** A session or a reply socket is a block of its pool, so that a block used
again after a wrong free shows. A table is the set of its nodes, with `last_active`
as an age. A callback of the thread is cut in two places: between the choice of a
server under the selector's lock and the creation of the session (`pending`), and
between the packets of a batch of replies (`batch`), whose queued sends point into
the table that the following packets change. The sizes of tables and pools are those
that `udp_lrucache_set_maxsize` and `run_event_loop` compute, clamped as there. The
selector is not composed but replaced by every state in which no server out-ranks
the best, new at each look: more than the selector can do, and a superset by the
theorem `BestIsRankMinimal`. Where the code evicts the first of equally old nodes the
model allows any.

**Mempool, BlockAllocator.** An address is a slab and an offset, so headers, inner
addresses, the end of a slab and foreign memory differ. An action is a call; callers
may free any of these addresses at any time. `expand_pool_batch` may fail. The magic at an
address that is no header is a caller's data and may look like that of a block in
use. `BlockAllocator` knows only a set of blocks in use. `ImplementsAllocator` maps
the blocks whose header says so to that set: no block is granted twice, a request is
refused only when every block is in use, and wrong frees change nothing.

**Lifecycle.** Threads interleave where they see each other: creation, the lock,
`ev_async_send`, `kill`, the signalfd, `pthread_join`, the end. Set-up and cleanup of a
loop are a step each, with failure as an outcome. A signal stays pending until
main's loop reads it, since all threads block it; an async event sent before a
worker enters `ev_run` stays pending as well.

**WireProbe.** One TCP and one UDP probe of a server over several rounds, in the
structs that rounds share. A byte on the wire is its frame and its place in it, so a
frame opens only if it is the next one, whole and in place. The loops of the
callbacks are one action per turn (`busy`). `res` counts what a probe has created and
not released, call by call (`ClientMade`, `SocketMade`, `Watched` and their opposites).
Each exit of `tcp_probe_start` and `udp_probe_start` is an outcome of its own, with what
it has acquired by then and what it frees (`TcpRequestFails`, `TcpSocketFails`,
`UdpSocketFails`, `UdpSealFails`, `UdpSendFails`), and so is each of the five places where
the code releases a whole probe (`TcpReleased`, `TcpErrorReleased`, `UdpReleased`,
`TcpStopped`, `UdpStopped`): they read the same because the code's copies do, and can be
wrong one by one. A connect that is up at once goes on to send before the io watcher is
started (`TcpConnectedAtOnce`). The UDP probe's answer is reduced to its end; what its verdict
means for the selector is in `ServerSelector`.

## 3. The runs

| run | checks | bounds |
|---|---|---|
| `selector_tcp` | `BestRankMinimal`, `RoundAccounting`, `CandidateIsTheScan`, `NoStaleRecovery`, `FailedBestMoves`, `ScoreSwitchNeedsWholeRound` | 3 servers, 1 connection, epochs wrap after 1 |
| `selector_live` | `RoundCompletes`, `Convergence` | 2 servers, 1 connection, local errors, every server may answer or fail |
| `handshake` | `NoReplay`, `AttemptsAreSound`, `ImplementsSelector`, `HandshakeEnds` | 2 servers, 1 session, header of 2 units, TFO, local errors |
| `handshake_reliable` | `ReliableServerFound` | 3 servers, one never fails |
| `relay` | `RelayTypeOK`, `ClientGetsPrefix`, `EndIsTheEnd`, `SealedIsSent`, `RelayEnds` | all streams of up to 2 chunks of 0 to 2 bytes, every cut, buffer of 5, 3 client bytes |
| `fakedns` | `FreshAnswerResolves`, `MruIsCurrent`, `OneAddressPerDomain` | 2 slots, 3 domains, 2 threads with 2 items, every loaded pool, 6 ticks over the wrap of a clock of 10 |
| `fakedns_persist` | `FileIsWhole`, `RestartKeepsAnswers` | 2 slots, 2 domains, 5 ticks, the disk one rename behind |
| `udp` | `IndexMatchesSessions`, `PoolsSuffice`, `QueuedSendsAreGood`, `NoSocketLeaks`, `IdleIsCollected`, `ReplacementLeavesFailed` | 2 servers, 2 clients, 1 fake and 2 other sources, tables of 1, 2 and 2, batches of 2, idle timeout 2, GC every 1 |
| `mempool` | `PoolIsConsistent`, `ImplementsAllocator` | up to 5 blocks, growth by 2, limits 3, 4 and none, blocks of 2 units |
| `lifecycle` | `NobodyLeftBehind`, `FailureIsReported`, `JoinedIsTold`, `StopEnds` | 3 workers |
| `wire_probe` | `ProbeTypeOK`, `NothingLeftOver`, `VerdictIsTheAnswer`, `NeverWaitsForNothing`, `ProbesEnd` | 6 answers of 1 to 4 chunks, status of 2 bytes, chunks of up to 2, request of 2 |
| `fakedns_wrap` | `SaveSkipsOnlyExpired`: violated | 1 domain, clock of 10 that wraps |

What they show. `selector_tcp`: the published best is right after every lock
section, whatever the order of reports. One connection is enough beside the probes,
because the selector cannot tell a probe's evidence from a session's, and the theorems below
hold for any number of connections. `selector_live`: rounds end also if probes fail
or are skipped while the round is being started, and the feedback of probes and
sessions does not oscillate between a dead and a live server.
`handshake`: the composition of session and selector is safe with every failure the
code handles (`AttemptsAreSound`: a report carries the epoch of its own attempt, and a
session gives up only after every server was tried), and the session
always leaves the handshake. `handshake_reliable`: failover finds the one good server.
`relay`: delivery is exact and never stalls. `fakedns`, `fakedns_persist`: answers stay
good as long as clients may use them, over reuse of slots, lock-free readers, the
wrap of the clock and orderly restarts; a crash loses none that a save recorded, and a
power failure none that the last save recorded whose rename had reached the disk.
`udp`: insert-then-evict works at the limits of tables and pools, and neither
evictions in a batch nor replacements leave a dangling index or socket. `mempool`:
no sequence of calls, legal or not, makes the pool hand out a block twice or lose
one (`PoolIsConsistent`: free list, magics and counters agree). `lifecycle`: a stop or a failure at any moment ends the process in order.
`wire_probe`: the verdict on a server does not depend on how its answer was cut, and
no way out of a probe, the exits of its set-up included, leaks or stalls its round.

The type invariants of the selector and the life cycle are theorems (section 4); those of
the handshake, the memory pool, the fake DNS and the UDP proxy are conjuncts of
`AttemptsAreSound`, `PoolIsConsistent`, `MruIsCurrent` and `IndexMatchesSessions`.

Why the bounds are enough. The selector compares two servers at a time; a third one
adds a bystander that can be picked wrongly, so safety has three servers (and the
proofs any number); the liveness run has two, which can each play the dead and the
live one. Scores 1 and 8 are further apart than
the threshold of 6, and `UINT32_MAX` is the score without samples. Two units of
header give "nothing", "part" and "all sent". The relay's buffer holds one chunk of
full size and one byte more, as the code's holds one and 64 bytes, so it fills,
and compaction, a full buffer and a second chunk behind the first all occur. A fake
DNS lifetime of 4 gives a refresh threshold of 1 and a TTL of 1, the tightest values
the code's static assertion admits. `MaxVersion`
lets each slot be given to a second domain, and `StartTime` and `LastTime` give the clock the
ticks for an entry to live, expire, be reused and be refreshed. `MaxBehind` 1 lets a
save be undone after one or several that were not; the proofs do not need the bound.

With `base_size` 1 and `UINT16_MAX` 2 the UDP tables hold 1, 2 and (clamped) 2
nodes, so two clients overflow the full-cone table and three sources the
reply-socket table, within one batch too. A base and two batches make
the pool grow to a limit that is and one that is not a multiple of the batch. Three
workers give one that has run, one being started and one not yet. The answers of
`wire_probe` put the status in one chunk, across two, between empty ones, with data
behind it, wrong in its last and in its first byte, and too short.

`CHECK_DEADLOCK FALSE` stands where sessions, threads or the process end, or a
selector stops for good.

Fairness. `FairSelectorSpec`: the repeating timer, the starting loop, `ss_probe_done`,
and for each probe that one of its ends comes (its 5 s timeout at the latest).
`FairHandshakeSpec`: callbacks run to their end and the phase timers fire; nothing
of the peers. `FairSpec` of the relay: as long as an armed watcher can move something, some
event that does so is delivered. This is an assumption on the two peers, since
the code has no idle timeout in the relay; the run shows that the watcher masks
themselves never stop a session. `FairLifeSpec`: a thread that can run does, and a
loop sees what is pending for it; nobody is assumed to send a signal.
`FairProbeSpec`: a callback that has begun runs to its end (weak fairness), and a
timer that is due is served (strong fairness: callbacks of other watchers may come
between, but libev calls all that is pending before it waits again).

### Refinement

`TcpHandshake` implements `ServerSelector` (`ImplementsSelector`: sessions are clients
the selector's specification allows for) and `Mempool` implements
`BlockAllocator` (`ImplementsAllocator`, blocks in use mapped from the magics). Both
are checked by TLC as properties of the detailed specification, and proved for every
value of the constants (`SessionsImplementSelector`, `PoolImplementsAllocator`).

### A disagreement found

`fakedns_save` compares `entry->expire <= now` unsigned (`fakedns.c:787`), under the
comment "skip expired entries", while the lookups use the signed difference and so
are safe when the 32-bit seconds wrap. The run `fakedns_wrap` shows a save shortly
before the wrap that leaves out an entry the lookups take for current. It matters
on one day in 2106, or with a clock that is set to such a time.

## 4. What is proved

Each theorem states a property that a run checks (the type theorems of the selector and
the life cycle, `SelectorWithSessions`, `HandshakeAdvances` and `ProbesAreSelectorEvents`
apart), for every value of the constants that the named assumptions
admit. TLC evaluates those in the runs. Every inductive invariant below was
first checked by TLC on the instance of its run.

### Server selector (`ServerSelectorProofs`)

For every number of servers and connections, every threshold, every set of scores and
every set of servers that fail or answer (`NAssumption`, `ScoreAssumption`,
`EpochAssumption`, `ScoresAssumption`, `EnvAssumption`):

* `TypeCorrect`: `SelectorSpec => []TypeOK`;
* `RoundAccounted`: `SelectorSpec => []RoundAccounting`;
* `BestIsRankMinimal`: `SelectorSpec => []BestRankMinimal`;
* `ScanReturnsCandidate`: `SelectorSpec => []CandidateIsTheScan`;
* `FailedBestAlwaysMoves`: `SelectorSpec => FailedBestMoves`;
* `StaleAnswersNeverRecover`: `SelectorSpec => NoStaleRecovery`;
* `ScoreSwitchesWait`: `SelectorSpec => ScoreSwitchNeedsWholeRound`.

The argument. `TypeOK` alone is not inductive: `ProbeDone` would take
`probes_remaining` below 0. `RoundInv` adds `RoundAccounting` (the counter is the
number of open probes, plus the servers still to start, plus the one finishing)
and `UnstartedIdle` (no probe is open for a server the loop has yet to start), and
is inductive; the cardinality facts are in `ProbeEnds`, `WorkerAccounting` and
`ProbeEndAccounting`. `BestRankMinimal` rests on lemmas about the operators: a
finite non-empty set of servers has an unbeaten member (`UnbeatenExists`, from the
least-number principle `LeastNat`), the candidate is unbeaten (`Candidate`), and
`UpdateBest` says where the best may move. `EpochInv` says that evidence still marked
fresh carries the current epoch and that other evidence carries an older one, as
long as no epoch wrapped; `NoStaleRecovery` follows because an answer counts only
if the epochs are equal. `ScanReturnsCandidate` is about a recursive function: the
library's induction theorems cannot be used, but a least counterexample can
(`ScanTurnHolds`: after i turns the scan holds the candidate of the first i servers).

### TCP handshake (`TcpHandshakeProofs`)

For every number of servers and sessions and every length of the request
(`RequestAssumption` and those of the selector):

* `SessionsImplementSelector`: `HandshakeSpec => ImplementsSelector`;
* `SelectorWithSessions`: what is proved of the selector holds of the composition;
* `AttemptsSound`: `HandshakeSpec => []AttemptsAreSound`;
* `PayloadNeverReplayed`: `HandshakeSpec => []NoReplay`;
* `ReliableServerIsFound`: `HandshakeSpec => []ReliableServerFound`;
* `HandshakeAdvances`: `HandshakeSpec => [][\A s \in Sessions : Advances(s)]_vars`.

The refinement maps every variable of the selector to itself: each step of a session is
a client's step of `ServerSelector` or leaves it alone. `HandshakeInv` says of each
session that the retries are fewer than the servers tried (`TriedOK`), that one whose
payload was handed over has sent its whole header and never connects
again (`PayloadOK`), that its evidence is of the server it is connected to
(`BoundOK`), and that without local errors it has left only servers that can fail
(`BlameOK`). `HandshakeAdvances` is the part of `HandshakeEnds` that is within the prover's
reach: a step leaves a session where it is, ends its handshake for good, tries a server for
the first time or lowers the `Rank` of its phase, so no sequence of failovers goes round in
circles. What is left to fairness is that a callback or a timer that is due does run.

### TCP relay (`TcpRelayProofs`)

For every size of the buffers, every header, every stream of chunks of up to the maximum payload, every cut
and every way in which `recv` and `send` split the data (`RelayAssumption`):

* `BuffersHold`: `Spec => []RelayTypeOK`;
* `PlainTextInOrder`: `Spec => []ClientGetsPrefix`;
* `EndIsNeverInvented`: `Spec => []EndIsTheEnd`;
* `SealedBytesSent`: `Spec => []SealedIsSent`.

The argument. `RelayInv` joins the stream and the buffer. `BufferOK`: the buffer holds
the last bytes received, in order, those of the chunk that is being sent first.
`FrameOK`: what was opened ends where a piece of the stream ends, and what the client
was sent is the text of the chunks before it and the part of the current one that was
sent. `PrefixOK`: that is the beginning of the plain text. `Settled`: between events
whatever could be opened was opened. It is what makes the end of the stream
unambiguous, since at a settled state the buffer is empty at the end of a chunk and
nowhere else (`EofFacts`). The watchers ask for data only if there is room, so a
`recv` into no room, which would look like the end, never happens. `UpOK` and `EndOK`
carry the other direction and the half-closes. The definitions of the
stream are recursive functions (`ChunkEnd`, `Plain`, the loop of
`tcp_relay_process_server_data`); what they compute is proved by
least counterexample (`EndFacts`, `PlainFacts`, `ProcessFacts`), the last of these from
the fact that each turn of the loop takes something out of the buffer or is the last.

### Fake DNS (`FakeDnsProofs`)

For every pool, probe sequence, number of threads, lifetime and TTL
(`FakeDnsAssumption`; its last conjunct is the static assertion of the code):

* `CachesAreCurrent`: `Spec => []MruIsCurrent`;
* `AnswersResolve`: `Spec => []FreshAnswerResolves`;
* `AddressesAreUnique`: `Spec => OneAddressPerDomain`;
* `SavedFileIsWhole`: `PersistSpec => []FileIsWhole`;
* `RestartsKeepAnswers`: `NoWrap => (PersistSpec => []RestartKeepsAnswers)`.

`BaseInv`: a cached item is never newer than its slot and agrees with it if the versions are
equal, except while that slot is being overwritten (`ItemOK`), and the entry behind an answer
outlives it, by the signed difference of times, so over the wrap of the clock too
(`AnswerOK`). `AddressesAreUnique` needs of it the types and that the slot being
overwritten is not an empty one, and holds from every pool a load can leave: no slot is ever emptied, so what a scan reaches
it still reaches (`StillReached`), and a domain enters a slot only when its scan has found
it nowhere and comes to that slot (`NewDomain`).
`DiskInv` orders the steps of a save: the temporary file is whole before it is
flushed and flushed before it replaces the old one, and so every file that the disk may
come back with is whole and flushed (`Durable`). `RestartInv` adds what the file
must record at each step. `NoWrap` (the process runs for less than half the clock's
period and ends a lifetime before the wrap) is needed: without it the theorem is
false, by the disagreement above.

### UDP proxy (`UdpProxyProofs`)

For every number of clients, servers and sources, every `-c`, multiplier, batch size,
timeout and interval (`SizeAssumption`, `TimeAssumption`, `AddressAssumption`):

* `TablesIndexSessions`: `UdpSpec => []IndexMatchesSessions`;
* `PoolsAreLargeEnough`: `UdpSpec => []PoolsSuffice`;
* `QueuedSendsHold`: `UdpSpec => []QueuedSendsAreGood`;
* `SocketsNeverLeak`: `UdpSpec => []NoSocketLeaks`;
* `IdleNeverStays`: `UdpSpec => []IdleIsCollected`;
* `ReplacementsLeaveFailed`: `UdpSpec => ReplacementLeavesFailed`.

`UdpInv` has a part for each structure: `SessionInv` (live sessions and nodes correspond, nodes are
counted), `SocketInv` (an open socket is in the table or among the deferred evictions),
`BatchInv` (a batch can still defer as many evictions as it has packets left, which
is why a table plus a batch bounds the pool), `PhaseInv` (what is about to be created
has no node) and `AgeInv` (the age of a node plus the time to the next collection
is bounded).

### Memory pool (`MempoolProofs`)

For every block size, limit and step of growth (`MempoolAssumption`):

* `PoolStaysConsistent`: `PoolSpec => []PoolIsConsistent`;
* `PoolImplementsAllocator`: `PoolSpec => ImplementsAllocator`.

`PoolInv` strengthens `PoolIsConsistent` by the count of headers in use plus the length
of the free list being `pool_blocks`, and by the domain of `magic` being the headers of
the slabs. The refinement goes call by call: each maps to the one step of the
allocator that has its result.

### Life cycle (`LifecycleProofs`)

For every number of workers (`WAssumption`):

* `LifeTypeCorrect`: `LifeSpec => []LifeTypeOK`;
* `NobodyIsLeftBehind`: `LifeSpec => []NobodyLeftBehind`;
* `EveryoneJoinedIsTold`: `LifeSpec => []JoinedIsTold`;
* `FailuresAreReported`: `LifeSpec => []FailureIsReported`.

The argument. None of the last three is inductive: that a worker was told when
main joins depends on `running` having been true when main asked, hence on which
workers exist and where each is. `LifeInv` says so: `Created` (the workers that
exist are those before `next` while main starts them, then those up to
`g_thread_count`, also after a failed start), `RunningIsExact` (`running` holds exactly
from creation to the end of the cleanup), `Loops` (a loop exists until its thread
is joined), `AskedIsTold` (after the request, whoever is not yet on its way out has an
async event pending) and `Reported` (the failure of a joined worker is in
`exit_code`). It was checked with TLC for three workers and is preserved action by
action in the lemmas of the module.

### Wire probe (`WireProbeProofs`)

For every set of answers of chunks of up to `UINT16_MAX` bytes, every size of the
request, the header, the tag and the status line (`ProbeAssumption`; the header, of
less than a hundred bytes, fits into the buffer of 65553):

* `ProbeBuffersHold`: `ProbeSpec => []ProbeTypeOK`;
* `ProbesReleaseAll`: `ProbeSpec => []NothingLeftOver`;
* `ProbesJudgeTheAnswer`: `ProbeSpec => []VerdictIsTheAnswer`;
* `ProbesWaitForMore`: `ProbeSpec => []NeverWaitsForNothing`;
* `ProbesAreSelectorEvents`: `ProbeSpec => []SelectorView /\ [][SelectorEvent]_probeVars`.

`ProbeInv` has four parts besides the verdict itself: `HoldsInv` (a probe holds nothing, or
all that its start acquired, with the io watcher off, for writing or for reading: `Free`,
`Opening`, `Writing`, `Reading`; the lemmas `Releases` and `SetupExits` say what each
release and each exit of a set-up leaves of it), `VarsInv` (types), `PhaseInv` (which
callback may be in its loop, and that nothing is recorded or opened before its time) and
`ReceiveInv`: the buffer is the wire from the end of the last opened frame to the last
byte that the socket gave (`Stream`), the status is the text of the first c chunks and
not complete, and `buf_need` is the size of the frame that follows (`Place`). Then
a buffer that holds `buf_need` bytes holds the next frame (`NextFrame`), so that only a
forged one fails to open, and a buffer that holds fewer has not got the end of the status
line (`StatusIsAhead`); `TakenFacts` is about the copy into the status. The wire and the
text are `FlattenSeq` of their pieces, a recursive function of the community modules; what
it gives for the first n pieces (`CatFacts`) is proved by a least counterexample.

`ProbesAreSelectorEvents` is what connects this module with `ServerSelector`, where a
probe is its events: a step of the TCP probe on the wire is a `ProbeStart` that leaves the probe under way or
that fails or is skipped at once, one of `ProbeAnswered`, `ProbeErrored` and `ProbeSkipped` of a
probe under way, a `Stop`, or no event; and `probes_remaining` counts a probe while it is
under way and no longer.

## 5. What is only model-checked

* Liveness under fairness, which is outside the prover: `RoundCompletes`,
  `Convergence`, `HandshakeEnds`, `RelayEnds`, `StopEnds`, `ProbesEnd`.
* `SaveSkipsOnlyExpired`, which is false.

## 6. Plan

Every safety property and action property that a run checks is proved, but for the one
that is false. What could still be added: the score of a server as the code computes it,
from its window, and a composition of `WireProbe` with the rounds of `ServerSelector`,
beyond the events that `ProbesAreSelectorEvents` connects them by.

## 7. Limits of the models

* Selector: a score is any member of `Scores`; `ss_compute_score` itself (averages
  in integers over a window) is not computed.
* UDP: packets have no contents. Those that parsing drops (no destination, unknown
  fake address, too large to seal) change nothing and do not occur. A seal or send to the server that
  fails drops the packet and changes nothing either.
* Memory pool: statistics that are only logged, and headers that a caller's overrun
  has overwritten, are left out.
* Life cycle: the exit code of a failure is 1 (the code also has `errno` values), a
  `pthread_join` that fails is left out, and so are the lazily created cipher
  contexts of each thread, which its cleanup frees.
* Wire probe: that the header of a response fits into the buffer is an assumption
  (`ProbeAssumption`); the check of it in `tcp_probe_on_send` never fails.
* Fake DNS: the clock ticks; a step of the wall clock is the one hazard of the list
  without a property.

## 8. What is not modelled and why

Command line (`main.c`): sequential parsing before any thread exists. Socket helpers
(`netutils.c`) and logging: wrappers of system calls and output. DNS wire format and
the parsing of PTR names: formatting; queries are modelled by what they do to the
pool. libev, uthash, xxhash: third-party, used by their contracts. The SS2022
library: an empty submodule; its framing and authentication are modelled as external
definitions in `TcpRelay` and `WireProbe`. An
allocation that fails while the cache file is loaded is left out.
