------------------------- MODULE TcpHandshakeProofs -------------------------
(***************************************************************************)
(* What TLAPS proves of TcpHandshake for every number of servers and       *)
(* sessions, every length of the request header, with and without TFO: the *)
(* sessions are clients the selector's specification allows for, attempts  *)
(* are sound, no payload is replayed, and no session goes in circles.      *)
(***************************************************************************)
EXTENDS TcpHandshake, ServerSelectorProofs

-----------------------------------------------------------------------------
(* The refinement.                                                         *)

\* The types of a session's own variables.
SessionTypeOK ==
    /\ phase \in [Sessions -> Phases]
    /\ server_idx \in [Sessions -> Servers]
    /\ tried_servers_mask \in [Sessions -> SUBSET Servers]
    /\ retry_count \in [Sessions -> 0 .. N - 1]
    /\ payload \in [Sessions -> BOOLEAN]
    /\ header_len \in [Sessions -> {0, RequestLen}]
    /\ header_sent \in [Sessions -> 0 .. RequestLen]
    /\ node_failure \in [Sessions -> BOOLEAN]
    /\ queued \in [Sessions -> SUBSET Servers]

\* What a step of a session does to the selector is one of its client's steps, or
\* nothing.
LEMMA SessionIsClient ==
    ASSUME NEW s \in Sessions, server_idx[s] \in Servers, SessionStep(s)
    PROVE  ClientStep(s) \/ UNCHANGED selectorVars
<1>1. ASSUME NEW p, tcp_session_close(s, p)
      PROVE  ClientStep(s) \/ UNCHANGED selectorVars
    BY <1>1 DEF tcp_session_close, ClientStep
<1>2. ASSUME tcp_session_enter_relay(s)
      PROVE  ClientStep(s) \/ UNCHANGED selectorVars
    BY <1>1, <1>2 DEF tcp_session_enter_relay
<1>3. ASSUME tcp_handshake_send_request_header(s)
      PROVE  ClientStep(s) \/ UNCHANGED selectorVars
    BY <1>2, <1>3 DEF tcp_handshake_send_request_header, selectorVars
<1>4. CASE tcp_session_create(s) \/ ReadInitialPayload(s) \/ InitialPayloadTimeout(s)
    BY <1>4 DEF tcp_session_create, ReadInitialPayload, InitialPayloadTimeout
<1>5. CASE tcp_handshake_try_connect(s)
    BY <1>5 DEF tcp_handshake_try_connect, TakeEpoch, ClientStep
<1>6. CASE tcp_handshake_on_server_connected(s)
    BY <1>2, <1>3, <1>6 DEF tcp_handshake_on_server_connected, selectorVars
<1>7. CASE tcp_handshake_on_server_writable(s)
    BY <1>3, <1>7 DEF tcp_handshake_on_server_writable
<1>8. CASE tcp_handshake_on_timeout(s)
    BY <1>8 DEF tcp_handshake_on_timeout, selectorVars
<1>9. CASE RetryReport(s) \/ ResponseHeader(s)
    BY <1>9 DEF RetryReport, ResponseHeader, ClientStep
<1>10. CASE RetryNext(s)
    BY <1>1, <1>10 DEF RetryNext
<1>11. CASE SessionEnd(s)
    BY <1>1, <1>11 DEF SessionEnd
<1> QED
    BY <1>4, <1>5, <1>6, <1>7, <1>8, <1>9, <1>10, <1>11 DEF SessionStep

\* Every step of the composition is a step of the selector or leaves it alone.
LEMMA StepImplements ==
    ASSUME SessionTypeOK, [HandshakeNext]_vars
    PROVE  [SelectorNext]_selectorVars
<1>1. CASE MainStep /\ UNCHANGED sessionVars
    BY <1>1 DEF SelectorNext
<1>2. ASSUME NEW s \in Sessions, SessionStep(s) PROVE [SelectorNext]_selectorVars
  <2>1. server_idx[s] \in Servers
      BY DEF SessionTypeOK
  <2> QED
      BY <1>2, <2>1, SessionIsClient DEF SelectorNext, Sessions
<1>3. CASE UNCHANGED vars
    BY <1>3 DEF vars
<1> QED
    BY <1>1, <1>2, <1>3 DEF HandshakeNext

-----------------------------------------------------------------------------
(* The inductive invariant.                                                *)

\* A session has tried more servers than it has retried, so the counter is below
\* N; it has tried none before it has taken the published best.
TriedOK(s) ==
    /\ phase[s] = "new" => tried_servers_mask[s] = {} /\ retry_count[s] = 0
    /\ phase[s] # "new" => /\ server_idx[s] \in tried_servers_mask[s]
                          /\ retry_count[s] < Cardinality(tried_servers_mask[s])
    /\ phase[s] = "exhausted" => tried_servers_mask[s] = Servers

\* A session whose payload a server was given has a complete header behind it, and
\* is not on its way to another server.  While one is sent, there is a header.
Unsent == {"new", "select", "read", "wait", "connect"}
PayloadOK(s) ==
    /\ phase[s] \in {"connecting", "sending"} => header_len[s] = RequestLen
    /\ queued[s] # {} => /\ payload[s] /\ phase[s] \notin Unsent
                        /\ header_len[s] = RequestLen /\ header_sent[s] = RequestLen
                        /\ \E i \in Servers : queued[s] = {i}

\* The evidence of a session is from the server it is connected to.
BoundOK(s) ==
    phase[s] \in Bound => attempt[s] # NoAttempt /\ attempt[s].srv = server_idx[s]

\* Without local errors a session leaves only servers that can fail.
BlameOK(s) ==
    ~ LocalErrors =>
        /\ phase[s] # "select"
        /\ tried_servers_mask[s] \subseteq MayFail \cup {server_idx[s]}
        /\ phase[s] \in {"retry", "exhausted"} => tried_servers_mask[s] \subseteq MayFail

SessionOK(s) == TriedOK(s) /\ PayloadOK(s) /\ BoundOK(s) /\ BlameOK(s)
HandshakeInv == RoundInv /\ SessionTypeOK /\ \A s \in Sessions : SessionOK(s)

\* What every step of the selector leaves of the evidence of a connection that is
\* not the one that steps: its server.
LEMMA OthersEvidence ==
    ASSUME TypeOK, NEW t \in Clients,
           \/ MainStep
           \/ \E s \in Clients \ {t} : ClientStep(s)
           \/ UNCHANGED selectorVars
    PROVE  /\ attempt'[t] = NoAttempt <=> attempt[t] = NoAttempt
           /\ attempt'[t].srv = attempt[t].srv
<1>ev. probe \in [Servers -> EvidenceOrNone] /\ attempt \in [Clients -> EvidenceOrNone]
    BY DEF TypeOK, EvidenceOrNone
<1> DEFINE Kept(e) == /\ e = NoAttempt <=> attempt[t] = NoAttempt
                      /\ e.srv = attempt[t].srv
<1>1. ASSUME NEW i \in Servers, NEW sc, NEW pr, NEW at, at[t] = attempt[t],
             RecordFailure(i, sc, pr, at)
      PROVE  Kept(attempt'[t])
  <2>1. attempt'[t] = Overtaken(attempt[t], i)
      BY <1>1 DEF RecordFailure
  <2> QED
      BY <1>ev, <2>1, OvertakenFacts
<1>2. CASE MainStep
  <2>1. CASE ProbeStart
    <3>1. cur \in Servers
        BY <2>1, NAssumption DEF ProbeStart, TypeOK, Servers
    <3> QED
        BY <1>1, <2>1, <3>1 DEF ProbeStart
  <2>2. ASSUME NEW i \in Servers, ProbeStep(i) PROVE Kept(attempt'[t])
      BY <1>1, <2>2 DEF ProbeStep, ProbeAnswered, RecordProbeAnswer, ProbeErrored, ProbeSkipped
  <2> QED
      BY <1>2, <2>1, <2>2 DEF MainStep, CheckTimer, ProbeDone, Stop
<1>3. ASSUME NEW s \in Clients, s # t, ClientStep(s) PROVE Kept(attempt'[t])
  <2>1. CASE ReportFailure(s)
    <3>1. attempt[s].srv \in Servers
        BY <2>1, <1>ev DEF ReportFailure, EvidenceOrNone, Evidence
    <3>2. [attempt EXCEPT ![s] = NoAttempt][t] = attempt[t]
        BY <1>ev, <1>3
    <3> QED
        BY <1>1, <2>1, <3>1, <3>2 DEF ReportFailure
  <2> QED
      BY <1>ev, <1>3, <2>1 DEF ClientStep, Attempt, ReportSuccess, Abandon
<1> QED
    BY <1>2, <1>3 DEF selectorVars

\* The sessions that do not step are left as they are.
LEMMA OthersUntouched ==
    ASSUME NEW s \in Sessions, SessionTypeOK, SessionStep(s), NEW t \in Sessions, t # s
    PROVE  /\ phase'[t] = phase[t] /\ server_idx'[t] = server_idx[t]
           /\ tried_servers_mask'[t] = tried_servers_mask[t]
           /\ retry_count'[t] = retry_count[t] /\ payload'[t] = payload[t]
           /\ header_len'[t] = header_len[t] /\ header_sent'[t] = header_sent[t]
           /\ queued'[t] = queued[t] /\ node_failure'[t] = node_failure[t]
<1> USE DEF SessionTypeOK, GoTo, Sent, FailWith
<1>1. CASE tcp_session_create(s)
    BY <1>1 DEF tcp_session_create, Choose
<1>2. CASE ReadInitialPayload(s) \/ InitialPayloadTimeout(s)
    BY <1>2 DEF ReadInitialPayload, InitialPayloadTimeout
<1>3. CASE tcp_handshake_try_connect(s)
    BY <1>3 DEF tcp_handshake_try_connect
<1>4. CASE tcp_handshake_on_server_connected(s) \/ tcp_handshake_on_server_writable(s)
    BY <1>4 DEF tcp_handshake_on_server_connected, tcp_handshake_on_server_writable,
                tcp_handshake_send_request_header, tcp_session_enter_relay, tcp_session_close
<1>5. CASE tcp_handshake_on_timeout(s) \/ RetryReport(s)
    BY <1>5 DEF tcp_handshake_on_timeout, RetryReport
<1>6. CASE RetryNext(s)
    BY <1>6 DEF RetryNext, Choose, tcp_session_close
<1>7. CASE ResponseHeader(s) \/ SessionEnd(s)
    BY <1>7 DEF ResponseHeader, SessionEnd, relayVars, tcp_session_close
<1> QED
    BY <1>1, <1>2, <1>3, <1>4, <1>5, <1>6, <1>7 DEF SessionStep

\* Failover finds an untried server as long as there is one.
LEMMA NextBest ==
    ASSUME TypeOK, NEW tried \in SUBSET Servers
    PROVE  LET next == server_selector_next_best_tcp(tried)
           IN  /\ next = None <=> tried = Servers
               /\ next # None => next \in Servers \ tried
<1> DEFINE next == server_selector_next_best_tcp(tried)
<1>1. None \notin Servers
    BY NAssumption DEF None, Servers
<1>2. CASE Untried(tried) = {}
  <2>1. next = None
      BY <1>2 DEF server_selector_next_best_tcp, ss_candidate_locked
  <2> QED
      BY <1>2, <2>1 DEF Untried
<1>3. CASE Untried(tried) # {}
  <2>1. next \in Untried(tried)
      BY <1>3, Candidate DEF server_selector_next_best_tcp, Ranked, TypeOK
  <2> QED
      BY <1>1, <2>1 DEF Untried
<1> QED
    BY <1>2, <1>3

\* Choosing a server adds one to those that were tried.
LEMMA ChooseFacts ==
    ASSUME NEW s \in Sessions, SessionTypeOK, NEW i \in Servers,
           i \notin tried_servers_mask[s], Choose(s, i)
    PROVE  /\ server_idx' \in [Sessions -> Servers] /\ server_idx'[s] = i
           /\ tried_servers_mask' \in [Sessions -> SUBSET Servers]
           /\ tried_servers_mask'[s] = tried_servers_mask[s] \cup {i}
           /\ Cardinality(tried_servers_mask'[s]) = Cardinality(tried_servers_mask[s]) + 1
           /\ Cardinality(tried_servers_mask'[s]) \in 0 .. N
<1>1. /\ server_idx' \in [Sessions -> Servers] /\ server_idx'[s] = i
      /\ tried_servers_mask' \in [Sessions -> SUBSET Servers]
      /\ tried_servers_mask'[s] = tried_servers_mask[s] \cup {i}
      /\ tried_servers_mask[s] \in SUBSET Servers
      /\ tried_servers_mask'[s] \in SUBSET Servers
    BY DEF Choose, SessionTypeOK
<1>2. IsFiniteSet(tried_servers_mask[s])
    BY <1>1, ServerSets
<1>3. Cardinality(tried_servers_mask'[s]) \in 0 .. N
    BY <1>1, ServerSets
<1> QED
    BY <1>1, <1>2, <1>3, FS_AddElement

\* Accept keeps the session's invariant.
LEMMA CreateStep ==
    ASSUME NEW s \in Sessions, TypeOK, SessionTypeOK, SessionOK(s), tcp_session_create(s)
    PROVE  SessionTypeOK' /\ SessionOK(s)'
<1> DEFINE next == IF phase[s] = "new" THEN best_idx
                   ELSE server_selector_next_best_tcp(tried_servers_mask[s])
<1>1. tried_servers_mask[s] \in SUBSET Servers /\ phase[s] \in {"new", "select"}
    BY DEF SessionTypeOK, tcp_session_create
<1>2. best_idx \in Servers /\ best_idx # None
    BY NAssumption DEF TypeOK, Servers, None
<1>3. /\ next = None => phase[s] = "select" /\ tried_servers_mask[s] = Servers
      /\ next # None => next \in Servers /\ next \notin tried_servers_mask[s]
    BY <1>1, <1>2, NextBest DEF SessionOK, TriedOK
<1>4. /\ queued[s] = {} /\ UNCHANGED <<retry_count, payload, header_len, header_sent,
                                       node_failure, queued, selectorVars>>
    BY <1>1 DEF SessionOK, PayloadOK, Unsent, tcp_session_create
<1>5. CASE next = None
  <2>1. GoTo(s, "exhausted") /\ UNCHANGED <<server_idx, tried_servers_mask>>
      BY <1>5 DEF tcp_session_create
  <2>2. SessionTypeOK'
      BY <1>4, <2>1 DEF SessionTypeOK, GoTo, Phases
  <2>3. phase'[s] = "exhausted" /\ LocalErrors
      BY <1>3, <1>5, <2>1, EnvAssumption DEF SessionTypeOK, GoTo, SessionOK, BlameOK
  <2> QED
      BY <1>3, <1>4, <1>5, <2>1, <2>2, <2>3
      DEF SessionOK, TriedOK, PayloadOK, BoundOK, BlameOK, Bound
<1>6. CASE next # None
  <2>1. /\ Choose(s, next)
        /\ \/ GoTo(s, "read")
           \/ LocalErrors /\ GoTo(s, "select")
      BY <1>6 DEF tcp_session_create
  <2>2. /\ phase' \in [Sessions -> Phases] /\ phase'[s] \in {"read", "select"}
        /\ phase'[s] = "select" => LocalErrors
      BY <2>1 DEF GoTo, SessionTypeOK, Phases
  <2>3. /\ server_idx' \in [Sessions -> Servers] /\ server_idx'[s] = next
        /\ tried_servers_mask' \in [Sessions -> SUBSET Servers]
        /\ tried_servers_mask'[s] = tried_servers_mask[s] \cup {next}
        /\ Cardinality(tried_servers_mask'[s]) = Cardinality(tried_servers_mask[s]) + 1
      BY <1>3, <1>6, <2>1, ChooseFacts
  <2>4. Cardinality(tried_servers_mask[s]) \in Nat
      BY <1>1, ServerSets
  <2>5. retry_count[s] < Cardinality(tried_servers_mask'[s])
      BY <1>1, <2>3, <2>4 DEF SessionOK, TriedOK, SessionTypeOK
  <2>6. SessionTypeOK'
      BY <1>4, <2>2, <2>3 DEF SessionTypeOK
  <2>7. TriedOK(s)' /\ PayloadOK(s)' /\ BoundOK(s)'
      BY <1>4, <2>2, <2>3, <2>5 DEF TriedOK, PayloadOK, BoundOK, Bound
  <2>8. BlameOK(s)'
      BY <1>1, <2>2, <2>3 DEF SessionOK, TriedOK, BlameOK
  <2> QED
      BY <2>6, <2>7, <2>8 DEF SessionOK
<1> QED
    BY <1>5, <1>6

\* So does reading the initial payload.
LEMMA PayloadStep ==
    ASSUME NEW s \in Sessions, SessionTypeOK, SessionOK(s),
           ReadInitialPayload(s) \/ InitialPayloadTimeout(s)
    PROVE  SessionTypeOK' /\ SessionOK(s)'
<1>1. /\ phase[s] \in {"read", "wait"}
      /\ UNCHANGED <<server_idx, tried_servers_mask, retry_count, header_len, header_sent,
                     node_failure, queued, selectorVars>>
      /\ payload' = payload \/ \E p \in BOOLEAN : payload' = [payload EXCEPT ![s] = p]
      /\ GoTo(s, "connect") \/ GoTo(s, "closed") \/ GoTo(s, "wait")
    BY DEF ReadInitialPayload, InitialPayloadTimeout
<1>2. /\ phase' \in [Sessions -> Phases] /\ phase'[s] \in {"connect", "closed", "wait"}
      /\ payload' \in [Sessions -> BOOLEAN] /\ queued[s] = {}
    BY <1>1 DEF GoTo, SessionTypeOK, Phases, SessionOK, PayloadOK, Unsent
<1>3. SessionTypeOK'
    BY <1>1, <1>2 DEF SessionTypeOK
<1>4. TriedOK(s)' /\ PayloadOK(s)'
    BY <1>1, <1>2 DEF SessionOK, TriedOK, PayloadOK
<1>5. BoundOK(s)' /\ BlameOK(s)'
    BY <1>1, <1>2 DEF SessionOK, BoundOK, BlameOK, Bound
<1> QED
    BY <1>3, <1>4, <1>5 DEF SessionOK

-----------------------------------------------------------------------------
(* The steps at one server.                                                *)

\* A failure is blamed on a server that can fail, or it is a local error.
LEMMA FailFacts ==
    ASSUME NEW s \in Sessions, SessionTypeOK, NEW blame \in BOOLEAN, FailWith(s, blame)
    PROVE  /\ phase' \in [Sessions -> Phases] /\ phase'[s] = "retry"
           /\ node_failure' \in [Sessions -> BOOLEAN]
           /\ ~ LocalErrors => server_idx[s] \in MayFail
BY DEF FailWith, GoTo, SessionTypeOK, Phases

\* The first server that gets a whole header is the only one in the history.
LEMMA SentFacts ==
    ASSUME NEW s \in Sessions, SessionTypeOK, queued[s] = {},
           NEW n \in 0 .. RequestLen, Sent(s, n)
    PROVE  /\ header_sent' \in [Sessions -> 0 .. RequestLen] /\ header_sent'[s] = n
           /\ queued' \in [Sessions -> SUBSET Servers]
           /\ queued'[s] # {} => /\ n = RequestLen /\ payload[s]
                                 /\ queued'[s] = {server_idx[s]}
BY DEF Sent, SessionTypeOK

\* As long as a session stays with its server, only the end in a failure or
\* in exhaustion says something about the servers it has tried.
LEMMA SameServer ==
    ASSUME NEW s \in Sessions, SessionOK(s), phase[s] # "new",
           UNCHANGED <<server_idx, tried_servers_mask, retry_count>>,
           phase'[s] \notin {"new", "select", "exhausted"},
           phase'[s] = "retry" /\ phase[s] # "retry" /\ ~ LocalErrors
               => server_idx[s] \in MayFail
    PROVE  TriedOK(s)' /\ BlameOK(s)'
BY DEF SessionOK, TriedOK, BlameOK

LEMMA ConnectStep ==
    ASSUME NEW s \in Sessions, TypeOK, SessionTypeOK, SessionOK(s),
           tcp_handshake_try_connect(s)
    PROVE  SessionTypeOK' /\ SessionOK(s)'
<1>1. /\ phase[s] = "connect" /\ queued[s] = {} /\ server_idx[s] \in Servers
      /\ UNCHANGED <<server_idx, tried_servers_mask, retry_count, payload>>
    BY DEF tcp_handshake_try_connect, SessionOK, PayloadOK, Unsent, SessionTypeOK
<1>2. attempt'[s] # NoAttempt /\ attempt'[s].srv = server_idx[s]
  <2>1. attempt'[s] = Snapshot(server_idx[s])
      BY DEF tcp_handshake_try_connect, TakeEpoch, Attempt, TypeOK, Sessions
  <2>2. Snapshot(server_idx[s]).srv = server_idx[s] /\ NoAttempt.srv = None
      BY DEF Snapshot, NoAttempt
  <2>3. server_idx[s] # None
      BY <1>1, NAssumption DEF Servers, None
  <2> QED
      BY <2>1, <2>2, <2>3
<1>3. CASE FailWith(s, FALSE) /\ UNCHANGED <<header_len, header_sent, queued>>
  <2>1. /\ phase' \in [Sessions -> Phases] /\ phase'[s] = "retry"
        /\ node_failure' \in [Sessions -> BOOLEAN]
        /\ ~ LocalErrors => server_idx[s] \in MayFail
      BY <1>3, FailFacts
  <2>2. SessionTypeOK'
      BY <1>1, <1>3, <2>1 DEF SessionTypeOK
  <2>3. TriedOK(s)' /\ BlameOK(s)'
      BY <1>1, <2>1, SameServer
  <2> QED
      BY <1>1, <1>3, <2>1, <2>2, <2>3 DEF SessionOK, PayloadOK, BoundOK, Bound
<1>4. ASSUME header_len' = [header_len EXCEPT ![s] = RequestLen],
             NEW n \in 0 .. RequestLen, Sent(s, n), phase' \in [Sessions -> Phases],
             node_failure' \in [Sessions -> BOOLEAN],
             \/ phase'[s] = "connecting"
             \/ phase'[s] = "retry" /\ (~ LocalErrors => server_idx[s] \in MayFail)
      PROVE  SessionTypeOK' /\ SessionOK(s)'
  <2>1. /\ header_sent' \in [Sessions -> 0 .. RequestLen] /\ header_sent'[s] = n
        /\ queued' \in [Sessions -> SUBSET Servers]
        /\ queued'[s] # {} => n = RequestLen /\ payload[s] /\ queued'[s] = {server_idx[s]}
      BY <1>1, <1>4, SentFacts
  <2>2. SessionTypeOK' /\ header_len'[s] = RequestLen
      BY <1>1, <1>4, <2>1 DEF SessionTypeOK
  <2>3. TriedOK(s)' /\ BlameOK(s)'
      BY <1>1, <1>4, SameServer
  <2>4. PayloadOK(s)' /\ BoundOK(s)'
      BY <1>1, <1>2, <1>4, <2>1, <2>2 DEF PayloadOK, BoundOK, Unsent
  <2> QED
      BY <2>2, <2>3, <2>4 DEF SessionOK
<1>5. ASSUME NEW blame \in BOOLEAN, FailWith(s, blame), Sent(s, 0),
             header_len' = [header_len EXCEPT ![s] = RequestLen]
      PROVE  SessionTypeOK' /\ SessionOK(s)'
    BY <1>4, <1>5, FailFacts, RequestAssumption
<1>6. ASSUME GoTo(s, "connecting"), UNCHANGED node_failure,
             NEW n \in 0 .. RequestLen, Sent(s, n),
             header_len' = [header_len EXCEPT ![s] = RequestLen]
      PROVE  SessionTypeOK' /\ SessionOK(s)'
  <2>1. /\ phase' \in [Sessions -> Phases] /\ phase'[s] = "connecting"
        /\ node_failure' \in [Sessions -> BOOLEAN]
      BY <1>6 DEF GoTo, SessionTypeOK, Phases
  <2> QED
      BY <1>4, <1>6, <2>1
<1> QED
    BY <1>3, <1>5, <1>6 DEF tcp_handshake_try_connect

\* The other steps between connect and relay: the evidence stays, or the session
\* is closed.
LEMMA SendStep ==
    ASSUME NEW s \in Sessions, TypeOK, SessionTypeOK, SessionOK(s),
           \/ tcp_handshake_on_server_connected(s) \/ tcp_handshake_on_server_writable(s)
           \/ tcp_handshake_on_timeout(s)
    PROVE  SessionTypeOK' /\ SessionOK(s)'
<1>1. /\ phase[s] \in {"connecting", "sending"} /\ header_len[s] = RequestLen
      /\ UNCHANGED <<server_idx, tried_servers_mask, retry_count, payload, header_len>>
      /\ attempt[s] # NoAttempt /\ attempt[s].srv = server_idx[s]
    BY DEF tcp_handshake_on_server_connected, tcp_handshake_on_server_writable,
           tcp_handshake_on_timeout, SessionOK, PayloadOK, BoundOK, Bound
<1>2. ASSUME phase' \in [Sessions -> Phases], node_failure' \in [Sessions -> BOOLEAN],
             \/ phase'[s] \in {"sending", "relay"} /\ UNCHANGED attempt
             \/ phase'[s] = "closed"
             \/ phase'[s] = "retry" /\ (~ LocalErrors => server_idx[s] \in MayFail),
             \/ UNCHANGED <<header_sent, queued>>
             \/ \E n \in header_sent[s] + 1 .. RequestLen : Sent(s, n)
      PROVE  SessionTypeOK' /\ SessionOK(s)'
  <2> DEFINE Given == queued'[s] # {} => /\ header_sent'[s] = RequestLen /\ payload[s]
                                         /\ \E i \in Servers : queued'[s] = {i}
             Handed == /\ header_sent' \in [Sessions -> 0 .. RequestLen]
                       /\ queued' \in [Sessions -> SUBSET Servers] /\ Given
  <2>1. Handed
    <3>1. CASE UNCHANGED <<header_sent, queued>>
        BY <3>1 DEF SessionTypeOK, SessionOK, PayloadOK
    <3>2. ASSUME NEW n \in header_sent[s] + 1 .. RequestLen, Sent(s, n)
          PROVE  Handed
      <4>1. header_sent[s] \in 0 .. RequestLen /\ server_idx[s] \in Servers
          BY DEF SessionTypeOK
      <4>2. n \in 0 .. RequestLen /\ header_sent[s] # RequestLen
          BY <3>2, <4>1, RequestAssumption
      <4>3. queued[s] = {}
          BY <4>2 DEF SessionOK, PayloadOK
      <4> QED
          BY <3>2, <4>1, <4>2, <4>3, SentFacts
    <3> QED
        BY <1>2, <3>1, <3>2
  <2>2. SessionTypeOK'
      BY <1>1, <1>2, <2>1 DEF SessionTypeOK
  <2>3. TriedOK(s)' /\ BlameOK(s)'
      BY <1>1, <1>2, SameServer
  <2>4. PayloadOK(s)'
      BY <1>1, <1>2, <2>1 DEF PayloadOK, Unsent
  <2>5. BoundOK(s)'
      BY <1>1, <1>2 DEF BoundOK, Bound
  <2> QED
      BY <2>2, <2>3, <2>4, <2>5 DEF SessionOK
<1>3. ASSUME NEW p \in {"sending", "relay", "closed"}, GoTo(s, p)
      PROVE  phase' \in [Sessions -> Phases] /\ phase'[s] = p
    BY <1>3 DEF GoTo, SessionTypeOK, Phases
<1>4. node_failure \in [Sessions -> BOOLEAN]
    BY DEF SessionTypeOK
<1>5. ASSUME tcp_session_enter_relay(s)
      PROVE  /\ phase' \in [Sessions -> Phases]
             /\ (phase'[s] = "relay" /\ UNCHANGED attempt) \/ phase'[s] = "closed"
    BY <1>3, <1>5 DEF tcp_session_enter_relay, tcp_session_close, selectorVars
<1>6. ASSUME NEW blame \in BOOLEAN, FailWith(s, blame), UNCHANGED <<header_sent, queued>>
      PROVE  SessionTypeOK' /\ SessionOK(s)'
    BY <1>2, <1>6, FailFacts
<1>7. ASSUME tcp_handshake_send_request_header(s) PROVE SessionTypeOK' /\ SessionOK(s)'
  <2>1. CASE GoTo(s, "sending") /\ UNCHANGED <<header_sent, queued, node_failure, selectorVars>>
      BY <1>2, <1>3, <1>4, <2>1 DEF selectorVars
  <2>2. ASSUME NEW n \in header_sent[s] + 1 .. RequestLen, Sent(s, n),
               IF n = RequestLen THEN tcp_session_enter_relay(s)
               ELSE GoTo(s, "sending") /\ UNCHANGED selectorVars,
               UNCHANGED node_failure
        PROVE  SessionTypeOK' /\ SessionOK(s)'
    <3>1. /\ phase' \in [Sessions -> Phases]
          /\ \/ phase'[s] \in {"sending", "relay"} /\ UNCHANGED attempt
             \/ phase'[s] = "closed"
        BY <1>3, <1>5, <2>2 DEF selectorVars
    <3> QED
        BY <1>2, <1>4, <2>2, <3>1
  <2> QED
      BY <1>6, <1>7, <2>1, <2>2 DEF tcp_handshake_send_request_header
<1>8. CASE tcp_handshake_on_server_connected(s)
  <2>1. CASE tcp_session_enter_relay(s) /\ UNCHANGED <<header_sent, queued, node_failure>>
      BY <1>2, <1>4, <1>5, <2>1
  <2> QED
      BY <1>6, <1>7, <1>8, <2>1 DEF tcp_handshake_on_server_connected
<1> QED
    BY <1>6, <1>7, <1>8 DEF tcp_handshake_on_server_writable, tcp_handshake_on_timeout

-----------------------------------------------------------------------------
(* The retry and the relay.                                                *)

\* The session goes on to another server only if none was given its payload, and
\* gives up only when it has tried them all.
LEMMA RetryStep ==
    ASSUME NEW s \in Sessions, TypeOK, SessionTypeOK, SessionOK(s), RetryNext(s)
    PROVE  SessionTypeOK' /\ SessionOK(s)'
<1> DEFINE next == server_selector_next_best_tcp(tried_servers_mask[s])
<1>1. /\ phase[s] = "retry" /\ tried_servers_mask[s] \in SUBSET Servers
      /\ UNCHANGED <<payload, header_len, header_sent, node_failure, queued>>
    BY DEF RetryNext, SessionTypeOK
<1>2. /\ next = None <=> tried_servers_mask[s] = Servers
      /\ next # None => next \in Servers \ tried_servers_mask[s]
    BY <1>1, NextBest
<1>3. ~ MayHaveBeenForwarded(s) => queued[s] = {}
    BY RequestAssumption DEF MayHaveBeenForwarded, SessionOK, PayloadOK
<1>4. ASSUME NEW p \in {"closed", "exhausted"}, tcp_session_close(s, p),
             UNCHANGED <<server_idx, tried_servers_mask, retry_count>>,
             p = "exhausted" => tried_servers_mask[s] = Servers
      PROVE  SessionTypeOK' /\ SessionOK(s)'
  <2>1. phase' \in [Sessions -> Phases] /\ phase'[s] = p
      BY <1>4 DEF tcp_session_close, GoTo, SessionTypeOK, Phases
  <2>2. SessionTypeOK'
      BY <1>1, <1>4, <2>1 DEF SessionTypeOK
  <2>3. TriedOK(s)' /\ BlameOK(s)'
      BY <1>1, <1>4, <2>1 DEF SessionOK, TriedOK, BlameOK
  <2>4. PayloadOK(s)' /\ BoundOK(s)'
      BY <1>1, <2>1 DEF SessionOK, PayloadOK, BoundOK, Unsent, Bound
  <2> QED
      BY <2>2, <2>3, <2>4 DEF SessionOK
<1>5. ASSUME ~ MayHaveBeenForwarded(s), next # None, Choose(s, next),
             retry_count' = [retry_count EXCEPT ![s] = @ + 1],
             GoTo(s, "connect") \/ (LocalErrors /\ GoTo(s, "retry"))
      PROVE  SessionTypeOK' /\ SessionOK(s)'
  <2>1. /\ server_idx' \in [Sessions -> Servers] /\ server_idx'[s] = next
        /\ tried_servers_mask' \in [Sessions -> SUBSET Servers]
        /\ tried_servers_mask'[s] = tried_servers_mask[s] \cup {next}
        /\ Cardinality(tried_servers_mask'[s]) = Cardinality(tried_servers_mask[s]) + 1
        /\ Cardinality(tried_servers_mask'[s]) \in 0 .. N
      BY <1>2, <1>5, ChooseFacts
  <2>2. Cardinality(tried_servers_mask[s]) \in Nat
      BY <1>1, ServerSets
  <2>3. retry_count[s] \in 0 .. N - 1 /\ retry_count[s] < Cardinality(tried_servers_mask[s])
      BY <1>1 DEF SessionOK, TriedOK, SessionTypeOK
  <2>4. /\ retry_count' \in [Sessions -> 0 .. N - 1]
        /\ retry_count'[s] < Cardinality(tried_servers_mask'[s])
    <3>1. retry_count[s] + 1 \in 0 .. N - 1
        BY <2>1, <2>2, <2>3, NAssumption
    <3>2. retry_count'[s] = retry_count[s] + 1 /\ retry_count' \in [Sessions -> 0 .. N - 1]
        BY <1>5, <3>1 DEF SessionTypeOK
    <3> QED
        BY <2>1, <2>2, <2>3, <3>2
  <2>5. /\ phase' \in [Sessions -> Phases] /\ phase'[s] \in {"connect", "retry"}
        /\ phase'[s] = "retry" => LocalErrors
      BY <1>5 DEF GoTo, SessionTypeOK, Phases
  <2>6. SessionTypeOK'
      BY <1>1, <2>1, <2>4, <2>5 DEF SessionTypeOK
  <2>7. TriedOK(s)' /\ BlameOK(s)'
      BY <1>1, <2>1, <2>4, <2>5 DEF SessionOK, TriedOK, BlameOK
  <2>8. PayloadOK(s)' /\ BoundOK(s)'
      BY <1>1, <1>3, <1>5, <2>5 DEF PayloadOK, BoundOK, Bound
  <2> QED
      BY <2>6, <2>7, <2>8 DEF SessionOK
<1> QED
    BY <1>2, <1>4, <1>5 DEF RetryNext

\* A report and the end of a session change no server and no payload.
LEMMA ReportStep ==
    ASSUME NEW s \in Sessions, SessionTypeOK, SessionOK(s),
           RetryReport(s) \/ ResponseHeader(s) \/ SessionEnd(s)
    PROVE  SessionTypeOK' /\ SessionOK(s)'
<1>1. CASE RetryReport(s)
  <2>1. /\ phase[s] = "retry" /\ node_failure' = [node_failure EXCEPT ![s] = FALSE]
        /\ UNCHANGED <<phase, server_idx, tried_servers_mask, retry_count, payload,
                       header_len, header_sent, queued>>
      BY <1>1 DEF RetryReport
  <2>2. SessionTypeOK'
      BY <2>1 DEF SessionTypeOK
  <2>3. TriedOK(s)' /\ BlameOK(s)' /\ PayloadOK(s)' /\ BoundOK(s)'
      BY <2>1 DEF SessionOK, TriedOK, BlameOK, PayloadOK, BoundOK, Bound
  <2> QED
      BY <2>2, <2>3 DEF SessionOK
<1>2. CASE ResponseHeader(s) \/ SessionEnd(s)
  <2>1. /\ phase[s] \in {"wait", "connecting", "sending", "relay", "answered"}
        /\ UNCHANGED <<server_idx, tried_servers_mask, retry_count, payload,
                       header_len, header_sent, node_failure, queued>>
        /\ (GoTo(s, "answered") /\ phase[s] = "relay") \/ GoTo(s, "closed")
      BY <1>2 DEF ResponseHeader, SessionEnd, tcp_session_close, relayVars
  <2>2. /\ phase' \in [Sessions -> Phases] /\ phase'[s] \in {"answered", "closed"}
      BY <2>1 DEF GoTo, SessionTypeOK, Phases
  <2>3. SessionTypeOK'
      BY <2>1, <2>2 DEF SessionTypeOK
  <2>4. TriedOK(s)' /\ BlameOK(s)'
      BY <2>1, <2>2, SameServer
  <2>5. PayloadOK(s)' /\ BoundOK(s)'
      BY <2>1, <2>2 DEF SessionOK, PayloadOK, BoundOK, Unsent, Bound
  <2> QED
      BY <2>3, <2>4, <2>5 DEF SessionOK
<1> QED
    BY <1>1, <1>2

-----------------------------------------------------------------------------
(* The theorems.                                                           *)

LEMMA HandshakeInvariant == HandshakeSpec => []HandshakeInv
<1>1. HandshakeInit => HandshakeInv
  <2> SUFFICES ASSUME HandshakeInit PROVE HandshakeInv
      OBVIOUS
  <2>1. RoundInv
      BY InitRound DEF HandshakeInit
  <2>2. SessionTypeOK
      BY NAssumption, RequestAssumption DEF HandshakeInit, SessionTypeOK, Phases, Servers
  <2>3. \A s \in Sessions : SessionOK(s)
      BY DEF HandshakeInit, SessionOK, TriedOK, PayloadOK, BoundOK, BlameOK, Bound
  <2> QED
      BY <2>1, <2>2, <2>3 DEF HandshakeInv
<1>2. HandshakeInv /\ [HandshakeNext]_vars => HandshakeInv'
  <2> SUFFICES ASSUME HandshakeInv, [HandshakeNext]_vars PROVE HandshakeInv'
      OBVIOUS
  <2>0. TypeOK /\ RoundInv /\ SessionTypeOK /\ \A s \in Sessions : SessionOK(s)
      BY DEF HandshakeInv, RoundInv
  <2>1. RoundInv'
      BY <2>0, StepImplements, TypeStep, RoundStep DEF RoundInv
  <2>2. ASSUME NEW t \in Sessions,
               /\ phase'[t] = phase[t] /\ server_idx'[t] = server_idx[t]
               /\ tried_servers_mask'[t] = tried_servers_mask[t]
               /\ retry_count'[t] = retry_count[t] /\ payload'[t] = payload[t]
               /\ header_len'[t] = header_len[t] /\ header_sent'[t] = header_sent[t]
               /\ queued'[t] = queued[t],
               /\ attempt'[t] = NoAttempt <=> attempt[t] = NoAttempt
               /\ attempt'[t].srv = attempt[t].srv
        PROVE  SessionOK(t)'
    <3>1. TriedOK(t)' /\ PayloadOK(t)'
        BY <2>0, <2>2 DEF SessionOK, TriedOK, PayloadOK
    <3>2. BoundOK(t)' /\ BlameOK(t)'
        BY <2>0, <2>2 DEF SessionOK, BoundOK, BlameOK
    <3> QED
        BY <3>1, <3>2 DEF SessionOK
  <2>3. CASE (MainStep /\ UNCHANGED sessionVars) \/ UNCHANGED vars
    <3>1. /\ MainStep \/ UNCHANGED selectorVars
          /\ UNCHANGED <<phase, server_idx, tried_servers_mask, retry_count, payload,
                         header_len, header_sent, node_failure, queued>>
        BY <2>3 DEF vars, sessionVars
    <3>2. SessionTypeOK'
        BY <2>0, <3>1 DEF SessionTypeOK
    <3>3. ASSUME NEW t \in Sessions PROVE SessionOK(t)'
      <4>1. /\ attempt'[t] = NoAttempt <=> attempt[t] = NoAttempt
            /\ attempt'[t].srv = attempt[t].srv
          BY <2>0, <3>1, OthersEvidence DEF Sessions
      <4> QED
          BY <2>2, <3>1, <4>1
    <3> QED
        BY <2>1, <3>2, <3>3 DEF HandshakeInv
  <2>4. ASSUME NEW s \in Sessions, SessionStep(s) PROVE HandshakeInv'
    <3>1. SessionTypeOK' /\ SessionOK(s)'
        BY <2>0, <2>4, CreateStep, PayloadStep, ConnectStep, SendStep, RetryStep, ReportStep
        DEF SessionStep
    <3>2. ASSUME NEW t \in Sessions, t # s PROVE SessionOK(t)'
      <4>1. server_idx[s] \in Servers
          BY <2>0 DEF SessionTypeOK
      <4>2. ClientStep(s) \/ UNCHANGED selectorVars
          BY <2>4, <4>1, SessionIsClient
      <4>3. /\ attempt'[t] = NoAttempt <=> attempt[t] = NoAttempt
            /\ attempt'[t].srv = attempt[t].srv
          BY <2>0, <3>2, <4>2, OthersEvidence DEF Sessions
      <4> QED
          BY <2>0, <2>2, <2>4, <3>2, <4>3, OthersUntouched
    <3> QED
        BY <2>1, <3>1, <3>2 DEF HandshakeInv
  <2> QED
      BY <2>3, <2>4 DEF HandshakeNext
<1> QED
    BY <1>1, <1>2, PTL DEF HandshakeSpec

\* The sessions of tcp_proxy.c and the probes together implement the specification
\* of the selector: every epoch is taken and reported as it allows a client to.
THEOREM SessionsImplementSelector == HandshakeSpec => ImplementsSelector
<1>1. HandshakeInit => SelectorInit
    BY DEF HandshakeInit
<1>2. HandshakeInv /\ [HandshakeNext]_vars => [SelectorNext]_selectorVars
    BY StepImplements DEF HandshakeInv
<1> QED
    BY <1>1, <1>2, HandshakeInvariant, PTL DEF HandshakeSpec, SelectorSpec, ImplementsSelector

\* So what is proved of the selector alone holds with the real sessions as its
\* clients.
COROLLARY SelectorWithSessions ==
    HandshakeSpec => []BestRankMinimal /\ FailedBestMoves /\ NoStaleRecovery
BY SessionsImplementSelector, BestIsRankMinimal, FailedBestAlwaysMoves,
   StaleAnswersNeverRecover, PTL DEF ImplementsSelector

\* Each session is well typed, presents the epoch of the server it is connected to
\* and gives up only when it has tried every server.
THEOREM AttemptsSound == HandshakeSpec => []AttemptsAreSound
<1>1. HandshakeInv => AttemptsAreSound
    BY DEF HandshakeInv, RoundInv, SessionTypeOK, SessionOK, TriedOK, BoundOK,
           AttemptsAreSound, HandshakeTypeOK, EpochOfThisServer, ExhaustedMeansAll
<1> QED
    BY <1>1, HandshakeInvariant, PTL

\* No initial payload is given in whole to two servers, whatever is sent in part,
\* times out or fails over.
THEOREM PayloadNeverReplayed == HandshakeSpec => []NoReplay
<1>1. HandshakeInv => NoReplay
  <2> SUFFICES ASSUME HandshakeInv, NEW s \in Sessions PROVE Cardinality(queued[s]) <= 1
      BY DEF NoReplay
  <2>1. queued[s] = {} \/ \E i \in Servers : queued[s] = {i}
      BY DEF HandshakeInv, SessionOK, PayloadOK
  <2>2. Cardinality({}) = 0 /\ \A i : Cardinality({i}) = 1
      BY FS_EmptySet, FS_Singleton
  <2> QED
      BY <2>1, <2>2
<1> QED
    BY <1>1, HandshakeInvariant, PTL

\* A server that never fails is found by every session, unless something fails
\* locally.
THEOREM ReliableServerIsFound == HandshakeSpec => []ReliableServerFound
<1>1. HandshakeInv => ReliableServerFound
    BY EnvAssumption DEF HandshakeInv, SessionOK, TriedOK, BlameOK, ReliableServerFound
<1> QED
    BY <1>1, HandshakeInvariant, PTL
-----------------------------------------------------------------------------
(* What HandshakeEnds needs of the steps, whatever the fairness.           *)

Ended == {"relay", "answered", "exhausted", "closed"}

\* How far a session is from the end of its attempt at one server.
Rank(p, blamed) ==
    CASE p = "new"        -> 9
      [] p = "select"     -> 8
      [] p = "read"       -> 7
      [] p = "wait"       -> 6
      [] p = "connect"    -> 5
      [] p = "connecting" -> 4
      [] p = "sending"    -> 3
      [] p = "retry"      -> IF blamed THEN 2 ELSE 1
      [] OTHER            -> 0

\* A step leaves the session where it is, ends its handshake for good, goes on to a
\* server it has not tried, or brings it nearer to the end of the attempt.
MovesOn(s) == phase[s] \notin Ended /\ tried_servers_mask[s] # tried_servers_mask'[s]
              /\ tried_servers_mask[s] \subseteq tried_servers_mask'[s]
Advances(s) ==
    \/ /\ phase'[s] = phase[s] /\ node_failure'[s] = node_failure[s]
       /\ tried_servers_mask'[s] = tried_servers_mask[s]
    \/ phase'[s] \in Ended
    \/ MovesOn(s)
    \/ /\ tried_servers_mask'[s] = tried_servers_mask[s]
       /\ Rank(phase'[s], node_failure'[s]) < Rank(phase[s], node_failure[s])

\* The session that steps advances.
LEMMA StepAdvances ==
    ASSUME NEW s \in Sessions, TypeOK, SessionTypeOK, SessionOK(s), SessionStep(s)
    PROVE  Advances(s)
<1>1. /\ phase \in [Sessions -> Phases] /\ node_failure \in [Sessions -> BOOLEAN]
      /\ tried_servers_mask \in [Sessions -> SUBSET Servers]
      /\ tried_servers_mask[s] \in SUBSET Servers
    BY DEF SessionTypeOK
<1>to. ASSUME NEW p, GoTo(s, p) PROVE phase'[s] = p
    BY <1>1, <1>to DEF GoTo
<1>end. ASSUME NEW p \in Ended, GoTo(s, p) PROVE Advances(s)
    BY <1>to, <1>end DEF Advances
<1>close. ASSUME NEW p \in Ended, tcp_session_close(s, p) PROVE Advances(s)
    BY <1>end, <1>close DEF tcp_session_close
<1>choose. ASSUME NEW i \in Servers, i \notin tried_servers_mask[s], Choose(s, i),
                  phase[s] \notin Ended
           PROVE  Advances(s)
  <2>1. tried_servers_mask'[s] = tried_servers_mask[s] \cup {i}
      BY <1>1, <1>choose DEF Choose
  <2> QED
      BY <1>choose, <2>1 DEF Advances, MovesOn
<1>fail. ASSUME NEW b \in BOOLEAN, FailWith(s, b), UNCHANGED tried_servers_mask,
                phase[s] \in {"connect", "connecting", "sending"}
         PROVE  Advances(s)
  <2>1. phase'[s] = "retry" /\ node_failure'[s] = b
      BY <1>1, <1>to, <1>fail DEF FailWith
  <2>2. Rank("retry", b) < Rank(phase[s], node_failure[s])
      BY <1>fail DEF Rank
  <2> QED
      BY <1>fail, <2>1, <2>2 DEF Advances
<1>relay. ASSUME tcp_session_enter_relay(s) PROVE Advances(s)
    BY <1>end, <1>close, <1>relay DEF tcp_session_enter_relay, Ended
<1>send. ASSUME tcp_handshake_send_request_header(s), UNCHANGED tried_servers_mask,
                phase[s] \in {"connecting", "sending"}
         PROVE  Advances(s)
  <2>1. ASSUME GoTo(s, "sending"), UNCHANGED node_failure PROVE Advances(s)
    <3>1. phase'[s] = "sending" /\ node_failure'[s] = node_failure[s]
        BY <1>to, <2>1
    <3>2. phase[s] = "connecting" =>
             Rank("sending", node_failure[s]) < Rank("connecting", node_failure[s])
        BY DEF Rank
    <3> QED
        BY <1>send, <3>1, <3>2 DEF Advances
  <2> QED
      BY <1>fail, <1>relay, <1>send, <2>1 DEF tcp_handshake_send_request_header
<1>2. CASE tcp_session_create(s)
  <2> DEFINE next == IF phase[s] = "new" THEN best_idx
                     ELSE server_selector_next_best_tcp(tried_servers_mask[s])
  <2>1. phase[s] \in {"new", "select"} /\ phase[s] \notin Ended
      BY <1>2 DEF tcp_session_create, Ended
  <2>2. best_idx \in Servers
      BY DEF TypeOK
  <2>3. next # None => next \in Servers /\ next \notin tried_servers_mask[s]
      BY <1>1, <2>1, <2>2, NextBest DEF SessionOK, TriedOK
  <2>4. CASE next = None
      BY <1>2, <1>end, <2>4 DEF tcp_session_create, Ended
  <2>5. CASE next # None
      BY <1>2, <1>choose, <2>1, <2>3, <2>5 DEF tcp_session_create
  <2> QED
      BY <2>4, <2>5
<1>3. CASE ReadInitialPayload(s) \/ InitialPayloadTimeout(s)
  <2>1. /\ phase[s] \in {"read", "wait"} /\ UNCHANGED <<tried_servers_mask, node_failure>>
        /\ \E p \in {"connect", "closed", "wait"} : GoTo(s, p)
      BY <1>3 DEF ReadInitialPayload, InitialPayloadTimeout
  <2>2. phase'[s] \in {"connect", "closed", "wait"}
      BY <1>to, <2>1
  <2>3. ASSUME NEW b
        PROVE  /\ Rank("connect", b) < Rank("read", b) /\ Rank("connect", b) < Rank("wait", b)
               /\ Rank("wait", b) < Rank("read", b)
      BY DEF Rank
  <2> QED
      BY <2>1, <2>2, <2>3 DEF Advances, Ended
<1>4. CASE tcp_handshake_try_connect(s)
  <2>1. phase[s] = "connect" /\ UNCHANGED tried_servers_mask
      BY <1>4 DEF tcp_handshake_try_connect
  <2>2. ASSUME GoTo(s, "connecting"), UNCHANGED node_failure PROVE Advances(s)
    <3>1. Rank("connecting", node_failure[s]) < Rank("connect", node_failure[s])
        BY DEF Rank
    <3> QED
        BY <1>to, <2>1, <2>2, <3>1 DEF Advances
  <2> QED
      BY <1>4, <1>fail, <2>1, <2>2 DEF tcp_handshake_try_connect
<1>5. CASE tcp_handshake_on_server_connected(s)
    BY <1>5, <1>fail, <1>relay, <1>send DEF tcp_handshake_on_server_connected
<1>6. CASE tcp_handshake_on_server_writable(s)
    BY <1>6, <1>send DEF tcp_handshake_on_server_writable
<1>7. CASE tcp_handshake_on_timeout(s)
    BY <1>7, <1>fail DEF tcp_handshake_on_timeout
<1>8. CASE RetryReport(s)
  <2>1. /\ phase[s] = "retry" /\ node_failure[s] = TRUE /\ UNCHANGED <<phase, tried_servers_mask>>
        /\ node_failure'[s] = FALSE
      BY <1>1, <1>8 DEF RetryReport
  <2>2. Rank("retry", FALSE) < Rank("retry", TRUE)
      BY DEF Rank
  <2> QED
      BY <2>1, <2>2 DEF Advances
<1>9. CASE RetryNext(s)
  <2> DEFINE next == server_selector_next_best_tcp(tried_servers_mask[s])
  <2>1. phase[s] \notin Ended
      BY <1>9 DEF RetryNext, Ended
  <2>2. next # None => next \in Servers /\ next \notin tried_servers_mask[s]
      BY <1>1, NextBest
  <2>3. \/ tcp_session_close(s, "closed") \/ tcp_session_close(s, "exhausted")
        \/ next # None /\ Choose(s, next)
      BY <1>9 DEF RetryNext
  <2> QED
      BY <1>choose, <1>close, <2>1, <2>2, <2>3 DEF Ended
<1>10. CASE ResponseHeader(s)
    BY <1>10, <1>end DEF ResponseHeader, Ended
<1>11. CASE SessionEnd(s)
    BY <1>11, <1>close DEF SessionEnd, Ended
<1> QED
    BY <1>2, <1>3, <1>4, <1>5, <1>6, <1>7, <1>8, <1>9, <1>10, <1>11 DEF SessionStep

\* A session never goes round in circles: each step of the handshake, failovers and
\* failed crypto set-ups included, either waits under a timer, ends the handshake for
\* good, tries a server for the first time or comes nearer to the end of an attempt.
\* With finitely many servers, only a callback that is never called could keep a
\* session in its handshake.
THEOREM HandshakeAdvances == HandshakeSpec => [][\A s \in Sessions : Advances(s)]_vars
<1>1. HandshakeInv /\ [HandshakeNext]_vars => [\A s \in Sessions : Advances(s)]_vars
  <2> SUFFICES ASSUME HandshakeInv, [HandshakeNext]_vars, NEW t \in Sessions
               PROVE  UNCHANGED vars \/ Advances(t)
      OBVIOUS
  <2>0. TypeOK /\ SessionTypeOK /\ \A s \in Sessions : SessionOK(s)
      BY DEF HandshakeInv, RoundInv
  <2>1. CASE MainStep /\ UNCHANGED sessionVars
      BY <2>1 DEF sessionVars, Advances
  <2>2. ASSUME NEW s \in Sessions, SessionStep(s) PROVE Advances(t)
    <3>1. CASE t = s
        BY <2>0, <2>2, <3>1, StepAdvances
    <3>2. CASE t # s
        BY <2>0, <2>2, <3>2, OthersUntouched DEF Advances
    <3> QED
        BY <3>1, <3>2
  <2> QED
      BY <2>1, <2>2 DEF HandshakeNext
<1> QED
    BY <1>1, HandshakeInvariant, PTL DEF HandshakeSpec
=============================================================================
