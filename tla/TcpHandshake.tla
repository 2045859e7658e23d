---------------------------- MODULE TcpHandshake ----------------------------
(***************************************************************************)
(* The life of a TCP session in tcp_proxy.c from accept to the first       *)
(* authenticated response, composed with the TCP selector: the sessions    *)
(* are the selector's clients.  A callback of a session is cut into        *)
(* actions where it takes the selector's lock, so that probes and other    *)
(* workers' sessions come in between.  A connect() or send() that succeeds *)
(* at once is the event of the same name right after it.  What happens to  *)
(* the bytes once the session relays is not in this module.                *)
(***************************************************************************)
EXTENDS ServerSelector, Sequences

CONSTANTS
    RequestLen,  \* request_header_len of a header that was built
    TFO          \* OPT_ENABLE_TFO_CONNECT

ASSUME RequestAssumption == RequestLen \in Nat \ {0} /\ TFO \in BOOLEAN

VARIABLES
    phase,          \* where the session is, see Phases
    server_idx, tried_servers_mask, retry_count,
    payload,        \* initial_payload_len > 0
    header_len, header_sent,  \* request_header_len, request_header_sent
    node_failure,   \* the failure under retry is to be reported
    queued          \* history: servers that were given the whole payload

sessionVars == <<phase, server_idx, tried_servers_mask, retry_count, payload,
                 header_len, header_sent, node_failure, queued>>
vars == <<selectorVars, sessionVars>>

Sessions == Clients
\* new, select: tcp_session_create.  read, wait: the initial payload.  connect:
\* tcp_handshake_try_connect is next.  connecting, sending: a server socket and
\* the 5 s timer are armed.  retry: in tcp_handshake_retry.  relay: header sent,
\* answered: response authenticated.  exhausted, closed: the session is freed.
Phases == {"new", "select", "read", "wait", "connect", "connecting", "sending",
           "retry", "relay", "answered", "exhausted", "closed"}

HandshakeTypeOK ==
    /\ TypeOK
    /\ phase \in [Sessions -> Phases]
    /\ server_idx \in [Sessions -> Servers]
    /\ tried_servers_mask \in [Sessions -> SUBSET Servers]
    /\ retry_count \in [Sessions -> 0 .. N - 1]
    /\ payload \in [Sessions -> BOOLEAN]
    /\ header_len \in [Sessions -> {0, RequestLen}]
    /\ header_sent \in [Sessions -> 0 .. RequestLen]
    /\ node_failure \in [Sessions -> BOOLEAN]
    /\ queued \in [Sessions -> SUBSET Servers]

HandshakeInit ==
    /\ SelectorInit
    /\ phase = [s \in Sessions |-> "new"]
    /\ server_idx = [s \in Sessions |-> 0]
    /\ tried_servers_mask = [s \in Sessions |-> {}]
    /\ retry_count = [s \in Sessions |-> 0]
    /\ payload = [s \in Sessions |-> FALSE]
    /\ header_len = [s \in Sessions |-> 0]
    /\ header_sent = [s \in Sessions |-> 0]
    /\ node_failure = [s \in Sessions |-> FALSE]
    /\ queued = [s \in Sessions |-> {}]

GoTo(s, p) == phase' = [phase EXCEPT ![s] = p]

\* tcp_session_close, for the reason p: the attempt is never reported.
tcp_session_close(s, p) ==
    /\ GoTo(s, p)
    /\ IF attempt[s] = NoAttempt THEN UNCHANGED selectorVars ELSE Abandon(s)

-----------------------------------------------------------------------------
(* Accept.                                                                 *)

server_selector_next_best_tcp(tried) == ss_candidate_locked(health, score, best_idx, tried)

\* Mutant: the bit of the chosen server's neighbour is set as well.
Choose_MarksNext(s, i) ==
    /\ server_idx' = [server_idx EXCEPT ![s] = i]
    /\ tried_servers_mask' = [tried_servers_mask EXCEPT ![s] = @ \cup {i, (i + 1) % N}]

Choose(s, i) ==
    /\ server_idx' = [server_idx EXCEPT ![s] = i]
    /\ tried_servers_mask' = [tried_servers_mask EXCEPT ![s] = @ \cup {i}]

\* tcp_session_create: the published best first, then untried candidates while
\* the crypto context of the chosen server cannot be set up.
tcp_session_create(s) ==
    /\ phase[s] \in {"new", "select"}
    /\ LET next == IF phase[s] = "new" THEN best_idx
                   ELSE server_selector_next_best_tcp(tried_servers_mask[s])
       IN  IF next = None
           THEN GoTo(s, "exhausted") /\ UNCHANGED <<server_idx, tried_servers_mask>>
           ELSE /\ Choose(s, next)
                /\ GoTo(s, "read") \/ (LocalErrors /\ GoTo(s, "select"))
    /\ UNCHANGED <<retry_count, payload, header_len, header_sent, node_failure, queued>>
    /\ UNCHANGED selectorVars

\* tcp_handshake_wait_initial_payload and the read callback: the client's bytes
\* are there, it has closed without any, recv failed, or there is nothing yet.
ReadInitialPayload(s) ==
    /\ phase[s] \in {"read", "wait"}
    /\ \/ GoTo(s, "connect") /\ payload' = [payload EXCEPT ![s] = TRUE]
       \/ GoTo(s, "closed") /\ UNCHANGED payload
       \/ GoTo(s, "wait") /\ UNCHANGED payload
    /\ UNCHANGED <<server_idx, tried_servers_mask, retry_count, header_len, header_sent,
                   node_failure, queued>>
    /\ UNCHANGED selectorVars

\* tcp_handshake_on_initial_payload_timeout: it reads once more, then connects
\* with or without a payload.
InitialPayloadTimeout(s) ==
    /\ phase[s] = "wait"
    /\ \/ \E p \in BOOLEAN : GoTo(s, "connect") /\ payload' = [payload EXCEPT ![s] = p]
       \/ GoTo(s, "closed") /\ UNCHANGED payload
    /\ UNCHANGED <<server_idx, tried_servers_mask, retry_count, header_len, header_sent,
                   node_failure, queued>>
    /\ UNCHANGED selectorVars

-----------------------------------------------------------------------------
(* One attempt at a server.                                                *)

\* tcp_handshake_retry is entered; the failure is the server's fault or local.
FailWith(s, blame) ==
    /\ IF blame THEN server_idx[s] \in MayFail ELSE LocalErrors
    /\ GoTo(s, "retry")
    /\ node_failure' = [node_failure EXCEPT ![s] = blame]

\* The header counts as handed over to the server when n of its bytes are.
Sent(s, n) ==
    /\ header_sent' = [header_sent EXCEPT ![s] = n]
    /\ queued' = IF n = RequestLen /\ payload[s]
                 THEN [queued EXCEPT ![s] = @ \cup {server_idx[s]}] ELSE queued

\* Mutants: the epoch is read for the first attempt only; it is never read.
TakeEpoch_Once(s) ==
    IF attempt[s] = NoAttempt THEN Attempt(s, server_idx[s]) ELSE UNCHANGED selectorVars
TakeEpoch_Zero(s) ==
    /\ attempt' = [attempt EXCEPT ![s] = [srv |-> server_idx[s], epoch |-> 0, fresh |-> TRUE]]
    /\ UNCHANGED <<health, failure_epoch, score, best_idx, probe, wrapped, loopVars>>

\* selector_attempt_epoch = server_selector_tcp_attempt(server_idx)
TakeEpoch(s) == Attempt(s, server_idx[s])

\* tcp_handshake_try_connect: the epoch is read, the header built (or not, and
\* then the lengths of the attempt before stay), a socket created, and connect
\* or sendto(MSG_FASTOPEN) called, which may already take part of the header.
tcp_handshake_try_connect(s) ==
    /\ phase[s] = "connect"
    /\ TakeEpoch(s)
    /\ \/ FailWith(s, FALSE) /\ UNCHANGED <<header_len, header_sent, queued>>
       \/ /\ header_len' = [header_len EXCEPT ![s] = RequestLen]
          /\ \/ \E blame \in BOOLEAN : FailWith(s, blame) /\ Sent(s, 0)
             \/ /\ GoTo(s, "connecting") /\ UNCHANGED node_failure
                /\ \E n \in 0 .. RequestLen : (n = 0 \/ TFO) /\ Sent(s, n)
    /\ UNCHANGED <<server_idx, tried_servers_mask, retry_count, payload>>

\* tcp_session_enter_relay: the relay buffer may not be available.
tcp_session_enter_relay(s) ==
    \/ GoTo(s, "relay") /\ UNCHANGED selectorVars
    \/ LocalErrors /\ tcp_session_close(s, "closed")

\* tcp_handshake_send_request_header, and entering the relay when all is sent.
tcp_handshake_send_request_header(s) ==
    \/ GoTo(s, "sending") /\ UNCHANGED <<header_sent, queued, node_failure, selectorVars>>
    \/ \E n \in header_sent[s] + 1 .. RequestLen :
          /\ Sent(s, n)
          /\ IF n = RequestLen THEN tcp_session_enter_relay(s)
             ELSE GoTo(s, "sending") /\ UNCHANGED selectorVars
          /\ UNCHANGED node_failure
    \/ /\ \E blame \in BOOLEAN : FailWith(s, blame)
       /\ UNCHANGED <<header_sent, queued, selectorVars>>

tcp_handshake_on_server_connected(s) ==
    /\ phase[s] = "connecting"
    /\ \/ /\ \E blame \in BOOLEAN : FailWith(s, blame)
          /\ UNCHANGED <<header_sent, queued, selectorVars>>
       \/ /\ header_sent[s] = header_len[s]
          /\ tcp_session_enter_relay(s)
          /\ UNCHANGED <<header_sent, queued, node_failure>>
       \/ /\ header_sent[s] < header_len[s]
          /\ tcp_handshake_send_request_header(s)
    /\ UNCHANGED <<server_idx, tried_servers_mask, retry_count, payload, header_len>>

tcp_handshake_on_server_writable(s) ==
    /\ phase[s] = "sending"
    /\ tcp_handshake_send_request_header(s)
    /\ UNCHANGED <<server_idx, tried_servers_mask, retry_count, payload, header_len>>

\* Mutant: the timer is stopped when the server is connected.
tcp_handshake_on_timeout_ConnectOnly(s) ==
    /\ phase[s] = "connecting"
    /\ FailWith(s, TRUE)
    /\ UNCHANGED <<server_idx, tried_servers_mask, retry_count, payload, header_len,
                   header_sent, queued, selectorVars>>

\* The timer runs over the connect and the sending of the header.
tcp_handshake_on_timeout(s) ==
    /\ phase[s] \in {"connecting", "sending"}
    /\ FailWith(s, TRUE)
    /\ UNCHANGED <<server_idx, tried_servers_mask, retry_count, payload, header_len,
                   header_sent, queued, selectorVars>>

-----------------------------------------------------------------------------
(* tcp_handshake_retry.                                                    *)

RetryReport(s) ==
    /\ phase[s] = "retry" /\ node_failure[s]
    /\ ReportFailure(s)
    /\ node_failure' = [node_failure EXCEPT ![s] = FALSE]
    /\ UNCHANGED <<phase, server_idx, tried_servers_mask, retry_count, payload,
                   header_len, header_sent, queued>>

\* Mutant: only what was sent beyond the header counts.
MayHaveBeenForwarded_OffByOne(s) ==
    payload[s] /\ header_len[s] > 0 /\ header_sent[s] > header_len[s]

\* The whole header, and the payload with it, may be at the server already.
MayHaveBeenForwarded(s) ==
    payload[s] /\ header_len[s] > 0 /\ header_sent[s] >= header_len[s]

\* Close rather than replay; close if the client has gone; else take the best
\* untried server, or give up.  Its crypto set-up may fail: around the loop.
RetryNext(s) ==
    LET next == server_selector_next_best_tcp(tried_servers_mask[s])
    IN  /\ phase[s] = "retry" /\ ~ node_failure[s]
        /\ \/ /\ tcp_session_close(s, "closed")
              /\ UNCHANGED <<server_idx, tried_servers_mask, retry_count>>
           \/ /\ ~ MayHaveBeenForwarded(s) /\ next = None
              /\ tcp_session_close(s, "exhausted")
              /\ UNCHANGED <<server_idx, tried_servers_mask, retry_count>>
           \/ /\ ~ MayHaveBeenForwarded(s) /\ next # None
              /\ Choose(s, next)
              /\ retry_count' = [retry_count EXCEPT ![s] = @ + 1]
              /\ GoTo(s, "connect") \/ (LocalErrors /\ GoTo(s, "retry"))
              /\ UNCHANGED selectorVars
        /\ UNCHANGED <<payload, header_len, header_sent, node_failure, queued>>

-----------------------------------------------------------------------------
(* The relay, as far as the selector is concerned.                         *)

relayVars == <<server_idx, tried_servers_mask, retry_count, payload, header_len,
               header_sent, node_failure, queued>>

\* The response header is authenticated: the server is credited, once.
ResponseHeader(s) ==
    /\ phase[s] = "relay"
    /\ ReportSuccess(s)
    /\ GoTo(s, "answered")
    /\ UNCHANGED relayVars

\* The relay ends, the response is refused, or the worker closes all sessions.
SessionEnd(s) ==
    /\ phase[s] \in {"wait", "connecting", "sending", "relay", "answered"}
    /\ tcp_session_close(s, "closed")
    /\ UNCHANGED relayVars

-----------------------------------------------------------------------------
SessionStep(s) ==
    \/ tcp_session_create(s) \/ ReadInitialPayload(s) \/ InitialPayloadTimeout(s)
    \/ tcp_handshake_try_connect(s) \/ tcp_handshake_on_server_connected(s)
    \/ tcp_handshake_on_server_writable(s) \/ tcp_handshake_on_timeout(s)
    \/ RetryReport(s) \/ RetryNext(s) \/ ResponseHeader(s) \/ SessionEnd(s)

HandshakeNext ==
    \/ MainStep /\ UNCHANGED sessionVars
    \/ \E s \in Sessions : SessionStep(s)

HandshakeSpec == HandshakeInit /\ [][HandshakeNext]_vars

\* A callback runs to its end, and both phase timers fire; nothing is assumed of
\* the peers, nor of the selector's own probes.
HandshakeFairness == \A s \in Sessions :
    /\ WF_vars(tcp_session_create(s)) /\ WF_vars(ReadInitialPayload(s) /\ phase[s] = "read")
    /\ WF_vars(InitialPayloadTimeout(s))
    /\ WF_vars(tcp_handshake_try_connect(s))
    /\ WF_vars(tcp_handshake_on_timeout(s))
    /\ WF_vars(RetryReport(s)) /\ WF_vars(RetryNext(s))

FairHandshakeSpec == HandshakeSpec /\ HandshakeFairness

-----------------------------------------------------------------------------
(* Safety.                                                                 *)

\* "not retrying ... to avoid replay": whatever connects, times out, is sent in
\* part or fails over, at most one server is ever given a request that carries
\* the whole initial payload of a session.
NoReplay == \A s \in Sessions : Cardinality(queued[s]) <= 1

\* While the session is bound to a server socket, the epoch it will present is
\* that of its latest attempt, at the server it is connected to; a session that
\* moved on never credits the server it left.
Bound == {"connecting", "sending", "relay"}
EpochOfThisServer ==
    \A s \in Sessions : phase[s] \in Bound => /\ attempt[s] # NoAttempt
                                              /\ attempt[s].srv = server_idx[s]

\* "all servers exhausted": a session gives up only when each server was tried.
ExhaustedMeansAll ==
    \A s \in Sessions : phase[s] = "exhausted" => tried_servers_mask[s] = Servers

\* tried mask, server, epoch and phase of a session agree over failovers: it is
\* well typed, presents the epoch of the attempt it is at, and gives up only when
\* each server was tried.
AttemptsAreSound == HandshakeTypeOK /\ EpochOfThisServer /\ ExhaustedMeansAll

\* A server that never fails is found: while there is one and nothing fails
\* locally, no session runs out of servers, whatever probes and other sessions
\* report between its attempts.
ReliableServerFound ==
    ~ LocalErrors /\ MayFail # Servers => \A s \in Sessions : phase[s] # "exhausted"

\* Every behaviour of the sessions and the probes together is one the selector
\* alone allows its clients: epochs are taken and reported in a legal order.
ImplementsSelector == SelectorSpec

-----------------------------------------------------------------------------
(* Liveness.                                                               *)

\* Every accepted session leaves the handshake: it relays or it is closed; it is
\* not left without a timer between two failures.
HandshakeEnds == \A s \in Sessions :
    phase[s] \notin {"relay", "answered", "exhausted", "closed"}
        ~> phase[s] \in {"relay", "answered", "exhausted", "closed"}
=============================================================================
