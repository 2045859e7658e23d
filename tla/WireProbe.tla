----------------------------- MODULE WireProbe -----------------------------
(***************************************************************************)
(* The two health probes of one server in server_selector.c on the wire:   *)
(* the HTTP request through the TCP proxy, whose answer is decrypted       *)
(* chunk by chunk as it arrives, and the DNS query over UDP.               *)
(* ServerSelector takes a probe for three events (answered, errored,       *)
(* skipped); this module is where they come from.  A callback that loops   *)
(* is cut into one action per turn: busy keeps the other callbacks of the  *)
(* same thread out.  EINTR and EAGAIN change nothing and are left out.     *)
(***************************************************************************)
EXTENDS Integers, Sequences, SequencesExt

CONSTANTS
    SendLen,               \* send_len: the sealed request
    HeaderSize,            \* ss2022_tcp_client_response_header_size
    TAG,                   \* the 16 bytes of an authentication tag
    UINT16_MAX,            \* of the length of a chunk, and of the DNS txid
    TCP_PROBE_STATUS_LEN,
    Responses              \* plain texts a server may answer with, as chunks

TCP_PROBE_RECV_BUF_SIZE == UINT16_MAX + 2 + TAG
TCP_PROBE_LENGTH_LEN == 2 + TAG

\* A byte of plain text is a number; "HTTP/1.1 204" is 1, 2, ...
StatusOk == [i \in 1 .. TCP_PROBE_STATUS_LEN |-> i]

ASSUME ProbeAssumption ==
    /\ SendLen \in Nat \ {0} /\ TAG \in Nat \ {0} /\ UINT16_MAX \in Nat \ {0}
    /\ HeaderSize \in 1 .. TCP_PROBE_RECV_BUF_SIZE /\ TCP_PROBE_STATUS_LEN \in Nat \ {0}
    /\ \A r \in Responses : /\ r # << >> /\ r \in Seq(Seq(Nat))
                            /\ \A c \in 1 .. Len(r) : Len(r[c]) <= UINT16_MAX

VARIABLES
    res,       \* what each probe holds, see Resources
    state,     \* p->state of the TCP probe
    send_off, buf, buf_need, status,
    busy,      \* the callback whose loop is running, or "no"
    opened,    \* history of the cipher: chunks opened since the client was made
    answer,    \* the response of the server, and whether a frame has been forged
    got,       \* how many bytes of it the socket has given
    outcome,   \* what the last TCP probe was recorded as, and why
    txid,      \* g_dns_txid_seq
    stopped    \* server_selector_stop has run

tcpVars == <<state, send_off, buf, buf_need, status, busy, opened, answer, got, outcome>>
probeVars == <<res, tcpVars, txid, stopped>>

Kinds == {"tcp", "udp"}
\* sockfd: p->sockfd >= 0.  sockets, clients: how many descriptors and crypto
\* states the probe has created and not released.  io, timer: the watchers.
\* remaining: what probes_remaining counts for this server.
Resources == [sockfd : BOOLEAN, sockets : 0 .. 1, clients : 0 .. 1,
              io : {"off", "write", "read"}, timer : BOOLEAN, remaining : 0 .. 1]
Free == [sockfd |-> FALSE, sockets |-> 0, clients |-> 0, io |-> "off", timer |-> FALSE,
         remaining |-> 0]

-----------------------------------------------------------------------------
(* What a probe acquires and releases, call by call.                       *)

\* selector_start_probe_round counts the probe, ss_probe_done takes it off.
Counted(r) == [r EXCEPT !.remaining = 1]
Done(r) == [r EXCEPT !.remaining = @ - 1]

ClientMade(r) == [r EXCEPT !.clients = @ + 1]
ClientFreed(r) == [r EXCEPT !.clients = @ - 1]
SocketMade(r) == [r EXCEPT !.sockets = @ + 1]
SocketClosed(r) == [r EXCEPT !.sockets = @ - 1]

\* p->sockfd, the two watchers.
Watched(r, io) == [r EXCEPT !.sockfd = TRUE, !.io = io, !.timer = TRUE]
Unwatched(r) == [r EXCEPT !.io = "off", !.timer = FALSE]
FdClosed(r) == [SocketClosed(r) EXCEPT !.sockfd = FALSE]

\* Mutant: the timer is armed when the connection is up.
Armed_Late(r, io) == [SocketMade(ClientMade(Counted(r))) EXCEPT !.sockfd = TRUE, !.io = io]

\* A start that comes through.
Armed(r, io) == Watched(SocketMade(ClientMade(Counted(r))), io)

-----------------------------------------------------------------------------
(* The answer on the wire: a header that carries the length of the first   *)
(* chunk, the chunk, and a sealed length before each further one.          *)

Frames(r) == 2 * Len(r)
FrameSize(r, f) == IF f = 1 THEN HeaderSize
                   ELSE IF f % 2 = 0 THEN Len(r[f \div 2]) + TAG ELSE TCP_PROBE_LENGTH_LEN
Frame(r, f) == [i \in 1 .. FrameSize(r, f) |-> <<f, i>>]
Wire(r) == FlattenSeq([f \in 1 .. Frames(r) |-> Frame(r, f)])

\* ss2022_tcp_client_open_*: the next frame, whole, in its place and authentic.
\* That a frame was forged on its way is settled when it is opened.
Opens(need) == LET f == opened + 1 IN
    /\ f <= Frames(answer.text) /\ ~ answer'.forged
    /\ SubSeq(buf, 1, need) = Frame(answer.text, f)
ForgedOrNot == \E f \in BOOLEAN : answer' = [answer EXCEPT !.forged = f]

-----------------------------------------------------------------------------
(* How a probe ends.                                                       *)

Busy == busy # "no"

Result(verdict, why) == outcome' = [verdict |-> verdict, why |-> why]

\* tcp_probe_finish.
TcpReleased(r) == ClientFreed(FdClosed(Unwatched(r)))
tcp_probe_finish(verdict, why) ==
    /\ res' = [res EXCEPT !["tcp"] = Done(TcpReleased(@))]
    /\ Result(verdict, why)
    /\ busy' = "no"

\* A local error says nothing of the server: ss_probe_skip, after a release of its own.
TcpErrorReleased(r) == ClientFreed(FdClosed(Unwatched(r)))
tcp_probe_socket_error ==
    \/ tcp_probe_finish("failed", "error")
    \/ /\ res' = [res EXCEPT !["tcp"] = Done(TcpErrorReleased(@))]
       /\ Result("skipped", "local")
       /\ busy' = "no"

-----------------------------------------------------------------------------
(* tcp_probe_start.                                                        *)

\* selector_start_probe_round: no probe of the last round is under way.
RoundStarts(k) == ~ stopped /\ ~ Busy /\ res[k].remaining = 0

\* What the struct keeps from the last round is what the start does not assign.
StartUnassigned == UNCHANGED <<buf, buf_need, status, txid, stopped>>

\* The exits of the set-up: the request cannot be built, or there is no socket.
TcpRequestFails(r) == ClientFreed(ClientMade(r))

\* Mutant: without a socket the client is not freed.
TcpSocketFails_Leak(r) == ClientMade(r)

TcpSocketFails(r) == ClientFreed(ClientMade(r))

\* The first exit is that of a missing context, or of a client that cannot be made.
TcpSetupFails ==
    /\ RoundStarts("tcp")
    /\ LET Skipped(r) == res' = [res EXCEPT !["tcp"] = Done(r)]
           p == Counted(res["tcp"])
       IN  \/ Skipped(p) /\ UNCHANGED send_off
           \/ Skipped(TcpRequestFails(p)) /\ UNCHANGED send_off
           \/ Skipped(TcpSocketFails(p)) /\ send_off' = 0
    /\ Result("skipped", "local")
    /\ UNCHANGED <<state, busy, opened, answer, got>>
    /\ StartUnassigned

\* The new cipher, and the answer that the server will give.
NewAttempt ==
    /\ opened' = 0 /\ got' = 0
    /\ \E r \in Responses : answer' = [text |-> r, forged |-> FALSE]

\* connect() fails at once, or it is up at once and tcp_has_error finds an error.
TcpConnectFails ==
    /\ RoundStarts("tcp")
    /\ LET Over(r) == res' = [res EXCEPT !["tcp"] = Done(r)]
           p == Armed(res["tcp"], "off")
       IN  \/ Over(TcpReleased(p)) /\ Result("failed", "error")
           \/ Over(TcpErrorReleased(p)) /\ Result("skipped", "local")
    /\ state' = "CONNECTING" /\ send_off' \in 0 .. SendLen
    /\ NewAttempt
    /\ UNCHANGED busy
    /\ StartUnassigned

\* It is under way, with TFO after a part or all of the request was taken.
TcpConnecting ==
    /\ RoundStarts("tcp")
    /\ res' = [res EXCEPT !["tcp"] = Armed(@, "write")]
    /\ state' = "CONNECTING" /\ UNCHANGED busy
    /\ send_off' \in 0 .. SendLen
    /\ Result("none", "none")
    /\ NewAttempt
    /\ StartUnassigned

\* It is up at once: tcp_probe_on_connected is called, and with it tcp_probe_on_send,
\* before the io watcher has been started.
TcpConnectedAtOnce ==
    /\ RoundStarts("tcp")
    /\ res' = [res EXCEPT !["tcp"] = Armed(@, "off")]
    /\ state' = "SENDING" /\ busy' = "send"
    /\ send_off' \in 0 .. SendLen
    /\ Result("none", "none")
    /\ NewAttempt
    /\ StartUnassigned

-----------------------------------------------------------------------------
(* The callbacks of the TCP probe.                                         *)

Writable(s) == res["tcp"].io = "write" /\ ~ Busy /\ state = s
Received == <<buf, buf_need, status, opened, answer, got>>
Elsewhere == UNCHANGED <<txid, stopped>>

\* tcp_probe_on_connected, up to its ev_invoke of tcp_probe_on_send.
TcpConnected ==
    /\ Writable("CONNECTING")
    /\ \/ tcp_probe_socket_error /\ UNCHANGED state
       \/ state' = "SENDING" /\ busy' = "send" /\ UNCHANGED <<res, outcome>>
    /\ UNCHANGED <<send_off, Received>>
    /\ Elsewhere

\* Mutant: the status begins with what the last probe has left of its own.
ExpectHeader_Stale == state' = "RECV_RESP_HDR" /\ buf_need' = HeaderSize /\ buf' = << >> /\ UNCHANGED status

ExpectHeader == state' = "RECV_RESP_HDR" /\ buf_need' = HeaderSize /\ buf' = << >> /\ status' = << >>

\* tcp_probe_on_send: one send(), of which the last sets the probe to receive.
\* None is taken when the socket is full, and then the watcher is started if it was
\* not active; a send() that returns 0 is an error.
TcpSend ==
    /\ busy = "send" \/ Writable("SENDING")
    /\ \/ /\ send_off < SendLen
          /\ tcp_probe_socket_error
          /\ UNCHANGED <<state, send_off, buf, buf_need, status>>
       \/ \E n \in 0 .. SendLen - send_off :
            /\ send_off' = send_off + n
            /\ IF send_off' < SendLen
               THEN /\ res' = [res EXCEPT !["tcp"].io = "write"]
                    /\ UNCHANGED <<state, buf, buf_need, status>>
               ELSE /\ res' = [res EXCEPT !["tcp"].io = "read"]
                    /\ ExpectHeader
            /\ busy' = "no"
            /\ UNCHANGED outcome
    /\ UNCHANGED <<opened, answer, got>>
    /\ Elsewhere

Readable == res["tcp"].io = "read" /\ ~ Busy
Room == TCP_PROBE_RECV_BUF_SIZE - Len(buf)
Least(a, b) == IF a < b THEN a ELSE b

\* tcp_probe_on_recv up to its loop: a full buffer is taken for an error.
TcpRecv ==
    /\ Readable /\ got < Len(Wire(answer.text))
    /\ IF Room = 0
       THEN tcp_probe_finish("failed", "answer") /\ UNCHANGED <<buf, got>>
       ELSE \E n \in 1 .. Least(Room, Len(Wire(answer.text)) - got) :
            /\ buf' = buf \o SubSeq(Wire(answer.text), got + 1, got + n)
            /\ got' = got + n
            /\ busy' = "recv"
            /\ UNCHANGED <<res, outcome>>
    /\ UNCHANGED <<state, send_off, buf_need, status, opened, answer>>
    /\ Elsewhere

\* The server closes, or the connection breaks, anywhere in the answer.
TcpRecvEnds ==
    /\ Readable
    /\ tcp_probe_finish("failed", "eof") \/ tcp_probe_socket_error
    /\ UNCHANGED <<state, send_off, Received>>
    /\ Elsewhere

-----------------------------------------------------------------------------
(* The loop of tcp_probe_on_recv.                                          *)

\* Mutant: a turn of the loop is all that a callback takes.
LoopDone_OneTurn == Len(buf) < buf_need \/ state = "RECV_LENGTH"

LoopDone == Len(buf) < buf_need

TcpLoopEnd ==
    /\ busy = "recv" /\ LoopDone
    /\ busy' = "no"
    /\ UNCHANGED <<res, state, send_off, Received, outcome>>
    /\ Elsewhere

Turn(s) == busy = "recv" /\ ~ LoopDone /\ state = s
tcp_probe_consume(n) == buf' = SubSeq(buf, n + 1, Len(buf))

\* A header or a length is opened; the chunk it announces is next.
TcpOpenLength ==
    /\ Turn("RECV_RESP_HDR") \/ Turn("RECV_LENGTH")
    /\ ForgedOrNot
    /\ IF Opens(buf_need)
       THEN /\ tcp_probe_consume(buf_need)
            /\ opened' = opened + 1
            /\ state' = "RECV_PAYLOAD"
            /\ buf_need' = Len(answer.text[opened \div 2 + 1]) + TAG
            /\ IF buf_need' > TCP_PROBE_RECV_BUF_SIZE THEN tcp_probe_finish("failed", "answer")
               ELSE UNCHANGED <<res, outcome, busy>>
       ELSE /\ tcp_probe_finish("failed", "answer")
            /\ UNCHANGED <<buf, opened, state, buf_need>>
    /\ UNCHANGED <<send_off, status, got>>
    /\ Elsewhere

\* Mutant: all of the chunk goes into the status.
StatusWith_All(plain) == status \o plain

StatusWith(plain) ==
    status \o SubSeq(plain, 1, Least(Len(plain), TCP_PROBE_STATUS_LEN - Len(status)))

StatusComplete(s) == Len(s) >= TCP_PROBE_STATUS_LEN

TcpOpenPayload ==
    /\ Turn("RECV_PAYLOAD")
    /\ ForgedOrNot
    /\ IF Opens(buf_need)
       THEN /\ opened' = opened + 1
            /\ status' = StatusWith(answer.text[opened' \div 2])
            /\ tcp_probe_consume(buf_need)
            /\ IF StatusComplete(status')
               THEN /\ tcp_probe_finish(IF status' = StatusOk THEN "ok" ELSE "failed", "answer")
                    /\ UNCHANGED <<state, buf_need>>
               ELSE /\ state' = "RECV_LENGTH" /\ buf_need' = TCP_PROBE_LENGTH_LEN
                    /\ UNCHANGED <<res, outcome, busy>>
       ELSE /\ tcp_probe_finish("failed", "answer")
            /\ UNCHANGED <<buf, opened, status, state, buf_need>>
    /\ UNCHANGED <<send_off, got>>
    /\ Elsewhere

\* tcp_probe_on_timeout.
TcpTimeout ==
    /\ res["tcp"].timer /\ ~ Busy
    /\ tcp_probe_finish("failed", "timeout")
    /\ UNCHANGED <<state, send_off, Received>>
    /\ Elsewhere

-----------------------------------------------------------------------------
(* The UDP probe.                                                          *)

\* udp_probe_finish.
UdpReleased(r) == ClientFreed(FdClosed(Unwatched(r)))
UdpEnds == res' = [res EXCEPT !["udp"] = Done(UdpReleased(@))]

\* ++seq ? seq : ++seq
NextTxid == IF txid = UINT16_MAX THEN 1 ELSE txid + 1

\* The exits of udp_probe_start: no socket for the session; the query cannot be sealed;
\* it cannot be sent (a skip or a failure).
UdpSocketFails(r) == ClientFreed(ClientMade(r))
UdpSealFails(r) == ClientFreed(SocketClosed(SocketMade(ClientMade(r))))
UdpSendFails(r) == ClientFreed(SocketClosed(SocketMade(ClientMade(r))))

\* The first exit is that of a missing context or session.  The id of the query is
\* drawn once there is a socket.
UdpStartFails ==
    /\ RoundStarts("udp")
    /\ LET Over(r) == res' = [res EXCEPT !["udp"] = Done(r)]
           p == Counted(res["udp"])
       IN  \/ Over(p) /\ UNCHANGED txid
           \/ Over(UdpSocketFails(p)) /\ UNCHANGED txid
           \/ Over(UdpSealFails(p)) /\ txid' = NextTxid
           \/ Over(UdpSendFails(p)) /\ txid' = NextTxid
    /\ UNCHANGED <<tcpVars, stopped>>

UdpStart ==
    /\ RoundStarts("udp")
    /\ res' = [res EXCEPT !["udp"] = Armed(@, "read")]
    /\ txid' = NextTxid
    /\ UNCHANGED <<tcpVars, stopped>>

\* udp_probe_on_recv: an error, or an authentic packet, which is a failure unless
\* it answers this query.
UdpRecv ==
    /\ res["udp"].io = "read" /\ ~ Busy
    /\ UdpEnds
    /\ UNCHANGED <<tcpVars, txid, stopped>>

\* A packet that cannot be opened, such as an answer to an earlier session.
UdpRecvForged ==
    /\ res["udp"].io = "read" /\ ~ Busy
    /\ UNCHANGED probeVars

\* udp_probe_on_timeout.
UdpTimeout ==
    /\ res["udp"].timer /\ ~ Busy
    /\ UdpEnds
    /\ UNCHANGED <<tcpVars, txid, stopped>>

-----------------------------------------------------------------------------
(* server_selector_stop.                                                   *)

TcpStopped(r) == IF r.sockfd THEN ClientFreed(FdClosed(Unwatched(r))) ELSE r
UdpStopped(r) == IF r.sockfd THEN ClientFreed(FdClosed(Unwatched(r))) ELSE r

server_selector_stop ==
    /\ ~ stopped /\ ~ Busy
    /\ LET StopProbe(k) == IF k = "tcp" THEN TcpStopped(res[k]) ELSE UdpStopped(res[k])
       IN  res' = [k \in Kinds |-> [StopProbe(k) EXCEPT !.remaining = 0]]
    /\ stopped' = TRUE
    /\ UNCHANGED <<tcpVars, txid>>

ProbeInit ==
    /\ res = [k \in Kinds |-> Free]
    /\ state = "CONNECTING" /\ send_off = 0 /\ buf = << >> /\ buf_need = 0 /\ status = << >>
    /\ busy = "no" /\ opened = 0 /\ got = 0
    /\ answer \in {[text |-> r, forged |-> FALSE] : r \in Responses}
    /\ outcome = [verdict |-> "none", why |-> "none"]
    /\ txid = 0 /\ stopped = FALSE

TcpStart == TcpSetupFails \/ TcpConnectFails \/ TcpConnecting \/ TcpConnectedAtOnce
TcpLoop == TcpLoopEnd \/ TcpOpenLength \/ TcpOpenPayload
TcpCallback == TcpConnected \/ TcpSend \/ TcpRecv \/ TcpRecvEnds \/ TcpLoop \/ TcpTimeout
UdpStep == UdpStartFails \/ UdpStart \/ UdpRecv \/ UdpRecvForged \/ UdpTimeout

ProbeNext == TcpStart \/ TcpCallback \/ UdpStep \/ server_selector_stop
ProbeSpec == ProbeInit /\ [][ProbeNext]_probeVars

\* A callback runs to its end, and the event loop comes to a timer that is due,
\* whatever the network does and whichever other callbacks it runs before.
FairProbeSpec ==
    /\ ProbeSpec
    /\ WF_probeVars(TcpLoop) /\ WF_probeVars(busy = "send" /\ TcpSend)
    /\ SF_probeVars(TcpTimeout) /\ SF_probeVars(UdpTimeout)

-----------------------------------------------------------------------------
(* What the probes are to achieve.                                         *)

\* Lengths, buffers and counts stay in their ranges: in particular the status never
\* outgrows its array, the input its buffer, and no probe is counted done twice.
ProbeTypeOK ==
    /\ res \in [Kinds -> Resources]
    /\ state \in {"CONNECTING", "SENDING", "RECV_RESP_HDR", "RECV_PAYLOAD", "RECV_LENGTH"}
    /\ send_off \in 0 .. SendLen
    /\ Len(buf) <= TCP_PROBE_RECV_BUF_SIZE /\ buf_need \in 0 .. TCP_PROBE_RECV_BUF_SIZE
    /\ Len(status) <= TCP_PROBE_STATUS_LEN
    /\ busy \in {"no", "send", "recv"}
    /\ txid \in 0 .. UINT16_MAX /\ stopped \in BOOLEAN

\* Whichever of its many ways out a probe takes (each exit of the set-up with what it
\* has acquired by then, connect, send, receive, an end in the middle of the loop, the
\* timeout, the stop), by whichever of the five copies of the release, the socket is
\* closed once, the crypto state freed once, both watchers are off, and ss_probe_done
\* was called exactly once, so that the round of the selector can end.
NothingLeftOver ==
    \A k \in Kinds : ~ res[k].sockfd =>
        res[k].sockets = 0 /\ res[k].clients = 0 /\ res[k].io = "off" /\ ~ res[k].timer
        /\ res[k].remaining = 0

\* How many frames hold the whole status line, if the answer has it.
StatusFrames(r) ==
    LET Enough(c) == Len(FlattenSeq(SubSeq(r, 1, c))) >= TCP_PROBE_STATUS_LEN
        chunks == {c \in 1 .. Len(r) : Enough(c)}
    IN  IF chunks = {} THEN Frames(r) + 1 ELSE 2 * (CHOOSE c \in chunks : \A x \in chunks : c <= x)
StatusBytes(r) == Len(FlattenSeq([f \in 1 .. StatusFrames(r) |-> Frame(r, f)]))
HasStatus(r) == StatusFrames(r) <= Frames(r)

\* The server has answered 204, and all of the line is authentic.
Deserved ==
    LET r == answer.text IN
    /\ HasStatus(r) /\ ~ answer.forged
    /\ SubSeq(FlattenSeq(r), 1, TCP_PROBE_STATUS_LEN) = StatusOk

\* The verdict is the server's answer and nothing else: not how the network cut the
\* stream, how the server cut it into chunks (empty ones included), nor what an
\* earlier probe has left in the struct.  A server is recorded as answering only for
\* an authentic 204, and judged by its answer, or lost to the end of the stream, as
\* failed only if it gave none.
VerdictIsTheAnswer ==
    /\ outcome.verdict = "ok" => Deserved
    /\ outcome.verdict = "failed" /\ outcome.why = "answer" => ~ Deserved
    /\ outcome.verdict = "failed" /\ outcome.why = "eof" /\ Deserved
         => got < StatusBytes(answer.text)

\* A probe never waits for the network for what it already has: between callbacks
\* the status line is not complete in its buffer, and the buffer has room.
NeverWaitsForNothing ==
    Readable => /\ Len(buf) < buf_need /\ Room > 0
                /\ HasStatus(answer.text) => got < StatusBytes(answer.text)

\* However silent the server, a probe ends: the next round can start.
ProbesEnd == \A k \in Kinds : res[k].sockfd ~> ~ res[k].sockfd
=============================================================================
