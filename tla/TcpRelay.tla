------------------------------ MODULE TcpRelay ------------------------------
(***************************************************************************)
(* The relay of one TCP session (tcp_proxy.c): the buffers, the framing of *)
(* the server's stream, the watchers and the two half-closes.  The         *)
(* variable s is session->relay with the watchers' events.  A byte of the  *)
(* server's stream is its position in the stream, so the input buffer      *)
(* holds positions and the client receives positions; likewise a byte of   *)
(* what is sealed for the server is its position among all that is sealed. *)
(* A piece of the server's stream authenticates iff it comes next.         *)
(***************************************************************************)
EXTENDS Integers, Sequences, FiniteSetsExt

CONSTANTS
    TCP_SS2022_MAX_PAYLOAD_LEN, TCP_SS2022_LEN_FIELD_LEN, TCP_SS2022_TAG_LEN,
    TCP_SS2022_RESP_READ_SLACK, TCP_SS_PLAIN_BUFSIZ,
    ResponseHeaderLen,  \* ss2022_tcp_client_response_header_size
    Streams,            \* the payload lengths of the chunks a server may send
    ClientBytes         \* what the client sends before it closes

SS2022_LENGTH_CHUNK_LEN == TCP_SS2022_LEN_FIELD_LEN + TCP_SS2022_TAG_LEN
TCP_SS_RESP_IN_BUFSIZ == TCP_SS2022_MAX_PAYLOAD_LEN + TCP_SS2022_LEN_FIELD_LEN
                         + TCP_SS2022_TAG_LEN + TCP_SS2022_RESP_READ_SLACK

\* tcp_session_enter_relay refuses a response header that is empty or does not
\* fit; a chunk length is a 16-bit field.
ASSUME RelayAssumption ==
    /\ TCP_SS2022_MAX_PAYLOAD_LEN \in Nat \ {0} /\ TCP_SS2022_LEN_FIELD_LEN \in Nat \ {0}
    /\ TCP_SS2022_TAG_LEN \in Nat \ {0} /\ TCP_SS2022_RESP_READ_SLACK \in Nat
    /\ TCP_SS_PLAIN_BUFSIZ \in Nat \ {0} /\ ClientBytes \in Nat
    /\ ResponseHeaderLen \in 1 .. TCP_SS_RESP_IN_BUFSIZ
    /\ \A c \in Streams : c # << >> /\ c \in Seq(0 .. TCP_SS2022_MAX_PAYLOAD_LEN)

VARIABLES
    s,      \* session->relay
    chunks, \* what the server has to say: payload lengths, chunk by chunk
    cut     \* the stream position after which the server closes

vars == <<s, chunks, cut>>

-----------------------------------------------------------------------------
(* The server's stream: the response header, which carries the length of   *)
(* the first chunk, that chunk, then a length and a chunk in turn.         *)

ChunkEnd(c) == LET end[i \in 0 .. Len(c)] ==
                       IF i = 0 THEN ResponseHeaderLen - SS2022_LENGTH_CHUNK_LEN
                       ELSE end[i - 1] + SS2022_LENGTH_CHUNK_LEN + c[i] + TCP_SS2022_TAG_LEN
               IN  end
Positions(a, b) == [k \in 1 .. b - a + 1 |-> a + k - 1]
ChunkPlain(c, i) == LET e == ChunkEnd(c)[i] - TCP_SS2022_TAG_LEN
                    IN  Positions(e - c[i] + 1, e)
Plain(c) == LET upto[i \in 0 .. Len(c)] == IF i = 0 THEN << >> ELSE upto[i - 1] \o ChunkPlain(c, i)
            IN  upto[Len(c)]

-----------------------------------------------------------------------------
(* The input buffer and the framing.                                       *)

tcp_buf_consume(r, n) ==
    IF n >= r.in_len THEN [r EXCEPT !.in_head = 0, !.in_len = 0]
    ELSE [r EXCEPT !.in_head = @ + n, !.in_len = @ - n]

\* How many bytes the next piece of the stream takes.
Needed(r) == IF ~ r.response_header_done THEN ResponseHeaderLen
             ELSE IF r.need_len THEN SS2022_LENGTH_CHUNK_LEN
             ELSE r.response_payload_len + TCP_SS2022_TAG_LEN

\* The n bytes at the head of the buffer are the next of the stream.
Authentic(r, n) == SubSeq(r.in, r.in_head + 1, r.in_head + n) = Positions(r.opened + 1, r.opened + n)
Opened(r, n) == [tcp_buf_consume(r, n) EXCEPT !.opened = @ + n]

\* One piece of tcp_relay_process_server_data: the header, a length, or a chunk.
\* A chunk is decrypted in place and stays in the buffer until it is sent, an
\* empty one is consumed at once.
OpenPiece(r) ==
    LET n == Needed(r) IN
    IF r.open # "open" \/ r.out_len > 0 \/ r.in_len < n THEN r
    ELSE IF ~ Authentic(r, n) THEN [r EXCEPT !.open = "garbled"]
    ELSE CASE ~ r.response_header_done ->
            [Opened(r, n) EXCEPT !.response_header_done = TRUE, !.need_len = FALSE,
                                 !.chunk = 1, !.response_payload_len = chunks[1]]
      [] r.response_header_done /\ r.need_len ->
            [Opened(r, n) EXCEPT !.need_len = FALSE, !.chunk = @ + 1,
                                 !.response_payload_len = chunks[r.chunk + 1]]
      [] OTHER ->
            IF r.response_payload_len = 0 THEN [Opened(r, n) EXCEPT !.need_len = TRUE]
            ELSE [r EXCEPT !.opened = @ + n, !.in_consume = n, !.out_off = 0,
                           !.out_len = r.response_payload_len, !.need_len = TRUE]

\* The loop of tcp_relay_process_server_data: until there is something to send
\* to the client or the next piece is incomplete.  This and the handlers below
\* are the set of the states that they may leave behind; here there is one.
tcp_relay_process_server_data(r) ==
    LET loop[k \in 0 .. r.in_len + 1] ==
            IF k = 0 THEN {r} ELSE {OpenPiece(q) : q \in loop[k - 1]}
    IN  loop[r.in_len + 1]

tcp_relay_process_pending_server_data(r) ==
    IF r.out_len # 0 \/ r.in_len = 0 THEN {r} ELSE tcp_relay_process_server_data(r)

\* The data is moved to the front when no room is left behind it.
tcp_relay_compact_server_input(r) ==
    IF r.in_head = 0 \/ TCP_SS_RESP_IN_BUFSIZ - r.in_head - r.in_len # 0 THEN r
    ELSE [r EXCEPT !.in_head = 0,
                   !.in = [k \in DOMAIN r.in |-> IF k <= r.in_len THEN r.in[r.in_head + k]
                                                 ELSE r.in[k]]]

-----------------------------------------------------------------------------
(* Reads and writes: the results a handler may come to.                    *)

\* Mutants: a second send starts at the chunk's first byte again; the chunk that
\* was sent stays marked for consumption.
tcp_relay_write_to_client_NoOffset(r) ==
    {LET sent == [r EXCEPT !.out_len = @ - n, !.out_off = IF n = r.out_len THEN 0 ELSE @ + n,
                           !.to_client = @ \o SubSeq(r.in, r.in_head + 1, r.in_head + n)]
     IN  IF sent.out_len = 0 /\ sent.in_consume > 0
         THEN [tcp_buf_consume(sent, sent.in_consume) EXCEPT !.in_consume = 0] ELSE sent
     : n \in 0 .. r.out_len}
tcp_relay_write_to_client_StaleConsume(r) ==
    {LET sent == [r EXCEPT !.out_len = @ - n, !.out_off = IF n = r.out_len THEN 0 ELSE @ + n]
     IN  IF sent.out_len = 0 THEN tcp_buf_consume(sent, sent.in_consume) ELSE sent
     : n \in 0 .. r.out_len}

tcp_relay_write_to_client(r) ==
    {LET sent == [r EXCEPT !.out_len = @ - n, !.out_off = IF n = r.out_len THEN 0 ELSE @ + n,
                           !.to_client = @ \o SubSeq(r.in, r.in_head + r.out_off + 1,
                                                     r.in_head + r.out_off + n)]
     IN  IF sent.out_len = 0 /\ sent.in_consume > 0
         THEN [tcp_buf_consume(sent, sent.in_consume) EXCEPT !.in_consume = 0] ELSE sent
     : n \in 0 .. r.out_len}

\* Mutant: a second send starts at the buffer's first byte again.
tcp_relay_write_to_server_NoOffset(r) ==
    {[r EXCEPT !.c2s_len = @ - n, !.c2s_off = IF n = r.c2s_len THEN 0 ELSE @ + n,
               !.to_server = @ \o SubSeq(r.c2s, 1, n)] : n \in 0 .. r.c2s_len}

tcp_relay_write_to_server(r) ==
    {[r EXCEPT !.c2s_len = @ - n, !.c2s_off = IF n = r.c2s_len THEN 0 ELSE @ + n,
               !.to_server = @ \o SubSeq(r.c2s, r.c2s_off + 1, r.c2s_off + n)]
     : n \in 0 .. r.c2s_len}

\* Nothing to read, the client's end, or up to a buffer that is sealed as a chunk,
\* in place, from the first byte of the buffer on.
tcp_relay_read_from_client(r) ==
    {r}
    \cup {[r EXCEPT !.client_eof = TRUE] : x \in {r.from_client} \cap {ClientBytes}}
    \cup {LET cipher == SS2022_LENGTH_CHUNK_LEN + n + TCP_SS2022_TAG_LEN
          IN  [r EXCEPT !.from_client = @ + n, !.c2s_off = 0, !.c2s_len = cipher,
                        !.c2s = Positions(r.sealed + 1, r.sealed + cipher),
                        !.sealed = @ + cipher]
          : n \in 1 .. Min({TCP_SS_PLAIN_BUFSIZ, ClientBytes - r.from_client})}

tcp_relay_server_eof_is_clean(r) ==
    r.in_len = 0 /\ r.response_header_done /\ r.need_len

tcp_relay_handle_server_eof(r) ==
    IF tcp_relay_server_eof_is_clean(r) THEN [r EXCEPT !.server_eof = TRUE]
    ELSE [r EXCEPT !.open = "truncated"]

\* A recv into no room returns 0, which is taken for the end of the stream.
tcp_relay_read_from_server(r0) ==
    LET r   == tcp_relay_compact_server_input(r0)
        cap == TCP_SS_RESP_IN_BUFSIZ - r.in_head - r.in_len
        end == r.in_head + r.in_len
        Received(n) == [r EXCEPT !.received = @ + n, !.in_len = @ + n,
                                 !.in = [k \in DOMAIN r.in |->
                                            IF k \in end + 1 .. end + n
                                            THEN r.received + k - end ELSE r.in[k]]]
    IN  IF cap = 0 \/ r.received = cut THEN {r, tcp_relay_handle_server_eof(r)}
        ELSE {r} \cup UNION {tcp_relay_process_server_data(Received(n)) :
                                n \in 1 .. Min({cap, cut - r.received})}

-----------------------------------------------------------------------------
(* The watchers.                                                           *)

\* Mutant: the end of the stream is passed on while data is still to be sent.
ClientShutdownDue_Early(r) == r.server_eof \/ r.received = cut

ClientShutdownDue(r) == r.server_eof /\ r.out_len = 0 /\ r.in_len = 0

\* Mutant: the server is read only into an empty buffer.
ServerEvents_EmptyOnly(r) ==
    (IF ~ r.server_eof /\ r.out_len = 0 /\ r.in_len = 0 THEN {"read"} ELSE {})
    \cup (IF r.c2s_len > 0 THEN {"write"} ELSE {})

ClientEvents(r) ==
    (IF ~ r.client_eof /\ r.c2s_len = 0 THEN {"read"} ELSE {})
    \cup (IF r.out_len > 0 THEN {"write"} ELSE {})
ServerEvents(r) ==
    (IF ~ r.server_eof /\ r.out_len = 0 /\ r.in_len < TCP_SS_RESP_IN_BUFSIZ THEN {"read"} ELSE {})
    \cup (IF r.c2s_len > 0 THEN {"write"} ELSE {})

\* The half-closes that are due, the end of the session, or the events to wait
\* for; a session that is not open was closed before this is reached.
tcp_relay_update_watchers(r) ==
    LET shut == [r EXCEPT !.server_shutdown_sent = @ \/ (r.client_eof /\ r.c2s_len = 0),
                          !.client_shutdown_sent = @ \/ ClientShutdownDue(r)]
    IN  CASE r.open # "open" -> r
          [] r.open = "open" /\ r.client_eof /\ r.server_eof
             /\ r.c2s_len = 0 /\ r.out_len = 0 /\ r.in_len = 0 -> [shut EXCEPT !.open = "done"]
          [] OTHER -> [shut EXCEPT !.client_events = ClientEvents(r),
                                   !.server_events = ServerEvents(r)]

-----------------------------------------------------------------------------
\* tcp_session_enter_relay: eof is the handshake's client_eof.
EnterRelay(eof) ==
    tcp_relay_update_watchers(
        [open |-> "open", client_eof |-> eof, server_eof |-> FALSE,
         client_shutdown_sent |-> FALSE, server_shutdown_sent |-> FALSE,
         response_header_done |-> FALSE, response_payload_len |-> 0,
         in |-> [k \in 1 .. TCP_SS_RESP_IN_BUFSIZ |-> 0], in_head |-> 0, in_len |-> 0,
         need_len |-> FALSE, out_off |-> 0, out_len |-> 0, in_consume |-> 0,
         c2s |-> << >>, c2s_off |-> 0, c2s_len |-> 0, client_events |-> {}, server_events |-> {},
         opened |-> 0, chunk |-> 0, received |-> 0, to_client |-> << >>,
         from_client |-> IF eof THEN ClientBytes ELSE 0, sealed |-> 0, to_server |-> << >>])

\* The server closes at the end of a chunk or anywhere else in its stream.
Init ==
    /\ chunks \in Streams
    /\ cut \in 0 .. ChunkEnd(chunks)[Len(chunks)]
    /\ \E eof \in BOOLEAN : s = EnterRelay(eof)

\* The guards of tcp_relay_handle_read: the write and the pending data that the
\* same event was used for first may have left something to send.
ClientReadDue(r) == r.c2s_len = 0
ServerReadDue(r) == r.out_len = 0

\* tcp_relay_on_event for the client's watcher: write, pending data, read.
ClientEvent ==
    /\ s.open = "open"
    /\ \E revents \in SUBSET s.client_events \ {{}} :
       \E w \in IF "write" \in revents THEN tcp_relay_write_to_client(s) ELSE {s} :
       \E r \in tcp_relay_process_pending_server_data(w) :
       \E q \in IF r.open = "open" /\ "read" \in revents /\ ClientReadDue(r)
                THEN tcp_relay_read_from_client(r) ELSE {r} :
          s' = tcp_relay_update_watchers(q)
    /\ UNCHANGED <<chunks, cut>>

ServerEvent ==
    /\ s.open = "open"
    /\ \E revents \in SUBSET s.server_events \ {{}} :
       \E w \in IF "write" \in revents THEN tcp_relay_write_to_server(s) ELSE {s} :
       \E r \in tcp_relay_process_pending_server_data(w) :
       \E q \in IF r.open = "open" /\ "read" \in revents /\ ServerReadDue(r)
                THEN tcp_relay_read_from_server(r) ELSE {r} :
          s' = tcp_relay_update_watchers(q)
    /\ UNCHANGED <<chunks, cut>>

\* A failing send, recv or seal closes the session at once.
SocketError ==
    /\ s.open = "open"
    /\ s.client_events \cup s.server_events # {}
    /\ s' = [s EXCEPT !.open = "reset"]
    /\ UNCHANGED <<chunks, cut>>

Next == ClientEvent \/ ServerEvent \/ SocketError
Spec == Init /\ [][Next]_vars

\* Both peers keep reading, writing and finally closing: while some armed watcher
\* can move something, the event loop at last delivers an event that does.
FairSpec == Spec /\ WF_vars(ClientEvent \/ ServerEvent)

-----------------------------------------------------------------------------
(* Safety.                                                                 *)

\* The positions in the buffers stay inside them; what waits to be sent to the
\* client is the plain part of the chunk at the head of the input buffer.
RelayTypeOK ==
    /\ s.open \in {"open", "done", "reset", "truncated", "garbled"}
    /\ s.in_head \in 0 .. TCP_SS_RESP_IN_BUFSIZ /\ s.in_len \in 0 .. TCP_SS_RESP_IN_BUFSIZ
    /\ s.in_head + s.in_len <= TCP_SS_RESP_IN_BUFSIZ
    /\ s.in_consume <= s.in_len
    /\ s.out_len > 0 => s.out_off + s.out_len + TCP_SS2022_TAG_LEN = s.in_consume
    /\ s.client_events \subseteq {"read", "write"} /\ s.server_events \subseteq {"read", "write"}

\* The client receives the server's plain text from its beginning, byte by byte,
\* without a gap, a repetition or a byte of the framing, however the reads split
\* the stream, the sends split the chunks, and the buffer is compacted.  What the
\* relay passes to the crypto library is always exactly the next piece of the
\* stream: an honest stream is never refused.
ClientGetsPrefix ==
    /\ s.open # "garbled"
    /\ Len(s.to_client) <= Len(Plain(chunks))
    /\ s.to_client = SubSeq(Plain(chunks), 1, Len(s.to_client))

\* The relay tells the client that the stream has ended (shutdown, or the final
\* close) only if the server did end it, at the end of a chunk, and the client
\* has been sent everything.  It gives a session up as cut short ("server closed
\* mid-chunk", "before ss2022 response header") only if the server did close, in the
\* middle of a piece.  So a recv into a full buffer, which returns 0 too, is never
\* taken for either.
EndIsTheEnd ==
    /\ s.server_eof \/ s.client_shutdown_sent \/ s.open = "done" =>
        /\ s.received = cut /\ s.opened = cut
        /\ \E i \in 1 .. Len(chunks) : cut = ChunkEnd(chunks)[i]
        /\ Len(s.to_client) = Cardinality({k \in 1 .. Len(Plain(chunks)) : Plain(chunks)[k] <= cut})
    /\ s.open = "truncated" =>
        /\ s.received = cut
        /\ \A i \in 1 .. Len(chunks) : cut # ChunkEnd(chunks)[i]

\* What the server receives is what was sealed, from its first byte on: no sealed
\* byte is left out, sent twice or overwritten by the next chunk before it is sent,
\* however the sends split the chunks.  The server is told of the client's end only
\* after the last sealed byte.
SealedIsSent ==
    /\ s.to_server = Positions(1, Len(s.to_server))
    /\ s.sealed = Len(s.to_server) + s.c2s_len
    /\ s.server_shutdown_sent => s.client_eof /\ Len(s.to_server) = s.sealed

-----------------------------------------------------------------------------
(* Liveness.                                                               *)

\* Every relay comes to its end if both peers go on reading and writing and in
\* the end close: neither direction is ever left without a watcher armed for the
\* side that can move it, with room to read into.
RelayEnds == <>(s.open # "open")
=============================================================================
