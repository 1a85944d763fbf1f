---------------------------- MODULE ProxySession ----------------------------
(***************************************************************************)
(* One relayed connection of proxy/src/proxy_server.cpp: two non-blocking  *)
(* sockets, a bounded buffer towards each, and the level-triggered epoll   *)
(* loop that drives it.                                                    *)
(*                                                                         *)
(* The handlers run to completion on the one thread, so a handler is one   *)
(* step: a function from the session and its sockets to the session and    *)
(* its sockets.  epoll_wait is a step of its own, because the peers go on  *)
(* sending, closing and resetting between it and the handlers that act on  *)
(* the events it reported.                                                 *)
(*                                                                         *)
(* Bytes are numbered in the order the peer sends them; 0 stands for the   *)
(* PROXY v1 line.                                                          *)
(***************************************************************************)
EXTENDS Integers, Sequences, SequencesExt

CONSTANTS MaxBuffer,   \* kMaxBufferBytes
          SndBuf,      \* what the kernel accepts for a peer that does not read
          MaxSend      \* bound: bytes each peer sends

ASSUME BufferAssumption == MaxBuffer \in Nat \ {0}
ASSUME NetworkAssumption == SndBuf \in Nat \ {0} /\ MaxSend \in Nat

VARIABLES ses,    \* the ProxySession and its two sockets
          batch   \* events of the last epoll_wait that are not handled yet

vars == <<ses, batch>>

Roles == {"Client", "Backend"}

Peer(r) == IF r = "Client" THEN "Backend" ELSE "Client"

Least(a, b) == IF a <= b THEN a ELSE b

Stream(n) == [i \in 1..n |-> i]

Header == <<0>>

Session ==
    [state : {"Connecting", "Established", "Closing", "Gone"},
     header : {<<>>, Header},                  \* proxy_header, until injected
     buf    : [Roles -> Seq(0..MaxSend)],      \* to_client_buf, to_backend_buf
     eof    : [Roles -> BOOLEAN],              \* read_eof
     shut   : [Roles -> BOOLEAN],              \* wr_shutdown
     watch  : [Roles -> SUBSET {"IN", "OUT"}], \* registered beside the hangups
     rx     : [Roles -> Seq(0..MaxSend)],      \* kernel: received, unread
     fin    : [Roles -> BOOLEAN],              \* kernel: the peer sent its FIN
     rst    : [Roles -> BOOLEAN],              \* kernel: the connection failed
     load   : [Roles -> 0..SndBuf],            \* kernel: accepted, not yet read
     wire   : [Roles -> Seq(0..MaxSend)],      \* history: all bytes sent to it
     sent   : [Roles -> 0..MaxSend],           \* history: bytes it sent
     up     : BOOLEAN,                         \* kernel: backend connected
     proto  : BOOLEAN,                         \* send_proxy_protocol
     end    : {"none", "complete", "error"}]   \* history: why it was destroyed

TypeOK ==
    /\ ses \in Session
    /\ batch \in Seq([role : Roles,
                      ev : SUBSET {"IN", "OUT", "RDHUP", "HUP", "ERR"}])

-----------------------------------------------------------------------------
(***************************************************************************)
(* The methods of ProxyServer, as functions of the session s.              *)
(***************************************************************************)

\* Mutation: a full buffer does not ask to be told when it can be written.
DesiredReadOnly(s, r) ==
    LET dialing == s.state = "Connecting" /\ r = "Backend"
        reading == /\ s.state # "Connecting"
                   /\ ~s.eof[r]
                   /\ Len(s.buf[Peer(r)]) < MaxBuffer
    IN  (IF dialing THEN {"OUT"} ELSE {})
        \cup (IF dialing \/ reading THEN {"IN"} ELSE {})

\* desired_events, without the hangup bits that are always in the mask.
Desired(s, r) ==
    LET dialing == s.state = "Connecting" /\ r = "Backend"
        reading == /\ s.state # "Connecting"
                   /\ ~s.eof[r]
                   /\ Len(s.buf[Peer(r)]) < MaxBuffer
    IN  (IF s.buf[r] # <<>> \/ dialing THEN {"OUT"} ELSE {})
        \cup (IF dialing \/ reading THEN {"IN"} ELSE {})

\* refresh_events
Refresh(s) == [s EXCEPT !.watch = [r \in Roles |-> Desired(s, r)]]

\* destroy_session: the descriptors are closed, the buffers freed.
Destroy(s, why) ==
    [s EXCEPT !.state = "Gone", !.end = why, !.header = <<>>,
              !.buf = [r \in Roles |-> <<>>], !.rx = [r \in Roles |-> <<>>],
              !.watch = [r \in Roles |-> {}], !.load = [r \in Roles |-> 0]]

\* Mutation: completion is only looked for in the Established state.
CompleteEstablished(s) ==
    IF /\ s.state = "Established"
       /\ \A r \in Roles : s.eof[r] /\ s.buf[r] = <<>>
    THEN Destroy(s, "complete") ELSE s

\* maybe_complete
MaybeComplete(s) ==
    IF /\ s.state # "Gone"
       /\ \A r \in Roles : s.eof[r] /\ s.buf[r] = <<>>
    THEN Destroy(s, "complete") ELSE s

\* send on a socket that was reset, or shut down for writing, fails.
SendFails(s, d) == s.rst[d] \/ s.shut[d]

Room(s, d) == SndBuf - s.load[d]

\* Mutation: the masks are not refreshed.
FlushQuietly(s, d) ==
    LET n == Least(Len(s.buf[d]), Room(s, d))
        t == [s EXCEPT !.buf[d] = SubSeq(@, n + 1, Len(@)),
                       !.wire[d] = @ \o SubSeq(s.buf[d], 1, n),
                       !.load[d] = @ + n]
    IN  IF s.buf[d] # <<>> /\ SendFails(s, d) THEN Destroy(s, "error")
        ELSE IF t.buf[d] # <<>> THEN t
        ELSE MaybeComplete([t EXCEPT !.shut[d] = @ \/ t.eof[Peer(d)]])

\* Mutation: SHUT_WR does not wait for the buffer to drain.
FlushShutEarly(s, d) ==
    LET n == Least(Len(s.buf[d]), Room(s, d))
        t == Refresh([s EXCEPT !.buf[d] = SubSeq(@, n + 1, Len(@)),
                               !.wire[d] = @ \o SubSeq(s.buf[d], 1, n),
                               !.load[d] = @ + n,
                               !.shut[d] = @ \/ s.eof[Peer(d)]])
    IN  IF s.buf[d] # <<>> /\ SendFails(s, d) THEN Destroy(s, "error")
        ELSE IF t.buf[d] # <<>> THEN t
        ELSE MaybeComplete(t)

\* flush_write: send until the buffer is empty or the kernel takes no more; an
\* empty buffer lets a pending end of stream through.
FlushWrite(s, d) ==
    LET n == Least(Len(s.buf[d]), Room(s, d))
        t == Refresh([s EXCEPT !.buf[d] = SubSeq(@, n + 1, Len(@)),
                               !.wire[d] = @ \o SubSeq(s.buf[d], 1, n),
                               !.load[d] = @ + n])
    IN  IF s.buf[d] # <<>> /\ SendFails(s, d) THEN Destroy(s, "error")
        ELSE IF t.buf[d] # <<>> THEN t
        ELSE MaybeComplete([t EXCEPT !.shut[d] = @ \/ t.eof[Peer(d)]])

\* Mutation: the end of the stream is noted and not passed on.
NoteEof(s, r) ==
    IF s.state = "Gone" THEN s
    ELSE MaybeComplete(Refresh([s EXCEPT !.eof[r] = TRUE, !.state = "Closing"]))

\* on_read_eof
OnReadEof(s, r) ==
    LET t == FlushWrite([s EXCEPT !.eof[r] = TRUE, !.state = "Closing"], Peer(r))
    IN  CASE s.state = "Gone" -> s
          [] s.state # "Gone" /\ s.eof[r] -> MaybeComplete(s)
          [] OTHER -> IF t.state = "Gone" THEN t ELSE MaybeComplete(Refresh(t))

\* The recv loop of pump_read, for a number of bytes sent on directly and a
\* number buffered.
Pumped(s, r, direct, stored) ==
    LET d == Peer(r)
        got == direct + stored
        t == [s EXCEPT !.rx[r] = SubSeq(@, got + 1, Len(@)),
                       !.wire[d] = @ \o SubSeq(s.rx[r], 1, direct),
                       !.load[d] = @ + direct,
                       !.buf[d] = @ \o SubSeq(s.rx[r], direct + 1, got)]
    IN  IF Len(s.buf[d]) >= MaxBuffer THEN Refresh(s)
        ELSE IF s.buf[d] = <<>> /\ s.rx[r] # <<>> /\ SendFails(s, d)
        THEN Destroy(s, "error")
        ELSE IF Len(t.buf[d]) >= MaxBuffer THEN Refresh(t)
        ELSE IF s.rst[r] THEN Destroy(t, "error")
        ELSE IF s.fin[r] THEN OnReadEof(Refresh(t), r) ELSE Refresh(t)

Direct(s, r) ==
    IF s.buf[Peer(r)] = <<>> THEN Least(Len(s.rx[r]), Room(s, Peer(r))) ELSE 0

Stored(s, r, direct) ==
    Least(Len(s.rx[r]) - direct, MaxBuffer - Len(s.buf[Peer(r)]))

\* Mutation: new bytes overtake the buffered ones when the socket takes them.
PumpAhead(s, r) ==
    LET n == Least(Len(s.rx[r]), Room(s, Peer(r)))
    IN  IF s.state = "Connecting" \/ s.eof[r] THEN s
        ELSE Pumped(s, r, n, Stored(s, r, n))

\* pump_read: the whole recv loop.  With nothing buffered, bytes are sent on
\* directly as long as the kernel takes them; the rest is appended up to
\* MaxBuffer, and at MaxBuffer the loop stops without another recv.  Below it
\* the queue is empty, and the next recv meets a reset, a FIN or EAGAIN.
PumpRead(s, r) ==
    IF s.state = "Connecting" \/ s.eof[r] THEN s
    ELSE Pumped(s, r, Direct(s, r), Stored(s, r, Direct(s, r)))

\* inject_proxy_header: in front of whatever is buffered for the backend.
InjectHeader(s) ==
    [s EXCEPT !.buf["Backend"] = s.header \o @, !.header = <<>>]

\* finish_connect: SO_ERROR decides.
FinishConnect(s) ==
    IF s.rst["Backend"] THEN Destroy(s, "error")
    ELSE Refresh(InjectHeader([s EXCEPT !.state = "Established"]))

\* handle_session_event: each part runs only if the ones before it left a
\* session behind.
HandleSessionEvent(s, r, ev) ==
    LET a == IF s.state = "Connecting" /\ r = "Backend" /\ "OUT" \in ev
             THEN FinishConnect(s) ELSE s
        b == IF "OUT" \in ev THEN FlushWrite(a, r) ELSE a
        c == IF b.state # "Gone" /\ ev \cap {"IN", "RDHUP"} # {}
             THEN PumpRead(b, r) ELSE b
    IN  CASE s.state = "Gone" -> s
          [] s.state = "Connecting" /\ ev \cap {"ERR", "HUP"} # {} ->
                 Destroy(s, "error")
          [] OTHER ->
                 CASE a.state = "Gone" -> a
                   [] a.state # "Gone" /\ "ERR" \in ev -> Destroy(a, "error")
                   [] OTHER -> IF "HUP" \in ev THEN OnReadEof(c, r) ELSE c

-----------------------------------------------------------------------------
(***************************************************************************)
(* The kernel and the two peers (external).                                *)
(***************************************************************************)

\* What the kernel has to report for a socket: a reset is an error and a hang
\* up; a FIN is readable and RDHUP, and HUP once both directions are shut.
Condition(s, r) ==
    CASE s.state = "Gone" -> {}
      [] s.state # "Gone" /\ s.rst[r] -> {"IN", "OUT", "RDHUP", "HUP", "ERR"}
      [] s.state # "Gone" /\ ~s.rst[r] /\ r = "Backend" /\ ~s.up -> {}
      [] OTHER -> (IF s.rx[r] # <<>> \/ s.fin[r] THEN {"IN"} ELSE {})
                  \cup (IF Room(s, r) > 0 THEN {"OUT"} ELSE {})
                  \cup (IF s.fin[r] THEN {"RDHUP"} ELSE {})
                  \cup (IF s.fin[r] /\ s.shut[r] THEN {"HUP"} ELSE {})

\* Level triggered: the condition, masked by what is registered.
Ready(s, r) == Condition(s, r) \cap (s.watch[r] \cup {"RDHUP", "HUP", "ERR"})

\* spawn_session after try_admit: connect either succeeded at once or is in
\* progress, and set_watch registers both descriptors.
Spawned(established, proto) ==
    LET s == [state |-> IF established THEN "Established" ELSE "Connecting",
              header |-> IF proto THEN Header ELSE <<>>,
              buf |-> [r \in Roles |-> <<>>],
              eof |-> [r \in Roles |-> FALSE], shut |-> [r \in Roles |-> FALSE],
              watch |-> [r \in Roles |-> {}],
              rx |-> [r \in Roles |-> <<>>],
              fin |-> [r \in Roles |-> FALSE], rst |-> [r \in Roles |-> FALSE],
              load |-> [r \in Roles |-> 0], wire |-> [r \in Roles |-> <<>>],
              sent |-> [r \in Roles |-> 0],
              up |-> established, proto |-> proto, end |-> "none"]
    IN  Refresh(IF established THEN InjectHeader(s) ELSE s)

Init ==
    /\ \E established, proto \in BOOLEAN : ses = Spawned(established, proto)
    /\ batch = <<>>

\* epoll_wait: the ready descriptors, in any order.
EpollWait ==
    LET ready == {r \in Roles : Ready(ses, r) # {}}
    IN  /\ batch = <<>>
        /\ ready # {}
        /\ \E order \in SetToSeqs(ready) :
             batch' = [i \in 1..Len(order) |->
                         [role |-> order[i], ev |-> Ready(ses, order[i])]]
        /\ UNCHANGED ses

TakeEvent == batch # <<>> /\ batch' = Tail(batch)

\* handle_event on the next event of the batch, however stale it is by now.
HandleEvent ==
    /\ TakeEvent
    /\ ses' = HandleSessionEvent(ses, Head(batch).role, Head(batch).ev)

\* A peer can act while its connection is open and has not failed.
Reachable(r) ==
    ses.state # "Gone" /\ ~ses.rst[r] /\ (r = "Client" \/ ses.up)

PeerSend(r) ==
    /\ Reachable(r) /\ ~ses.fin[r] /\ ses.sent[r] < MaxSend
    /\ ses' = [ses EXCEPT !.sent[r] = @ + 1,
                          !.rx[r] = Append(@, ses.sent[r] + 1)]
    /\ UNCHANGED batch

PeerFin(r) ==
    /\ Reachable(r) /\ ~ses.fin[r]
    /\ ses' = [ses EXCEPT !.fin[r] = TRUE]
    /\ UNCHANGED batch

\* A reset by the peer, or the refusal or timeout of the connect.
PeerReset(r) ==
    /\ ses.state # "Gone" /\ ~ses.rst[r]
    /\ ses' = [ses EXCEPT !.rst[r] = TRUE]
    /\ UNCHANGED batch

PeerRead(r) ==
    /\ Reachable(r) /\ ses.load[r] > 0
    /\ ses' = [ses EXCEPT !.load[r] = @ - 1]
    /\ UNCHANGED batch

ConnectOk ==
    /\ ses.state = "Connecting" /\ ~ses.up /\ ~ses.rst["Backend"]
    /\ ses' = [ses EXCEPT !.up = TRUE]
    /\ UNCHANGED batch

Next ==
    \/ EpollWait
    \/ HandleEvent
    \/ \E r \in Roles : PeerSend(r)
    \/ \E r \in Roles : PeerFin(r)
    \/ \E r \in Roles : PeerReset(r)
    \/ \E r \in Roles : PeerRead(r)
    \/ ConnectOk

Spec == Init /\ [][Next]_vars

\* The event loop keeps running (only HandleEvent takes an event); a peer with
\* something to read reads it in the end; a connect attempt does not stay
\* undecided for ever.
Fairness ==
    /\ WF_vars(EpollWait)
    /\ WF_batch(TakeEvent)
    /\ \A r \in Roles : WF_vars(PeerRead(r))
    /\ WF_vars(ConnectOk)

LiveSpec == Spec /\ Fairness

-----------------------------------------------------------------------------
\* What the peer of r is to receive when everything that was sent arrives.
Expected(r) ==
    (IF r = "Backend" /\ ses.proto THEN Header ELSE <<>>)
    \o Stream(ses.sent[Peer(r)])

\* Nothing is lost, repeated or reordered inside a live session: what went out,
\* what is buffered, never more than kMaxBufferBytes, and what waits in the kernel
\* make up the stream, with the PROXY line before the first byte of the client.
\* Whatever way the session ended, each peer got a prefix of its stream.
RelayIsExact ==
    \A r \in Roles :
        /\ IsPrefix(ses.wire[r], Expected(r))
        /\ ses.state # "Gone" =>
              /\ Len(ses.buf[r]) <= MaxBuffer
              /\ ses.wire[r]
                   \o (IF r = "Backend" THEN ses.header ELSE <<>>)
                   \o ses.buf[r] \o ses.rx[Peer(r)] = Expected(r)

\* Between events the registered mask is the one desired_events asks for, so no
\* readiness the session waits for goes unreported (a lost wakeup).
WatchIsFresh ==
    ses.state # "Gone" =>
        \A r \in Roles : ses.watch[r] = Desired(ses, r)

\* The proxy never brings an error on itself: a session is torn down as failed
\* only if a connection really failed, so nothing is sent after SHUT_WR, and no
\* stale event of a batch is taken for an error.
NoSelfInflictedError ==
    ses.end = "error" => \E r \in Roles : ses.rst[r]

\* The end of a peer's stream reaches the other peer, or the session is gone,
\* whatever was buffered or blocked when it arrived.
EofPropagates ==
    \A r \in Roles :
        ses.fin[r] ~> (ses.shut[Peer(r)] \/ ses.state = "Gone")

\* Once both peers have closed, the session ends and gives its lease back.
SessionEnds ==
    (\A r \in Roles : ses.fin[r] \/ ses.rst[r]) ~> (ses.state = "Gone")

\* Every byte a peer sends is delivered, or the session is gone: back pressure
\* never wedges a direction.
BytesDelivered ==
    \A r \in Roles : \A n \in 1..MaxSend :
        (ses.sent[r] >= n) ~>
            \/ ses.state = "Gone"
            \/ \E i \in DOMAIN ses.wire[Peer(r)] : ses.wire[Peer(r)][i] = n

\* A session that ended without an error delivered every byte.
CompleteMeansDelivered ==
    ses.end = "complete" =>
        \A r \in Roles : ses.wire[r] = Expected(r)
=============================================================================
