------------------------------ MODULE Preamble ------------------------------
(***************************************************************************)
(* The PROXY v1 line between the two programs: proxy_server.cpp writes it  *)
(* in front of the client's bytes, and _ProxyPreambleProtocol (server.py)  *)
(* takes it off again, learns the client's address from it, and hands the  *)
(* connection to asyncssh.  TCP cuts the stream into pieces of any size,   *)
(* and ends it where it likes.                                             *)
(*                                                                         *)
(* A byte is a symbol.  "PROXY " is three of them, and what stands between *)
(* it and the line break is one: an address that parses, or another.       *)
(***************************************************************************)
EXTENDS Naturals, Sequences, SequencesExt

CONSTANTS Addresses,   \* client addresses a line can carry
          ProxyIp,     \* the peer address of the socket, _fallback_ip
          MaxLine,     \* _PROXY_MAX_LINE
          Headers,     \* bound: what the proxy writes first, if anything
          Messages     \* bound: what a client sends

Prefix == <<"P", "R", "R">>

\* The line of format_proxy_v1; another symbol than an address for UNKNOWN.
Line(a) == Prefix \o <<a, "CR", "LF">>

\* A line the proxy writes fits: 104 bytes at most, of 107.
ASSUME LineAssumption == MaxLine \in Nat /\ MaxLine >= Len(Prefix) + 3
ASSUME AddressAssumption ==
    ProxyIp \notin Addresses /\ "none" \notin Addresses \cup {ProxyIp}
ASSUME HeaderAssumption ==
    Headers \subseteq {<<>>} \cup {Line(a) : a \in Addresses \cup {"UNKNOWN"}}
ASSUME MessageAssumption == \A m \in Messages : m \in Seq({m[i] : i \in DOMAIN m})

VARIABLES header,    \* what the proxy wrote
          message,   \* what the client sends
          pos,       \* how much of header \o message has been received
          buf,       \* _buf
          ip,        \* the client_ip handed over, "none" before the hand-over
          inner,     \* bytes asyncssh has received
          conn       \* "open", "eof" or "lost", as the protocols were told

vars == <<header, message, pos, buf, ip, inner, conn>>

Stream == header \o message

Init ==
    /\ header \in Headers /\ message \in Messages
    /\ pos = 0 /\ buf = <<>> /\ ip = "none" /\ inner = <<>> /\ conn = "open"

\* Mutation: rfind for find.
LastBreak(b) ==
    LET at == {i \in 1..Len(b) - 1 : b[i] = "CR" /\ b[i + 1] = "LF"}
    IN  IF at = {} THEN 0 ELSE CHOOSE i \in at : \A j \in at : i >= j

\* The position of the first line break, or 0.
LineBreak(b) ==
    LET at == {i \in 1..Len(b) - 1 : b[i] = "CR" /\ b[i + 1] = "LF"}
    IN  IF at = {} THEN 0 ELSE CHOOSE i \in at : \A j \in at : i <= j

\* parse_proxy_v1_line; what does not parse leaves the peer's address.
Parsed(line) ==
    IF Len(line) = Len(Prefix) + 1 /\ Last(line) \in Addresses
    THEN Last(line) ELSE ProxyIp

Wait == [done |-> FALSE, ip |-> "none", leftover |-> <<>>]

Complete(a, left) == [done |-> TRUE, ip |-> a, leftover |-> left]

\* Mutation: the first piece has to hold the whole prefix.
HandoffAtOnce(b, force) ==
    LET i == LineBreak(b)
    IN  CASE b = <<>> -> Wait
          [] b # <<>> /\ ~IsPrefix(Prefix, b) -> Complete(ProxyIp, b)
          [] OTHER ->
               IF i = 0
               THEN IF force \/ Len(b) >= MaxLine THEN Complete(ProxyIp, b) ELSE Wait
               ELSE Complete(Parsed(SubSeq(b, 1, i - 1)), SubSeq(b, i + 2, Len(b)))

\* _try_handoff on what has arrived so far.
TryHandoff(b, force) ==
    LET i == LineBreak(b)
    IN  CASE b = <<>> -> Wait
          [] b # <<>> /\ Head(b) # Head(Prefix) -> Complete(ProxyIp, b)
          [] b # <<>> /\ Head(b) = Head(Prefix) /\ Len(b) < Len(Prefix) ->
               IF force THEN Complete(ProxyIp, b) ELSE Wait
          [] OTHER ->
               CASE ~IsPrefix(Prefix, b) -> Complete(ProxyIp, b)
                 [] IsPrefix(Prefix, b) /\ i = 0 ->
                      IF force \/ Len(b) >= MaxLine
                      THEN Complete(ProxyIp, b) ELSE Wait
                 [] OTHER -> Complete(Parsed(SubSeq(b, 1, i - 1)),
                                      SubSeq(b, i + 2, Len(b)))

\* Mutation: the bytes that came with the line are dropped with it.
HandOverForgets(h) ==
    /\ ip' = h.ip
    /\ inner' = <<>>
    /\ buf' = <<>>

\* _complete: the bytes behind the line go to asyncssh at once.
HandOver(h) ==
    /\ ip' = h.ip
    /\ inner' = h.leftover
    /\ buf' = <<>>

\* data_received with the next n bytes; after the hand-over they go through.
DataReceived(n) ==
    LET data == SubSeq(Stream, pos + 1, pos + n)
        h == TryHandoff(buf \o data, FALSE)
    IN  /\ conn = "open" /\ pos + n <= Len(Stream)
        /\ pos' = pos + n
        /\ \/ ip # "none" /\ inner' = inner \o data /\ UNCHANGED <<buf, ip>>
           \/ ip = "none" /\ h.done /\ HandOver(h)
           \/ ip = "none" /\ ~h.done /\ buf' = buf \o data /\ UNCHANGED <<ip, inner>>
        /\ UNCHANGED <<header, message, conn>>

\* Mutation: a connection that ends without a byte is left alone.
EofWithBytes ==
    LET h == TryHandoff(buf, TRUE)
    IN  /\ conn = "open" /\ pos = Len(Stream)
        /\ conn' = "eof"
        /\ IF ip = "none" /\ h.done THEN HandOver(h) ELSE UNCHANGED <<buf, ip, inner>>
        /\ UNCHANGED <<header, message, pos>>

\* eof_received: what has arrived must do, if anything has.
EofReceived ==
    LET h == IF buf = <<>> THEN Complete(ProxyIp, <<>>) ELSE TryHandoff(buf, TRUE)
    IN  /\ conn = "open" /\ pos = Len(Stream)
        /\ conn' = "eof"
        /\ IF ip = "none" /\ h.done THEN HandOver(h) ELSE UNCHANGED <<buf, ip, inner>>
        /\ UNCHANGED <<header, message, pos>>

\* connection_lost, at any moment.
ConnectionLost ==
    /\ conn # "lost"
    /\ conn' = "lost"
    /\ UNCHANGED <<header, message, pos, buf, ip, inner>>

Next ==
    \/ \E n \in 1..Len(Stream) : DataReceived(n)
    \/ EofReceived
    \/ ConnectionLost

\* What the peer sent arrives, and its end too, unless the connection is lost.
Spec ==
    /\ Init /\ [][Next]_vars
    /\ WF_vars(\E n \in 1..Len(Stream) : DataReceived(n))
    /\ WF_vars(EofReceived)

-----------------------------------------------------------------------------
\* The state is well formed; the address handed over is one that was parsed from
\* a line, or the peer's.
TypeOK ==
    /\ header \in Headers /\ message \in Messages
    /\ pos \in 0..Len(Stream)
    /\ ip \in Addresses \cup {ProxyIp, "none"}
    /\ conn \in {"open", "eof", "lost"}
    /\ IsPrefix(buf, Stream) /\ Len(inner) <= pos

\* What is received but not yet for asyncssh.
Rest == SubSeq(Stream, pos + 1, Len(Stream))

\* No byte is lost or repeated at the hand-over: before it all bytes are kept, and
\* after it asyncssh has the whole stream or what follows its first line.
HandOverIsExact ==
    IF ip = "none" THEN buf \o Rest = Stream /\ inner = <<>>
    ELSE /\ buf = <<>>
         /\ \/ inner \o Rest = Stream
            \/ inner \o Rest = SubSeq(Stream, LineBreak(Stream) + 2, Len(Stream))

\* A client behind the proxy is known by the address the proxy saw, and asyncssh
\* reads just what it sent: however the stream is cut, and whatever it sends, a
\* PROXY line of its own included.
ProxyIsBelieved ==
    header # <<>> /\ ip # "none" =>
        /\ ip = Parsed(SubSeq(header, 1, Len(header) - 2))
        /\ inner \o Rest = message

\* The pieces do not matter: the outcome is the one the whole stream would have
\* had in one piece, unless its first line is longer than the longest allowed.
PiecesDoNotMatter ==
    LET whole == TryHandoff(Stream, TRUE)
    IN  ip # "none" /\ Stream # <<>> /\ LineBreak(Stream) + 1 <= MaxLine =>
            ip = whole.ip /\ inner \o Rest = whole.leftover

\* A connection whose peer has finished reaches asyncssh, which sees the end,
\* though the line never came or was cut short.
EndIsSeen == <>(conn = "lost" \/ (conn = "eof" /\ ip # "none"))
=============================================================================
