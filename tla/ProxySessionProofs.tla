------------------------ MODULE ProxySessionProofs --------------------------
(***************************************************************************)
(* A relayed connection keeps its promises for buffers of any size and     *)
(* streams of any length.  The handlers are functions of the session, so   *)
(* each has a lemma: it keeps what is true of a session between two of     *)
(* them (Core), and leaves the registered masks up to date (Fresh).  The   *)
(* second part is about the process that serves the sessions, from main to *)
(* the tear-down.                                                          *)
(***************************************************************************)
EXTENDS ProxySession, ProxyLifecycle, SequenceTheorems, FiniteSetTheorems, TLAPS

Fields == {"state", "header", "buf", "eof", "shut", "watch", "rx", "fin", "rst",
           "load", "wire", "sent", "up", "proto", "end"}

\* The shape of a session: its fields, and a value for each role.
Shaped(s) ==
    /\ s = [f \in Fields |-> s[f]]
    /\ \A f \in {"buf", "eof", "shut", "watch", "rx", "fin", "rst", "load", "wire", "sent"} :
         s[f] = [r \in Roles |-> s[f][r]]

Typed(s) ==
    /\ s.state \in {"Connecting", "Established", "Closing", "Gone"}
    /\ s.header \in {<<>>, Header}
    /\ \A r \in Roles :
         /\ s.buf[r] \in Seq(Nat) /\ s.rx[r] \in Seq(Nat) /\ s.wire[r] \in Seq(Nat)
         /\ s.eof[r] \in BOOLEAN /\ s.shut[r] \in BOOLEAN
         /\ s.load[r] \in 0..SndBuf /\ s.sent[r] \in Nat

\* The line that is still to go in front of what is buffered for r.
Pending(s, r) == IF r = "Backend" THEN s.header ELSE <<>>

Due(s, r) ==
    (IF r = "Backend" /\ s.proto THEN Header ELSE <<>>) \o Stream(s.sent[Peer(r)])

\* What went out, what is buffered and what waits in the kernel is the stream.
Whole(s, r) ==
    s.wire[r] \o Pending(s, r) \o s.buf[r] \o s.rx[Peer(r)] = Due(s, r)

\* What holds of a session before and after each part of a handler.  Nothing is
\* buffered or shut before the backend is connected, and the PROXY line waits no
\* longer than that; a direction is shut down only when it has ended and drained.
Core(s) ==
    /\ Shaped(s)
    /\ Typed(s)
    /\ s.state = "Connecting" => \A r \in Roles : s.buf[r] = <<>> /\ ~s.eof[r] /\ ~s.shut[r]
    /\ s.state # "Connecting" => s.header = <<>>
    /\ \A r \in Roles : s.shut[r] => s.buf[r] = <<>> /\ s.eof[Peer(r)]
    /\ s.state # "Gone" => \A r \in Roles : Len(s.buf[r]) <= MaxBuffer /\ Whole(s, r)
    /\ \A r \in Roles : IsPrefix(s.wire[r], Due(s, r))
    /\ s.end = "error" => \E r \in Roles : s.rst[r]

Fresh(s) == s.state # "Gone" => \A r \in Roles : s.watch[r] = Desired(s, r)

\* What no handler takes back.
Grows(s, t) ==
    /\ t.rst = s.rst
    /\ \A r \in Roles : s.shut[r] => t.shut[r]
    /\ s.state # "Connecting" => t.state # "Connecting"

\* An event that waits in the batch was true when it was reported, and what it
\* said of failures and of the end has stayed true.
BatchInv ==
    /\ batch \in Seq([role : Roles, ev : SUBSET {"IN", "OUT", "RDHUP", "HUP", "ERR"}])
    /\ \A i \in DOMAIN batch :
         /\ "ERR" \in batch[i].ev => ses.rst[batch[i].role]
         /\ "HUP" \in batch[i].ev => ses.rst[batch[i].role] \/ ses.shut[batch[i].role]

IInv == Core(ses) /\ Fresh(ses) /\ BatchInv

-----------------------------------------------------------------------------
\* Concatenation, under a name the provers do not expand.
Cat(a, b) == a \o b

\* Joining the bytes of a direction is associative and has a neutral element.
LEMMA CatFacts ==
    /\ \A a, b \in Seq(Nat) : Cat(a, b) \in Seq(Nat)
    /\ \A a, b, c \in Seq(Nat) : Cat(Cat(a, b), c) = Cat(a, Cat(b, c))
    /\ \A a \in Seq(Nat) : Cat(a, <<>>) = a /\ Cat(<<>>, a) = a
<1>1. \A a, b \in Seq(Nat) : Cat(a, b) \in Seq(Nat)
  BY ConcatProperties DEF Cat
<1>2. ASSUME NEW a \in Seq(Nat), NEW b \in Seq(Nat), NEW c \in Seq(Nat)
      PROVE  Cat(Cat(a, b), c) = Cat(a, Cat(b, c))
  BY ConcatAssociative, SMTT(30) DEF Cat
<1>3. \A a \in Seq(Nat) : Cat(a, <<>>) = a /\ Cat(<<>>, a) = a
  BY ConcatEmptySeq DEF Cat
<1> QED BY <1>1, <1>2, <1>3

\* Joined bytes are as many as their parts.
LEMMA CatLen ==
    ASSUME NEW a \in Seq(Nat), NEW b \in Seq(Nat)
    PROVE  Cat(a, b) \in Seq(Nat) /\ Len(Cat(a, b)) = Len(a) + Len(b)
BY ConcatProperties DEF Cat

\* A sequence cut in two is the two pieces put together.
LEMMA Cut ==
    ASSUME NEW b \in Seq(Nat), NEW n \in 0..Len(b)
    PROVE  /\ SubSeq(b, 1, n) \in Seq(Nat) /\ SubSeq(b, n + 1, Len(b)) \in Seq(Nat)
           /\ Len(SubSeq(b, 1, n)) = n /\ Len(SubSeq(b, n + 1, Len(b))) = Len(b) - n
           /\ SubSeq(b, 1, n) \o SubSeq(b, n + 1, Len(b)) = b
           /\ n = 0 => SubSeq(b, 1, n) = <<>> /\ SubSeq(b, n + 1, Len(b)) = b
<1>0. Len(b) \in Nat /\ n \in Nat /\ n <= Len(b)
  BY LenProperties
<1>1. \A i \in 1..Len(b) : b[i] \in Nat
  BY ElementOfSeq
<1>2. SubSeq(b, 1, n) \in Seq(Nat) /\ Len(SubSeq(b, 1, n)) = n
  BY <1>0, <1>1, SubSeqProperties
<1>3. SubSeq(b, n + 1, Len(b)) \in Seq(Nat) /\ Len(SubSeq(b, n + 1, Len(b))) = Len(b) - n
  BY <1>0, <1>1, SubSeqProperties
<1>4. SubSeq(b, 1, Len(b)) = b
  BY SubSeqFull
<1>5. SubSeq(b, 1, n) \o SubSeq(b, n + 1, Len(b)) = b
  <2>1. 1 \in 1..Len(b) + 1 /\ n \in 1 - 1..Len(b) /\ Len(b) \in n..Len(b)
    BY <1>0
  <2> QED BY <2>1, <1>4, ConcatAdjacentSubSeq
<1>6. n = 0 => SubSeq(b, 1, n) = <<>> /\ SubSeq(b, n + 1, Len(b)) = b
  <2> SUFFICES ASSUME n = 0 PROVE SubSeq(b, 1, 0) = <<>> /\ SubSeq(b, 1, Len(b)) = b
    OBVIOUS
  <2>1. SubSeq(b, 1, 0) \in Seq(Nat) /\ Len(SubSeq(b, 1, 0)) = 0
    BY <1>2
  <2> QED BY <2>1, <1>4, EmptySeq
<1> QED BY <1>2, <1>3, <1>5, <1>6

\* flush_write: bytes go from the front of the buffer to the wire.
LEMMA Flushing ==
    ASSUME NEW w \in Seq(Nat), NEW h \in Seq(Nat), NEW b \in Seq(Nat), NEW x \in Seq(Nat),
           NEW n \in 0..Len(b), h = <<>> \/ n = 0
    PROVE  Cat(Cat(Cat(Cat(w, SubSeq(b, 1, n)), h), SubSeq(b, n + 1, Len(b))), x)
               = Cat(Cat(Cat(w, h), b), x)
<1> DEFINE b1 == SubSeq(b, 1, n)
           b2 == SubSeq(b, n + 1, Len(b))
<1>1. b1 \in Seq(Nat) /\ b2 \in Seq(Nat) /\ Cat(b1, b2) = b /\ (n = 0 => b1 = <<>>)
  BY Cut DEF Cat
<1> HIDE DEF b1, b2
<1>2. h = <<>> \/ b1 = <<>>
  BY <1>1
<1>3. Cat(Cat(Cat(w, b1), h), b2) = Cat(Cat(w, h), b)
  <2>1. CASE h = <<>>
    BY <1>1, <2>1, CatFacts
  <2>2. CASE b1 = <<>>
    BY <1>1, <2>2, CatFacts
  <2> QED BY <1>2, <2>1, <2>2
<1> QED BY <1>3 DEF b1, b2

\* pump_read: of the bytes in the kernel some go to the wire, if nothing is
\* buffered, and some to the end of the buffer.
LEMMA Pumping ==
    ASSUME NEW w \in Seq(Nat), NEW b \in Seq(Nat), NEW x \in Seq(Nat),
           NEW d \in 0..Len(x), NEW g \in d..Len(x), b = <<>> \/ d = 0
    PROVE  /\ Cat(Cat(Cat(w, SubSeq(x, 1, d)), Cat(b, SubSeq(x, d + 1, g))),
                  SubSeq(x, g + 1, Len(x))) = Cat(Cat(w, b), x)
           /\ SubSeq(x, 1, d) \in Seq(Nat)
           /\ SubSeq(x, d + 1, g) \in Seq(Nat) /\ Len(SubSeq(x, d + 1, g)) = g - d
           /\ SubSeq(x, g + 1, Len(x)) \in Seq(Nat)
<1> DEFINE x1 == SubSeq(x, 1, d)
           x2 == SubSeq(x, d + 1, g)
           x3 == SubSeq(x, g + 1, Len(x))
<1>0. Len(x) \in Nat /\ d \in Nat /\ g \in Nat /\ d <= g /\ g <= Len(x) /\ g \in 0..Len(x)
  BY LenProperties
<1>1. \A i \in 1..Len(x) : x[i] \in Nat
  BY ElementOfSeq
<1>2. x1 \in Seq(Nat) /\ (d = 0 => x1 = <<>>)
  BY Cut
<1>3. x2 \in Seq(Nat) /\ Len(x2) = g - d
  BY <1>0, <1>1, SubSeqProperties
<1>4. x3 \in Seq(Nat) /\ SubSeq(x, 1, g) \o x3 = x
  BY <1>0, Cut
<1>5. x1 \o x2 = SubSeq(x, 1, g)
  <2>1. 1 \in 1..Len(x) + 1 /\ d \in 1 - 1..Len(x) /\ g \in d..Len(x)
    BY <1>0
  <2> QED BY <2>1, ConcatAdjacentSubSeq
<1>6. Cat(Cat(x1, x2), x3) = x
  BY <1>4, <1>5 DEF Cat
<1> HIDE DEF x1, x2, x3
<1>7. b = <<>> \/ x1 = <<>>
  BY <1>2
<1>8. Cat(Cat(Cat(w, x1), Cat(b, x2)), x3) = Cat(Cat(w, b), x)
  <2>1. x1 \in Seq(Nat) /\ x2 \in Seq(Nat) /\ x3 \in Seq(Nat)
    BY <1>2, <1>3, <1>4
  <2>2. CASE b = <<>>
    BY <2>1, <2>2, <1>6, CatFacts
  <2>3. CASE x1 = <<>>
    BY <2>1, <2>3, <1>6, CatFacts
  <2> QED BY <1>7, <2>2, <2>3
<1> QED BY <1>2, <1>3, <1>4, <1>8 DEF x1, x2, x3

\* What went out is a prefix of the whole.
LEMMA PrefixOfWhole ==
    ASSUME NEW w \in Seq(Nat), NEW u \in Seq(Nat)
    PROVE  IsPrefix(w, w \o u)
<1>0. /\ w \o u \in Seq(Nat) /\ Len(w \o u) = Len(w) + Len(u)
      /\ Len(w) \in Nat /\ Len(u) \in Nat
  BY ConcatProperties, LenProperties
<1>1. CASE w = <<>>
  <2>1. <<>> \o u = u /\ Len(w) = 0
    BY <1>1, ConcatEmptySeq
  <2>2. SubSeq(u, 1, 0) = SubSeq(w, 1, 0)
    BY SubSeqEmpty
  <2> QED BY <1>0, <1>1, <2>1, <2>2 DEF IsPrefix
<1>2. CASE w # <<>>
  <2>1. Len(w) \in 1..Len(w) /\ 1 \in 1..Len(w)
    BY <1>0, <1>2, EmptySeq
  <2>2. SubSeq(w \o u, 1, Len(w)) = SubSeq(w, 1, Len(w))
    BY <2>1, SubSeqOfConcat1
  <2> QED BY <1>0, <2>2 DEF IsPrefix
<1> QED BY <1>1, <1>2

-----------------------------------------------------------------------------
(***************************************************************************)
(* The parts the handlers are made of.                                     *)
(***************************************************************************)

\* The other end of the other end is this one.
LEMMA PeerFacts ==
    \A r \in Roles : Peer(r) \in Roles /\ Peer(r) # r /\ Peer(Peer(r)) = r
BY DEF Roles, Peer

\* What is on its way from a peer is a sequence of bytes.
LEMMA PendingSeq ==
    ASSUME NEW s, Typed(s), NEW r \in Roles
    PROVE  Pending(s, r) \in Seq(Nat)
<1>1. <<>> \in Seq(Nat) /\ <<0>> \in Seq(Nat)
  OBVIOUS
<1>2. s.header \in Seq(Nat)
  BY <1>1 DEF Typed, Header
<1> QED BY <1>1, <1>2 DEF Pending

\* As long as nothing is missing, what went out is a prefix of the stream.
LEMMA WholePrefix ==
    ASSUME NEW s, Typed(s), NEW r \in Roles, Whole(s, r)
    PROVE  IsPrefix(s.wire[r], Due(s, r))
<1> DEFINE w == s.wire[r]
           h == Pending(s, r)
           b == s.buf[r]
           x == s.rx[Peer(r)]
           u == Cat(Cat(h, b), x)
<1>1. w \in Seq(Nat) /\ h \in Seq(Nat) /\ b \in Seq(Nat) /\ x \in Seq(Nat)
  BY PeerFacts, PendingSeq DEF Typed
<1>2. Due(s, r) = Cat(Cat(Cat(w, h), b), x)
  BY DEF Whole, Cat
<1> HIDE DEF w, h, b, x
<1>3. u \in Seq(Nat) /\ Cat(Cat(Cat(w, h), b), x) = Cat(w, u)
  BY <1>1, CatFacts
<1> HIDE DEF u
<1>4. IsPrefix(w, w \o u)
  BY <1>1, <1>3, PrefixOfWhole
<1>5. Due(s, r) = w \o u
  BY <1>2, <1>3 DEF Cat
<1> QED BY <1>4, <1>5 DEF w

\* A session is torn down as failed only if a connection has failed.
LEMMA Destroyed ==
    ASSUME NEW s, Core(s), NEW why, why = "error" => \E r \in Roles : s.rst[r]
    PROVE  /\ Core(Destroy(s, why)) /\ Fresh(Destroy(s, why))
           /\ Grows(s, Destroy(s, why)) /\ Destroy(s, why).state = "Gone"
<1> DEFINE t == Destroy(s, why)
<1>1. /\ Shaped(t) /\ t.state = "Gone" /\ t.end = why /\ t.header = <<>>
      /\ \A r \in Roles : t.buf[r] = <<>> /\ t.rx[r] = <<>> /\ t.load[r] = 0
      /\ \A f \in {"eof", "shut", "fin", "rst", "wire", "sent", "up", "proto"} : t[f] = s[f]
  BY ZenonT(60) DEF Destroy, Core, Shaped, Fields
<1> HIDE DEF t
<1>2. Typed(t)
  <2>1. <<>> \in Seq(Nat) /\ 0 \in 0..SndBuf
    BY NetworkAssumption
  <2>2. \A r \in Roles : /\ s.wire[r] \in Seq(Nat) /\ s.eof[r] \in BOOLEAN
                         /\ s.shut[r] \in BOOLEAN /\ s.sent[r] \in Nat
    BY DEF Core, Typed
  <2> QED BY <1>1, <2>1, <2>2 DEF Typed
<1>3. \A r \in Roles : IsPrefix(t.wire[r], Due(t, r))
  BY <1>1 DEF Core, Due
<1>4. \A r \in Roles : t.shut[r] => t.buf[r] = <<>> /\ t.eof[Peer(r)]
  BY <1>1 DEF Core
<1>5. Core(t)
  BY <1>1, <1>2, <1>3, <1>4 DEF Core
<1>6. Fresh(t) /\ Grows(s, t)
  BY <1>1 DEF Fresh, Grows
<1> QED BY <1>1, <1>5, <1>6 DEF t

\* refresh_events brings the masks up to date and touches nothing else.
LEMMA Refreshed ==
    ASSUME NEW s, Core(s)
    PROVE  /\ Core(Refresh(s)) /\ Fresh(Refresh(s)) /\ Grows(s, Refresh(s))
           /\ \A f \in Fields : f # "watch" => Refresh(s)[f] = s[f]
<1> DEFINE t == Refresh(s)
<1>1. /\ Shaped(t) /\ t.watch = [r \in Roles |-> Desired(s, r)]
      /\ \A f \in Fields : f # "watch" => t[f] = s[f]
  BY ZenonT(60) DEF Refresh, Core, Shaped, Fields
<1> HIDE DEF t
<1>2. /\ t.state = s.state /\ t.header = s.header /\ t.buf = s.buf /\ t.eof = s.eof
      /\ t.shut = s.shut /\ t.rx = s.rx /\ t.fin = s.fin /\ t.rst = s.rst /\ t.load = s.load
      /\ t.wire = s.wire /\ t.sent = s.sent /\ t.proto = s.proto /\ t.end = s.end
  BY <1>1 DEF Fields
<1>3. Typed(t)
  BY <1>2 DEF Core, Typed
<1>4. \A r \in Roles : (Whole(s, r) => Whole(t, r)) /\ Due(t, r) = Due(s, r)
  BY <1>2 DEF Whole, Pending, Due
<1>5. Core(t)
  BY <1>1, <1>2, <1>3, <1>4 DEF Core
<1>6. Fresh(t)
  BY <1>1, <1>2 DEF Fresh, Desired
<1>7. Grows(s, t)
  BY <1>2 DEF Grows
<1> QED BY <1>1, <1>5, <1>6, <1>7 DEF t

\* maybe_complete
LEMMA MaybeCompleted ==
    ASSUME NEW s, Core(s), Fresh(s)
    PROVE  /\ Core(MaybeComplete(s)) /\ Fresh(MaybeComplete(s)) /\ Grows(s, MaybeComplete(s))
<1>1. Core(Destroy(s, "complete")) /\ Fresh(Destroy(s, "complete"))
      /\ Grows(s, Destroy(s, "complete"))
  BY Destroyed
<1>2. Grows(s, s)
  BY DEF Grows
<1> QED BY <1>1, <1>2 DEF MaybeComplete

\* Two parts in a row.
LEMMA GrowsOn ==
    ASSUME NEW s, NEW t, NEW u, Grows(s, t), Grows(t, u)
    PROVE  Grows(s, u)
BY DEF Grows

\* The send loop of flush_write, for n bytes.
Written(s, d, n) ==
    [s EXCEPT !.buf[d] = SubSeq(@, n + 1, Len(@)),
              !.wire[d] = @ \o SubSeq(s.buf[d], 1, n),
              !.load[d] = @ + n]

\* flush_write: bytes that leave the head of a buffer for the socket are lost
\* neither on the way nor to the order.
LEMMA WrittenCore ==
    ASSUME NEW s, Core(s), s.state # "Gone", NEW d \in Roles,
           NEW n \in 0..Len(s.buf[d]), n <= Room(s, d)
    PROVE  Core(Written(s, d, n)) /\ Grows(s, Written(s, d, n))
<1> DEFINE t == Written(s, d, n)
           b == s.buf[d]
           w == s.wire[d]
<1>0. Shaped(s) /\ Typed(s) /\ b \in Seq(Nat) /\ w \in Seq(Nat) /\ s.load[d] \in 0..SndBuf
      /\ SndBuf \in Nat /\ MaxBuffer \in Nat
  BY BufferAssumption, NetworkAssumption DEF Core, Typed
<1>1. /\ Shaped(t)
      /\ t.buf[d] = SubSeq(b, n + 1, Len(b))
      /\ t.wire[d] = w \o SubSeq(b, 1, n)
      /\ t.load[d] = s.load[d] + n
      /\ \A r \in Roles : r # d => /\ t.buf[r] = s.buf[r] /\ t.wire[r] = s.wire[r]
                                   /\ t.load[r] = s.load[r]
      /\ \A f \in {"state", "header", "eof", "shut", "rx", "fin", "rst", "sent", "up",
                   "proto", "end"} : t[f] = s[f]
  BY <1>0, ZenonT(60) DEF Written, Shaped, Fields
<1> HIDE DEF t
<1>2. /\ t.state = s.state /\ t.header = s.header /\ t.eof = s.eof /\ t.shut = s.shut
      /\ t.rx = s.rx /\ t.rst = s.rst /\ t.sent = s.sent /\ t.proto = s.proto /\ t.end = s.end
  BY <1>1
<1>3. /\ SubSeq(b, 1, n) \in Seq(Nat) /\ SubSeq(b, n + 1, Len(b)) \in Seq(Nat)
      /\ Len(SubSeq(b, n + 1, Len(b))) = Len(b) - n
      /\ n = 0 => SubSeq(b, 1, n) = <<>> /\ SubSeq(b, n + 1, Len(b)) = b
  BY <1>0, Cut
<1>4. Len(b) \in Nat /\ n \in Nat /\ (b = <<>> => n = 0)
  BY <1>0, LenProperties
<1>5. t.wire[d] \in Seq(Nat)
  BY <1>0, <1>1, <1>3, ConcatProperties
<1>6. t.load[d] \in 0..SndBuf
  BY <1>0, <1>1, <1>4, SMTT(30) DEF Room
<1>7. Typed(t)
  <2>1. /\ t.state \in {"Connecting", "Established", "Closing", "Gone"}
        /\ t.header \in {<<>>, Header}
    BY <1>0, <1>2 DEF Typed
  <2>2. ASSUME NEW r \in Roles
        PROVE  /\ t.buf[r] \in Seq(Nat) /\ t.rx[r] \in Seq(Nat) /\ t.wire[r] \in Seq(Nat)
               /\ t.eof[r] \in BOOLEAN /\ t.shut[r] \in BOOLEAN
               /\ t.load[r] \in 0..SndBuf /\ t.sent[r] \in Nat
    <3>1. CASE r = d
      BY <3>1, <1>0, <1>1, <1>2, <1>3, <1>5, <1>6 DEF Typed
    <3>2. CASE r # d
      BY <3>2, <1>0, <1>1, <1>2 DEF Typed
    <3> QED BY <3>1, <3>2
  <2> QED BY <2>1, <2>2 DEF Typed
<1>8. Whole(t, d)
  <2> DEFINE h == Pending(s, d)
             x == s.rx[Peer(d)]
  <2>1. h \in Seq(Nat) /\ x \in Seq(Nat)
    BY <1>0, PendingSeq, PeerFacts DEF Typed
  <2>2. h = <<>> \/ n = 0
    BY <1>4 DEF Core, Pending
  <2>3. w \o h \o b \o x = Due(s, d)
    BY DEF Core, Whole
  <2>4. Pending(t, d) = h /\ Due(t, d) = Due(s, d)
    BY <1>2 DEF Pending, Due
  <2> HIDE DEF h, b, w
  <2>5. (w \o SubSeq(b, 1, n)) \o h \o SubSeq(b, n + 1, Len(b)) \o x = w \o h \o b \o x
    <3> HIDE DEF x
    <3>1. n \in 0..Len(b)
      BY DEF b
    <3>2. Cat(Cat(Cat(Cat(w, SubSeq(b, 1, n)), h), SubSeq(b, n + 1, Len(b))), x)
            = Cat(Cat(Cat(w, h), b), x)
      BY <3>1, <1>0, <2>1, <2>2, Flushing
    <3> QED BY <3>2 DEF Cat
  <2> QED BY <1>1, <1>2, <2>3, <2>4, <2>5 DEF Whole, b, w
<1>9. \A r \in Roles : Whole(t, r)
  <2> TAKE r \in Roles
  <2>1. ASSUME r # d PROVE Whole(t, r)
    <3>1. Whole(s, r)
      BY DEF Core
    <3> QED BY <2>1, <3>1, <1>1, <1>2 DEF Whole, Pending, Due
  <2> QED BY <1>8, <2>1
<1>10. \A r \in Roles : Len(t.buf[r]) <= MaxBuffer
  <2>1. Len(t.buf[d]) <= MaxBuffer
    <3>1. Len(b) <= MaxBuffer /\ Len(t.buf[d]) = Len(b) - n
      BY <1>1, <1>3 DEF Core
    <3> QED BY <3>1, <1>0, <1>4
  <2> QED BY <2>1, <1>1 DEF Core
<1>11. \A r \in Roles : t.buf[r] = <<>> \/ (s.buf[r] # <<>>)
  BY <1>1, <1>3, <1>4
<1>12. Core(t)
  <2>1. \A r \in Roles : IsPrefix(t.wire[r], Due(t, r))
    BY <1>7, <1>9, WholePrefix
  <2>2. t.state = "Connecting" => \A r \in Roles : t.buf[r] = <<>> /\ ~t.eof[r] /\ ~t.shut[r]
    BY <1>2, <1>11 DEF Core
  <2>3. \A r \in Roles : t.shut[r] => t.buf[r] = <<>> /\ t.eof[Peer(r)]
    BY <1>2, <1>11 DEF Core
  <2>4. t.state # "Connecting" => t.header = <<>>
    BY <1>2 DEF Core
  <2>5. t.end = "error" => \E r \in Roles : t.rst[r]
    BY <1>2 DEF Core
  <2> QED BY <1>1, <1>7, <1>9, <1>10, <2>1, <2>2, <2>3, <2>4, <2>5 DEF Core
<1>13. Grows(s, t)
  BY <1>2 DEF Grows
<1> QED BY <1>12, <1>13 DEF t

\* The end of flush_write: the buffer is empty, and an end of stream goes through.
Shutting(s, d) == [s EXCEPT !.shut[d] = @ \/ s.eof[Peer(d)]]

\* It sends the end of a stream behind the last byte of an empty buffer.
LEMMA ShuttingCore ==
    ASSUME NEW s, Core(s), Fresh(s), NEW d \in Roles, s.buf[d] = <<>>
    PROVE  Core(Shutting(s, d)) /\ Fresh(Shutting(s, d)) /\ Grows(s, Shutting(s, d))
<1> DEFINE t == Shutting(s, d)
<1>0. Shaped(s) /\ Typed(s)
  BY DEF Core
<1>1. /\ Shaped(t)
      /\ t.shut[d] = (s.shut[d] \/ s.eof[Peer(d)])
      /\ \A r \in Roles : r # d => t.shut[r] = s.shut[r]
      /\ \A f \in Fields : f # "shut" => t[f] = s[f]
  BY <1>0 DEF Shutting, Shaped, Fields
<1> HIDE DEF t
<1>2. /\ t.state = s.state /\ t.header = s.header /\ t.buf = s.buf /\ t.eof = s.eof
      /\ t.watch = s.watch /\ t.rx = s.rx /\ t.rst = s.rst /\ t.load = s.load
      /\ t.wire = s.wire /\ t.sent = s.sent /\ t.proto = s.proto /\ t.end = s.end
  BY <1>1 DEF Fields
<1>3. \A r \in Roles : t.shut[r] \in BOOLEAN /\ (s.shut[r] => t.shut[r])
  BY <1>0, <1>1 DEF Typed
<1>4. \A r \in Roles : t.shut[r] => t.buf[r] = <<>> /\ t.eof[Peer(r)]
  <2> TAKE r \in Roles
  <2>1. CASE r = d
    BY <2>1, <1>0, <1>1, <1>2, PeerFacts DEF Core, Typed
  <2>2. CASE r # d
    BY <2>2, <1>1, <1>2 DEF Core
  <2> QED BY <2>1, <2>2
<1>5. Typed(t)
  BY <1>0, <1>2, <1>3 DEF Typed
<1>6. t.state = "Connecting" => \A r \in Roles : t.buf[r] = <<>> /\ ~t.eof[r] /\ ~t.shut[r]
  <2> SUFFICES ASSUME s.state = "Connecting", NEW r \in Roles
               PROVE  t.buf[r] = <<>> /\ ~t.eof[r] /\ ~t.shut[r]
    BY <1>2
  <2>1. \A q \in Roles : s.buf[q] = <<>> /\ ~s.eof[q] /\ ~s.shut[q]
    BY DEF Core
  <2> QED BY <2>1, <1>2, <1>4, PeerFacts
<1>7. \A r \in Roles : (Whole(s, r) => Whole(t, r)) /\ Due(t, r) = Due(s, r)
  BY <1>2 DEF Whole, Pending, Due
<1>8. Core(t)
  BY <1>1, <1>2, <1>4, <1>5, <1>6, <1>7 DEF Core
<1>9. Fresh(t)
  BY <1>2 DEF Fresh, Desired
<1>10. Grows(s, t)
  BY <1>2, <1>3 DEF Grows
<1> QED BY <1>8, <1>9, <1>10 DEF t

\* How much flush_write can send.
LEMMA LeastFacts ==
    ASSUME NEW s, Core(s), NEW d \in Roles, NEW m \in Nat
    PROVE  /\ Room(s, d) \in Nat
           /\ Least(m, Room(s, d)) \in 0..m /\ Least(m, Room(s, d)) <= Room(s, d)
<1>1. s.load[d] \in 0..SndBuf /\ SndBuf \in Nat
  BY NetworkAssumption DEF Core, Typed
<1>2. Room(s, d) \in Nat
  BY <1>1 DEF Room
<1> QED BY <1>2 DEF Least

\* flush_write sends nothing after a SHUT_WR of its own, as that waits for the
\* buffer to drain: it fails only on a connection that failed.
LEMMA FlushWritten ==
    ASSUME NEW s, Core(s), s.state # "Gone", NEW d \in Roles
    PROVE  Core(FlushWrite(s, d)) /\ Fresh(FlushWrite(s, d)) /\ Grows(s, FlushWrite(s, d))
<1> DEFINE n == Least(Len(s.buf[d]), Room(s, d))
           v == Written(s, d, n)
           t == Refresh(v)
           u == Shutting(t, d)
<1>1. FlushWrite(s, d) = IF s.buf[d] # <<>> /\ SendFails(s, d) THEN Destroy(s, "error")
                         ELSE IF t.buf[d] # <<>> THEN t
                         ELSE MaybeComplete(u)
  BY DEF FlushWrite, Written, Shutting
<1>2. n \in 0..Len(s.buf[d]) /\ n <= Room(s, d)
  <2>1. Len(s.buf[d]) \in Nat
    BY LenProperties DEF Core, Typed
  <2> QED BY <2>1, LeastFacts
<1> HIDE DEF n
<1>3. Core(v) /\ Grows(s, v)
  BY <1>2, WrittenCore
<1> HIDE DEF v
<1>4. Core(t) /\ Fresh(t) /\ Grows(v, t)
  BY <1>3, Refreshed
<1> HIDE DEF t
<1>5. Grows(s, t)
  BY <1>3, <1>4, GrowsOn
<1>6. ASSUME t.buf[d] = <<>>
      PROVE  Core(MaybeComplete(u)) /\ Fresh(MaybeComplete(u)) /\ Grows(s, MaybeComplete(u))
  <2>1. Core(u) /\ Fresh(u) /\ Grows(t, u)
    BY <1>4, <1>6, ShuttingCore
  <2> HIDE DEF u
  <2>2. Core(MaybeComplete(u)) /\ Fresh(MaybeComplete(u)) /\ Grows(u, MaybeComplete(u))
    BY <2>1, MaybeCompleted
  <2> QED BY <1>5, <2>1, <2>2, GrowsOn
<1>7. ASSUME s.buf[d] # <<>>, SendFails(s, d)
      PROVE  /\ Core(Destroy(s, "error")) /\ Fresh(Destroy(s, "error"))
             /\ Grows(s, Destroy(s, "error"))
  <2>1. s.rst[d]
    BY <1>7 DEF SendFails, Core
  <2> QED BY <2>1, Destroyed
<1> HIDE DEF u
<1> QED BY <1>1, <1>4, <1>5, <1>6, <1>7

\* The beginning of on_read_eof.
Ended(s, r) == [s EXCEPT !.eof[r] = TRUE, !.state = "Closing"]

\* on_read_eof marks a direction as read and takes no byte from it.
LEMMA EndedCore ==
    ASSUME NEW s, Core(s), s.state # "Gone", s.state # "Connecting", NEW r \in Roles
    PROVE  Core(Ended(s, r)) /\ Grows(s, Ended(s, r)) /\ Ended(s, r).state = "Closing"
<1> DEFINE t == Ended(s, r)
<1>0. Shaped(s) /\ Typed(s)
  BY DEF Core
<1>1. /\ Shaped(t)
      /\ t.eof[r] = TRUE /\ t.state = "Closing"
      /\ \A q \in Roles : q # r => t.eof[q] = s.eof[q]
      /\ \A f \in Fields : f # "eof" /\ f # "state" => t[f] = s[f]
  BY <1>0 DEF Ended, Shaped, Fields
<1> HIDE DEF t
<1>2. /\ t.header = s.header /\ t.buf = s.buf /\ t.shut = s.shut
      /\ t.rx = s.rx /\ t.rst = s.rst /\ t.load = s.load
      /\ t.wire = s.wire /\ t.sent = s.sent /\ t.proto = s.proto /\ t.end = s.end
  BY <1>1 DEF Fields
<1>3. \A q \in Roles : t.eof[q] \in BOOLEAN /\ (s.eof[q] => t.eof[q])
  BY <1>0, <1>1 DEF Typed
<1>4. Typed(t)
  BY <1>0, <1>1, <1>2, <1>3 DEF Typed
<1>5. \A q \in Roles : (Whole(s, q) => Whole(t, q)) /\ Due(t, q) = Due(s, q)
  BY <1>2 DEF Whole, Pending, Due
<1>6. \A q \in Roles : t.shut[q] => t.buf[q] = <<>> /\ t.eof[Peer(q)]
  BY <1>2, <1>3, PeerFacts DEF Core
<1>7. Core(t)
  BY <1>1, <1>2, <1>4, <1>5, <1>6 DEF Core
<1>8. Grows(s, t)
  BY <1>1, <1>2 DEF Grows
<1> QED BY <1>1, <1>7, <1>8 DEF t

\* on_read_eof
LEMMA ReadEofHandled ==
    ASSUME NEW s, Core(s), Fresh(s), s.state # "Connecting", NEW r \in Roles
    PROVE  Core(OnReadEof(s, r)) /\ Fresh(OnReadEof(s, r)) /\ Grows(s, OnReadEof(s, r))
<1> DEFINE e == Ended(s, r)
           t == FlushWrite(e, Peer(r))
           u == Refresh(t)
           m == MaybeComplete(u)
<1>1. /\ s.state = "Gone" => OnReadEof(s, r) = s
      /\ s.state # "Gone" /\ s.eof[r] => OnReadEof(s, r) = MaybeComplete(s)
      /\ s.state # "Gone" /\ ~s.eof[r] /\ t.state = "Gone" => OnReadEof(s, r) = t
      /\ s.state # "Gone" /\ ~s.eof[r] /\ t.state # "Gone" => OnReadEof(s, r) = m
  BY DEF OnReadEof, Ended
<1>2. Grows(s, s)
  BY DEF Grows
<1>3. Core(MaybeComplete(s)) /\ Fresh(MaybeComplete(s)) /\ Grows(s, MaybeComplete(s))
  BY MaybeCompleted
<1>4. ASSUME s.state # "Gone"
      PROVE  /\ Core(t) /\ Fresh(t) /\ Grows(s, t)
             /\ Core(m) /\ Fresh(m) /\ Grows(s, m)
  <2>1. Core(e) /\ Grows(s, e) /\ e.state = "Closing"
    BY <1>4, EndedCore
  <2> HIDE DEF e
  <2>2. Core(t) /\ Fresh(t) /\ Grows(e, t)
    BY <2>1, PeerFacts, FlushWritten
  <2> HIDE DEF t
  <2>3. Core(u) /\ Fresh(u) /\ Grows(t, u)
    BY <2>2, Refreshed
  <2> HIDE DEF u
  <2>4. Core(m) /\ Fresh(m) /\ Grows(u, m)
    BY <2>3, MaybeCompleted
  <2>5. Grows(s, t)
    BY <2>1, <2>2, GrowsOn
  <2>6. Grows(s, u)
    BY <2>3, <2>5, GrowsOn
  <2>7. Grows(s, m)
    BY <2>4, <2>6, GrowsOn
  <2> QED BY <2>2, <2>4, <2>5, <2>7
<1> HIDE DEF e, t, u, m
<1>5. CASE s.state = "Gone"
  BY <1>1, <1>2, <1>5
<1>6. CASE s.state # "Gone" /\ s.eof[r]
  BY <1>1, <1>3, <1>6
<1>7. CASE s.state # "Gone" /\ ~s.eof[r]
  BY <1>1, <1>4, <1>7
<1> QED BY <1>5, <1>6, <1>7

\* The recv loop of pump_read.
Taken(s, r, direct, stored) ==
    [s EXCEPT !.rx[r] = SubSeq(@, direct + stored + 1, Len(@)),
              !.wire[Peer(r)] = @ \o SubSeq(s.rx[r], 1, direct),
              !.load[Peer(r)] = @ + direct,
              !.buf[Peer(r)] = @ \o SubSeq(s.rx[r], direct + 1, direct + stored)]

\* pump_read: the bytes sent at once and the bytes stored behind them are the
\* next ones of the peer, and the buffer stays within its limit.
LEMMA TakenCore ==
    ASSUME NEW s, Core(s), s.state # "Gone", s.state # "Connecting",
           NEW r \in Roles, ~s.eof[r],
           NEW direct \in Nat, NEW stored \in Nat, direct + stored <= Len(s.rx[r]),
           direct <= Room(s, Peer(r)), s.buf[Peer(r)] = <<>> \/ direct = 0,
           Len(s.buf[Peer(r)]) + stored <= MaxBuffer
    PROVE  Core(Taken(s, r, direct, stored)) /\ Grows(s, Taken(s, r, direct, stored))
<1> DEFINE t == Taken(s, r, direct, stored)
           d == Peer(r)
           got == direct + stored
           b == s.buf[d]
           w == s.wire[d]
           x == s.rx[r]
<1>0. /\ Shaped(s) /\ Typed(s) /\ d \in Roles /\ d # r /\ Peer(d) = r
      /\ b \in Seq(Nat) /\ w \in Seq(Nat) /\ x \in Seq(Nat) /\ s.load[d] \in 0..SndBuf
      /\ SndBuf \in Nat /\ MaxBuffer \in Nat /\ s.header = <<>>
  BY PeerFacts, BufferAssumption, NetworkAssumption DEF Core, Typed
<1>1. /\ Shaped(t)
      /\ t.rx[r] = SubSeq(x, got + 1, Len(x))
      /\ t.wire[d] = w \o SubSeq(x, 1, direct)
      /\ t.load[d] = s.load[d] + direct
      /\ t.buf[d] = b \o SubSeq(x, direct + 1, got)
      /\ t.rx[d] = s.rx[d] /\ t.wire[r] = s.wire[r]
      /\ t.load[r] = s.load[r] /\ t.buf[r] = s.buf[r]
      /\ \A f \in {"state", "header", "eof", "shut", "fin", "rst", "sent", "up",
                   "proto", "end"} : t[f] = s[f]
  <2> HIDE DEF d
  <2> QED BY <1>0, ZenonT(60) DEF Taken, Shaped, Fields, d
<1> HIDE DEF t
<1>2. /\ t.state = s.state /\ t.header = s.header /\ t.eof = s.eof /\ t.shut = s.shut
      /\ t.rst = s.rst /\ t.sent = s.sent /\ t.proto = s.proto /\ t.end = s.end
  BY <1>1
<1>3. \A q \in Roles : q = r \/ q = d
  BY <1>0 DEF Roles
<1>4. /\ Len(x) \in Nat /\ Len(b) \in Nat /\ got \in Nat
      /\ direct \in 0..Len(x) /\ got \in direct..Len(x) /\ got - direct = stored
  BY <1>0, LenProperties
<1>5. /\ Cat(Cat(Cat(w, SubSeq(x, 1, direct)), Cat(b, SubSeq(x, direct + 1, got))),
             SubSeq(x, got + 1, Len(x))) = Cat(Cat(w, b), x)
      /\ SubSeq(x, 1, direct) \in Seq(Nat)
      /\ SubSeq(x, direct + 1, got) \in Seq(Nat) /\ Len(SubSeq(x, direct + 1, got)) = got - direct
      /\ SubSeq(x, got + 1, Len(x)) \in Seq(Nat)
  <2>1. b = <<>> \/ direct = 0
    OBVIOUS
  <2> HIDE DEF b, w, x, got
  <2> QED BY <2>1, <1>0, <1>4, Pumping, SMTT(30)
<1>6. t.wire[d] \in Seq(Nat)
  BY <1>0, <1>1, <1>5, ConcatProperties
<1>7. t.buf[d] \in Seq(Nat) /\ Len(t.buf[d]) = Len(b) + stored
  <2> DEFINE z == SubSeq(x, direct + 1, got)
  <2>1. z \in Seq(Nat) /\ Len(z) = stored /\ t.buf[d] = Cat(b, z)
    BY <1>1, <1>4, <1>5 DEF Cat
  <2> HIDE DEF z, b
  <2>2. Cat(b, z) \in Seq(Nat) /\ Len(Cat(b, z)) = Len(b) + Len(z)
    BY <1>0, <2>1, CatLen
  <2> QED BY <2>1, <2>2
<1>8. t.load[d] \in 0..SndBuf
  <2>1. direct <= SndBuf - s.load[d]
    BY DEF Room
  <2> DEFINE l == s.load[d]
  <2>2. l \in 0..SndBuf /\ direct <= SndBuf - l /\ t.load[d] = l + direct
    BY <1>0, <1>1, <2>1
  <2> HIDE DEF l
  <2>3. l + direct \in 0..SndBuf
    BY <1>0, <2>2
  <2> QED BY <2>2, <2>3
<1>9. Typed(t)
  <2>1. /\ t.state \in {"Connecting", "Established", "Closing", "Gone"}
        /\ t.header \in {<<>>, Header}
    BY <1>0, <1>2 DEF Typed
  <2>2. ASSUME NEW q \in Roles
        PROVE  /\ t.buf[q] \in Seq(Nat) /\ t.rx[q] \in Seq(Nat) /\ t.wire[q] \in Seq(Nat)
               /\ t.eof[q] \in BOOLEAN /\ t.shut[q] \in BOOLEAN
               /\ t.load[q] \in 0..SndBuf /\ t.sent[q] \in Nat
    <3>1. CASE q = d
      BY <3>1, <1>0, <1>1, <1>2, <1>6, <1>7, <1>8 DEF Typed
    <3>2. CASE q = r
      BY <3>2, <1>0, <1>1, <1>2, <1>5 DEF Typed
    <3> QED BY <1>3, <3>1, <3>2
  <2> QED BY <2>1, <2>2 DEF Typed
<1>10. Whole(t, d)
  <2>1. Pending(s, d) = <<>> /\ Pending(t, d) = <<>> /\ Due(t, d) = Due(s, d)
    BY <1>0, <1>2 DEF Pending, Due
  <2>2. Cat(Cat(Cat(w, <<>>), b), x) = Due(s, d)
    <3>1. Whole(s, d)
      BY <1>0 DEF Core
    <3> QED BY <3>1, <2>1, <1>0 DEF Whole, Cat
  <2>3. Cat(w, <<>>) = w
    BY <1>0, CatFacts
  <2>4. Cat(t.wire[d], <<>>) = t.wire[d]
    BY <1>6, CatFacts
  <2>5. Cat(Cat(t.wire[d], t.buf[d]), t.rx[r]) = Cat(Cat(w, b), x)
    BY <1>1, <1>5 DEF Cat
  <2>6. Cat(Cat(Cat(t.wire[d], <<>>), t.buf[d]), t.rx[r]) = Due(t, d)
    BY <2>1, <2>2, <2>3, <2>4, <2>5
  <2> QED BY <2>1, <2>6, <1>0 DEF Whole, Cat
<1>11. Whole(t, r)
  <2>1. Whole(s, r)
    BY DEF Core
  <2> QED BY <2>1, <1>1, <1>2 DEF Whole, Pending, Due
<1>12. \A q \in Roles : Whole(t, q) /\ Len(t.buf[q]) <= MaxBuffer
  <2>1. Len(t.buf[r]) <= MaxBuffer
    BY <1>1 DEF Core
  <2> QED BY <1>3, <1>7, <1>10, <1>11, <2>1
<1>13. \A q \in Roles : t.shut[q] => t.buf[q] = <<>> /\ t.eof[Peer(q)]
  <2>1. ~s.shut[d]
    BY <1>0 DEF Core
  <2>2. s.shut[r] => t.buf[r] = <<>> /\ t.eof[Peer(r)]
    BY <1>1, <1>2 DEF Core
  <2> QED BY <2>1, <2>2, <1>2, <1>3
<1>14. Core(t)
  <2>1. \A q \in Roles : IsPrefix(t.wire[q], Due(t, q))
    BY <1>9, <1>12, WholePrefix
  <2>2. t.end = "error" => \E q \in Roles : t.rst[q]
    BY <1>2 DEF Core
  <2> QED BY <1>0, <1>1, <1>2, <1>9, <1>12, <1>13, <2>1, <2>2 DEF Core
<1>15. Grows(s, t)
  BY <1>2 DEF Grows
<1> QED BY <1>14, <1>15 DEF t

\* pump_read: what Direct and Stored allow keeps within the bounds of the buffer
\* and of the kernel, and no byte overtakes a buffered one.
LEMMA ReadPumped ==
    ASSUME NEW s, Core(s), Fresh(s), s.state # "Gone", NEW r \in Roles
    PROVE  Core(PumpRead(s, r)) /\ Fresh(PumpRead(s, r)) /\ Grows(s, PumpRead(s, r))
<1> DEFINE d == Peer(r)
           direct == Direct(s, r)
           stored == Stored(s, r, direct)
           t == Taken(s, r, direct, stored)
           u == Refresh(t)
<1>0. /\ Shaped(s) /\ Typed(s) /\ d \in Roles /\ Peer(d) = r
      /\ s.buf[d] \in Seq(Nat) /\ s.rx[r] \in Seq(Nat) /\ MaxBuffer \in Nat
      /\ Len(s.buf[d]) <= MaxBuffer
  BY PeerFacts, BufferAssumption DEF Core, Typed
<1>1. CASE s.state = "Connecting" \/ s.eof[r]
  <2>1. PumpRead(s, r) = s /\ Grows(s, s)
    BY <1>1 DEF PumpRead, Grows
  <2> QED BY <2>1
<1>2. CASE ~(s.state = "Connecting" \/ s.eof[r])
  <2>1. /\ Len(s.buf[d]) >= MaxBuffer => PumpRead(s, r) = Refresh(s)
        /\ ~(Len(s.buf[d]) >= MaxBuffer) =>
             \/ s.rx[r] # <<>> /\ SendFails(s, d) /\ PumpRead(s, r) = Destroy(s, "error")
             \/ PumpRead(s, r) = u
             \/ s.rst[r] /\ PumpRead(s, r) = Destroy(t, "error")
             \/ PumpRead(s, r) = OnReadEof(u, r)
    BY <1>2 DEF PumpRead, Pumped, Taken
  <2>2. Len(s.buf[d]) \in Nat /\ Len(s.rx[r]) \in Nat
    BY <1>0, LenProperties
  <2>3. /\ direct \in 0..Len(s.rx[r]) /\ direct <= Room(s, d)
        /\ s.buf[d] = <<>> \/ direct = 0
    <3>1. /\ Room(s, d) \in Nat
          /\ Least(Len(s.rx[r]), Room(s, d)) \in 0..Len(s.rx[r])
          /\ Least(Len(s.rx[r]), Room(s, d)) <= Room(s, d)
      BY <1>0, <2>2, LeastFacts
    <3> QED BY <2>2, <3>1 DEF Direct
  <2> HIDE DEF direct
  <2>4. /\ stored \in Nat /\ direct + stored <= Len(s.rx[r])
        /\ Len(s.buf[d]) + stored <= MaxBuffer
    <3> DEFINE a == Len(s.rx[r])
               b == Len(s.buf[d])
    <3>1. stored = Least(a - direct, MaxBuffer - b)
      BY DEF Stored
    <3>2. a \in Nat /\ b \in Nat /\ direct \in 0..a /\ b <= MaxBuffer
      BY <1>0, <2>2, <2>3
    <3> HIDE DEF a, b, stored
    <3>3. stored \in Nat /\ direct + stored <= a /\ b + stored <= MaxBuffer
      BY <1>0, <3>1, <3>2 DEF Least
    <3> QED BY <3>3 DEF a, b
  <2> HIDE DEF stored
  <2>5. Core(t) /\ Grows(s, t)
    <3>1. direct \in Nat
      BY <2>2, <2>3
    <3> QED BY <1>2, <2>3, <2>4, <3>1, TakenCore
  <2>6. t.state = s.state /\ t.rst = s.rst
    BY <1>0 DEF Taken, Shaped, Fields
  <2> HIDE DEF t
  <2>7. Core(u) /\ Fresh(u) /\ Grows(t, u) /\ u.state = t.state
    <3>1. \A f \in Fields : f # "watch" => u[f] = t[f]
      BY <2>5, Refreshed
    <3>2. u.state = t.state
      BY <3>1 DEF Fields
    <3> QED BY <2>5, <3>2, Refreshed
  <2> HIDE DEF u
  <2>8. Grows(s, u)
    BY <2>5, <2>7, GrowsOn
  <2>9. Core(Refresh(s)) /\ Fresh(Refresh(s)) /\ Grows(s, Refresh(s))
    BY Refreshed
  <2>10. ASSUME SendFails(s, d)
         PROVE  /\ Core(Destroy(s, "error")) /\ Fresh(Destroy(s, "error"))
                /\ Grows(s, Destroy(s, "error"))
    <3>1. ~s.shut[d]
      BY <1>0, <1>2 DEF Core
    <3>2. s.rst[d]
      BY <3>1, <2>10 DEF SendFails
    <3> QED BY <3>2, <1>0, Destroyed
  <2>11. ASSUME s.rst[r]
         PROVE  /\ Core(Destroy(t, "error")) /\ Fresh(Destroy(t, "error"))
                /\ Grows(s, Destroy(t, "error"))
    <3>1. \E q \in Roles : t.rst[q]
      BY <2>6, <2>11
    <3>2. /\ Core(Destroy(t, "error")) /\ Fresh(Destroy(t, "error"))
          /\ Grows(t, Destroy(t, "error"))
      BY <3>1, <2>5, Destroyed
    <3> QED BY <3>2, <2>5, GrowsOn
  <2>12. Core(OnReadEof(u, r)) /\ Fresh(OnReadEof(u, r)) /\ Grows(s, OnReadEof(u, r))
    <3>1. u.state # "Connecting"
      BY <1>2, <2>6, <2>7
    <3>2. Core(OnReadEof(u, r)) /\ Fresh(OnReadEof(u, r)) /\ Grows(u, OnReadEof(u, r))
      BY <3>1, <2>7, ReadEofHandled
    <3> QED BY <3>2, <2>8, GrowsOn
  <2>13. CASE Len(s.buf[d]) >= MaxBuffer
    BY <2>1, <2>9, <2>13
  <2>14. CASE ~(Len(s.buf[d]) >= MaxBuffer)
    BY <2>1, <2>7, <2>8, <2>10, <2>11, <2>12, <2>14
  <2> QED BY <2>13, <2>14
<1> QED BY <1>1, <1>2

\* inject_proxy_header in the state that finish_connect leaves.
Connected(s) == InjectHeader([s EXCEPT !.state = "Established"])

\* finish_connect puts the PROXY line in front of the stream and takes nothing from it.
LEMMA ConnectedCore ==
    ASSUME NEW s, Core(s), s.state = "Connecting"
    PROVE  /\ Core(Connected(s)) /\ Grows(s, Connected(s))
           /\ Connected(s).state = "Established" /\ Connected(s).rst = s.rst
<1> DEFINE t == Connected(s)
           b == s.buf["Backend"]
<1>0. Shaped(s) /\ Typed(s) /\ "Backend" \in Roles
  BY DEF Core, Roles
<1>1. /\ Shaped(t) /\ t.state = "Established" /\ t.header = <<>>
      /\ t.buf["Backend"] = s.header \o b
      /\ \A r \in Roles : r # "Backend" => t.buf[r] = s.buf[r]
      /\ \A f \in Fields : f \notin {"state", "header", "buf"} => t[f] = s[f]
  BY <1>0, ZenonT(60) DEF Connected, InjectHeader, Shaped, Fields
<1> HIDE DEF t
<1>2. /\ t.eof = s.eof /\ t.shut = s.shut /\ t.rx = s.rx /\ t.rst = s.rst /\ t.load = s.load
      /\ t.wire = s.wire /\ t.sent = s.sent /\ t.proto = s.proto /\ t.end = s.end
  BY <1>1 DEF Fields
<1>3. \A r \in Roles : s.buf[r] = <<>> /\ ~s.eof[r] /\ ~s.shut[r]
  BY DEF Core
<1>4. s.header \in Seq(Nat) /\ Len(s.header) <= 1 /\ <<>> \in Seq(Nat)
  <2>1. <<>> \in Seq(Nat) /\ <<0>> \in Seq(Nat) /\ Len(<<>>) <= 1 /\ Len(<<0>>) <= 1
    OBVIOUS
  <2> QED BY <2>1, <1>0 DEF Typed, Header
<1>5. t.buf["Backend"] = s.header
  BY <1>0, <1>1, <1>3, <1>4, ConcatEmptySeq
<1>6. Typed(t)
  <2>1. \A r \in Roles : t.buf[r] \in Seq(Nat)
    BY <1>0, <1>1, <1>4, <1>5 DEF Typed
  <2> QED BY <1>0, <1>1, <1>2, <2>1 DEF Typed
<1>7. \A r \in Roles : Len(t.buf[r]) <= MaxBuffer
  <2>1. MaxBuffer \in Nat /\ MaxBuffer >= 1
    BY BufferAssumption
  <2>2. Len(s.header) \in Nat
    BY <1>4, LenProperties
  <2>3. Len(t.buf["Backend"]) <= MaxBuffer
    BY <1>4, <1>5, <2>1, <2>2
  <2> QED BY <2>3, <1>1 DEF Core
<1>8. ASSUME NEW r \in Roles PROVE Whole(t, r)
  <2>1. Whole(s, r) /\ Due(t, r) = Due(s, r)
    BY <1>2 DEF Core, Due
  <2>2. CASE r # "Backend"
    BY <2>1, <2>2, <1>1, <1>2 DEF Whole, Pending
  <2>3. CASE r = "Backend"
    <3> DEFINE w == s.wire[r]
               h == s.header
               x == s.rx[Peer(r)]
    <3>1. w \in Seq(Nat) /\ h \in Seq(Nat) /\ x \in Seq(Nat)
      BY <1>0, <1>4, PeerFacts DEF Typed
    <3>2. Cat(Cat(Cat(w, h), <<>>), x) = Due(s, r)
      BY <1>3, <2>1, <2>3 DEF Whole, Pending, Cat
    <3> HIDE DEF w, h, x
    <3>3. Cat(Cat(Cat(w, <<>>), h), x) = Cat(Cat(Cat(w, h), <<>>), x)
      BY <3>1, CatFacts
    <3>4. Cat(Cat(Cat(w, <<>>), h), x) = Due(t, r)
      BY <2>1, <3>2, <3>3
    <3> QED BY <3>4, <2>3, <1>1, <1>2, <1>5 DEF Whole, Pending, Cat, w, h, x
  <2> QED BY <2>2, <2>3
<1>9. Core(t)
  <2>1. \A r \in Roles : IsPrefix(t.wire[r], Due(t, r))
    BY <1>6, <1>8, WholePrefix
  <2>2. \A r \in Roles : ~t.shut[r]
    BY <1>2, <1>3
  <2>3. t.end = "error" => \E r \in Roles : t.rst[r]
    BY <1>2 DEF Core
  <2> QED BY <1>1, <1>6, <1>7, <1>8, <2>1, <2>2, <2>3 DEF Core
<1>10. Grows(s, t)
  BY <1>1, <1>2 DEF Grows
<1> QED BY <1>1, <1>2, <1>9, <1>10 DEF t

\* finish_connect
LEMMA ConnectFinished ==
    ASSUME NEW s, Core(s), s.state = "Connecting"
    PROVE  /\ Core(FinishConnect(s)) /\ Fresh(FinishConnect(s)) /\ Grows(s, FinishConnect(s))
<1> DEFINE t == Connected(s)
           u == Refresh(t)
<1>1. FinishConnect(s) = IF s.rst["Backend"] THEN Destroy(s, "error") ELSE u
  BY DEF FinishConnect, Connected
<1>2. Core(t) /\ Grows(s, t)
  BY ConnectedCore
<1> HIDE DEF t
<1>3. Core(u) /\ Fresh(u) /\ Grows(t, u)
  BY <1>2, Refreshed
<1> HIDE DEF u
<1>4. Grows(s, u)
  BY <1>2, <1>3, GrowsOn
<1>5. ASSUME s.rst["Backend"]
      PROVE  /\ Core(Destroy(s, "error")) /\ Fresh(Destroy(s, "error"))
             /\ Grows(s, Destroy(s, "error"))
  <2>1. \E r \in Roles : s.rst[r]
    BY <1>5 DEF Roles
  <2> QED BY <2>1, Destroyed
<1> QED BY <1>1, <1>3, <1>4, <1>5

-----------------------------------------------------------------------------
\* handle_session_event on an event that was true of the socket when it was
\* reported, whatever has happened to the session since.
LEMMA EventHandled ==
    ASSUME NEW s, Core(s), Fresh(s), NEW r \in Roles, NEW ev,
           "ERR" \in ev => s.rst[r], "HUP" \in ev => s.rst[r] \/ s.shut[r]
    PROVE  /\ Core(HandleSessionEvent(s, r, ev)) /\ Fresh(HandleSessionEvent(s, r, ev))
           /\ Grows(s, HandleSessionEvent(s, r, ev))
<1> DEFINE a == IF s.state = "Connecting" /\ r = "Backend" /\ "OUT" \in ev
                THEN FinishConnect(s) ELSE s
           b == IF "OUT" \in ev THEN FlushWrite(a, r) ELSE a
           c == IF b.state # "Gone" /\ ev \cap {"IN", "RDHUP"} # {}
                THEN PumpRead(b, r) ELSE b
           H == HandleSessionEvent(s, r, ev)
           early == s.state = "Connecting" /\ ev \cap {"ERR", "HUP"} # {}
<1>1. /\ s.state = "Gone" => H = s
      /\ s.state # "Gone" /\ early => H = Destroy(s, "error")
      /\ s.state # "Gone" /\ ~early =>
           /\ a.state = "Gone" => H = a
           /\ a.state # "Gone" /\ "ERR" \in ev => H = Destroy(a, "error")
           /\ a.state # "Gone" /\ "ERR" \notin ev =>
                H = IF "HUP" \in ev THEN OnReadEof(c, r) ELSE c
  BY DEF HandleSessionEvent
<1> HIDE DEF H
<1>2. Grows(s, s)
  BY DEF Grows
<1>3. Core(a) /\ Fresh(a) /\ Grows(s, a)
  BY <1>2, ConnectFinished
<1>4. CASE s.state = "Gone"
  BY <1>1, <1>2, <1>4 DEF H
<1>5. CASE s.state # "Gone" /\ early
  <2>1. s.rst[r]
    BY <1>5 DEF Core
  <2>2. /\ Core(Destroy(s, "error")) /\ Fresh(Destroy(s, "error"))
        /\ Grows(s, Destroy(s, "error"))
    BY <2>1, Destroyed
  <2> QED BY <1>1, <1>5, <2>2 DEF H
<1>6. CASE s.state # "Gone" /\ ~early
  <2> HIDE DEF a, c
  <2>1. CASE a.state = "Gone"
    BY <1>1, <1>3, <1>6, <2>1 DEF H
  <2>2. CASE a.state # "Gone" /\ "ERR" \in ev
    <3>1. a.rst[r]
      BY <1>3, <2>2 DEF Grows
    <3>2. /\ Core(Destroy(a, "error")) /\ Fresh(Destroy(a, "error"))
          /\ Grows(a, Destroy(a, "error"))
      BY <3>1, <1>3, Destroyed
    <3>3. Grows(s, Destroy(a, "error"))
      BY <3>2, <1>3, GrowsOn
    <3> QED BY <1>1, <1>6, <2>2, <3>2, <3>3 DEF H
  <2>3. CASE a.state # "Gone" /\ "ERR" \notin ev
    <3>1. Core(b) /\ Fresh(b) /\ Grows(s, b)
      <4>1. Core(FlushWrite(a, r)) /\ Fresh(FlushWrite(a, r)) /\ Grows(a, FlushWrite(a, r))
        BY <1>3, <2>3, FlushWritten
      <4>2. Grows(s, FlushWrite(a, r))
        BY <1>3, <4>1, GrowsOn
      <4> QED BY <1>3, <4>1, <4>2
    <3> HIDE DEF b
    <3>2. Core(c) /\ Fresh(c) /\ Grows(s, c)
      <4>1. ASSUME b.state # "Gone"
            PROVE  Core(PumpRead(b, r)) /\ Fresh(PumpRead(b, r)) /\ Grows(s, PumpRead(b, r))
        <5>1. Core(PumpRead(b, r)) /\ Fresh(PumpRead(b, r)) /\ Grows(b, PumpRead(b, r))
          BY <3>1, <4>1, ReadPumped
        <5> QED BY <3>1, <5>1, GrowsOn
      <4> QED BY <3>1, <4>1 DEF c
    <3>3. ASSUME "HUP" \in ev
          PROVE  Core(OnReadEof(c, r)) /\ Fresh(OnReadEof(c, r)) /\ Grows(s, OnReadEof(c, r))
      <4>1. s.state # "Connecting"
        BY <1>6, <3>3
      <4>2. c.state # "Connecting"
        BY <3>2, <4>1 DEF Grows
      <4>3. Core(OnReadEof(c, r)) /\ Fresh(OnReadEof(c, r)) /\ Grows(c, OnReadEof(c, r))
        BY <3>2, <4>2, ReadEofHandled
      <4> QED BY <3>2, <4>3, GrowsOn
    <3>4. H = IF "HUP" \in ev THEN OnReadEof(c, r) ELSE c
      BY <1>1, <1>6, <2>3
    <3>5. CASE "HUP" \in ev
      BY <3>3, <3>4, <3>5 DEF H
    <3>6. CASE "HUP" \notin ev
      BY <3>2, <3>4, <3>6 DEF H
    <3> QED BY <3>5, <3>6
  <2> QED BY <2>1, <2>2, <2>3
<1> QED BY <1>4, <1>5, <1>6

\* What the peers and the kernel do to a session without moving its bytes.
LEMMA Untouched ==
    ASSUME NEW s, NEW t, Core(s), Fresh(s), Shaped(t),
           \A f \in Fields : f \notin {"fin", "rst", "load", "up"} => t[f] = s[f],
           \A r \in Roles : t.load[r] \in 0..SndBuf /\ (s.rst[r] => t.rst[r])
    PROVE  Core(t) /\ Fresh(t)
<1>1. /\ t.state = s.state /\ t.header = s.header /\ t.buf = s.buf /\ t.eof = s.eof
      /\ t.shut = s.shut /\ t.watch = s.watch /\ t.rx = s.rx
      /\ t.wire = s.wire /\ t.sent = s.sent /\ t.proto = s.proto /\ t.end = s.end
  BY DEF Fields
<1>2. Typed(t)
  BY <1>1 DEF Core, Typed
<1>3. \A r \in Roles : (Whole(s, r) => Whole(t, r)) /\ Due(t, r) = Due(s, r)
  BY <1>1 DEF Whole, Pending, Due
<1>4. Core(t)
  BY <1>1, <1>2, <1>3 DEF Core
<1>5. Fresh(t)
  BY <1>1 DEF Fresh, Desired
<1> QED BY <1>4, <1>5

\* One more byte of the stream.
LEMMA StreamGrows ==
    ASSUME NEW n \in Nat
    PROVE  Stream(n) \in Seq(Nat) /\ Stream(n + 1) = Cat(Stream(n), <<n + 1>>)
<1>1. Stream(n) \in Seq(Nat) /\ Len(Stream(n)) = n
  BY DEF Stream
<1>2. Stream(n + 1) = Append(Stream(n), n + 1)
  BY <1>1 DEF Stream
<1>3. Append(Stream(n), n + 1) = Stream(n) \o <<n + 1>>
  BY <1>1, AppendIsConcat
<1> QED BY <1>1, <1>2, <1>3 DEF Cat

\* A byte of a peer joins the end of what waits in the kernel.
LEMMA SendInv ==
    ASSUME NEW r \in Roles, Core(ses), Fresh(ses), PeerSend(r)
    PROVE  Core(ses') /\ Fresh(ses') /\ ses'.rst = ses.rst /\ ses'.shut = ses.shut
<1> DEFINE s == ses
           t == ses'
           k == ses.sent[r] + 1
           q == Peer(r)
<1>0. /\ Shaped(s) /\ Typed(s) /\ s.state # "Gone" /\ ses.sent[r] \in Nat
      /\ q \in Roles /\ q # r /\ Peer(q) = r /\ s.rx[r] \in Seq(Nat)
      /\ \A p \in Roles : p = r \/ p = q
  BY PeerFacts DEF Core, PeerSend, Reachable, Typed, Roles
<1>1. /\ Shaped(t)
      /\ t.sent[r] = k /\ t.rx[r] = Append(s.rx[r], k)
      /\ t.sent[q] = s.sent[q] /\ t.rx[q] = s.rx[q]
      /\ \A f \in Fields : f \notin {"sent", "rx"} => t[f] = s[f]
  BY <1>0 DEF PeerSend, Shaped, Fields
<1> HIDE DEF s, t
<1>2. /\ t.state = s.state /\ t.header = s.header /\ t.buf = s.buf /\ t.eof = s.eof
      /\ t.shut = s.shut /\ t.watch = s.watch /\ t.rst = s.rst /\ t.load = s.load
      /\ t.wire = s.wire /\ t.proto = s.proto /\ t.end = s.end
  BY <1>1 DEF Fields
<1>k. k \in Nat
  BY <1>0
<1> HIDE DEF k
<1>z. <<k>> \in Seq(Nat)
  BY <1>k
<1>3. /\ k \in Nat /\ <<k>> \in Seq(Nat) /\ t.rx[r] \in Seq(Nat)
      /\ t.rx[r] = Cat(s.rx[r], <<k>>)
  <2> DEFINE x == s.rx[r]
  <2>1. x \in Seq(Nat)
    BY <1>0
  <2> HIDE DEF x
  <2>2. Append(x, k) \in Seq(Nat) /\ Append(x, k) = x \o <<k>>
    BY <2>1, <1>k, AppendIsConcat, AppendProperties
  <2> QED BY <2>2, <1>1, <1>k, <1>z DEF Cat, x
<1>4. Typed(t)
  <2>1. \A p \in Roles : t.rx[p] \in Seq(Nat) /\ t.sent[p] \in Nat
    BY <1>0, <1>1, <1>3 DEF Typed
  <2> QED BY <1>0, <1>2, <2>1 DEF Typed
<1>5. Whole(t, q)
  <2> DEFINE w == s.wire[q]
             h == Pending(s, q)
             b == s.buf[q]
             x == s.rx[r]
             l == IF q = "Backend" /\ s.proto THEN Header ELSE <<>>
             st == Stream(s.sent[r])
  <2>1. w \in Seq(Nat) /\ h \in Seq(Nat) /\ b \in Seq(Nat) /\ x \in Seq(Nat)
    BY <1>0, PendingSeq DEF Typed
  <2>2. l \in Seq(Nat)
    <3>1. <<>> \in Seq(Nat) /\ <<0>> \in Seq(Nat)
      OBVIOUS
    <3> QED BY <3>1 DEF Header
  <2>3. Cat(Cat(Cat(w, h), b), x) = Cat(l, st)
    <3>1. Whole(s, q)
      BY <1>0 DEF Core, s
    <3> QED BY <3>1, <1>0 DEF Whole, Due, Cat
  <2>4. st \in Seq(Nat) /\ Stream(k) = Cat(st, <<k>>)
    BY <1>0, StreamGrows DEF s, k
  <2>5. Due(t, q) = Cat(l, Stream(k)) /\ Pending(t, q) = h
    BY <1>0, <1>1, <1>2 DEF Due, Pending, Cat
  <2> HIDE DEF w, h, b, x, l, st
  <2>6. Cat(Cat(Cat(w, h), b), Cat(x, <<k>>)) = Cat(Cat(Cat(Cat(w, h), b), x), <<k>>)
    <3> DEFINE y == Cat(Cat(w, h), b)
    <3>1. y \in Seq(Nat)
      BY <2>1, CatFacts
    <3> HIDE DEF y
    <3> DEFINE z == <<k>>
    <3>2. z \in Seq(Nat)
      BY <1>z
    <3> HIDE DEF z
    <3>3. Cat(y, Cat(x, z)) = Cat(Cat(y, x), z)
      BY <3>1, <2>1, <3>2, CatFacts
    <3> QED BY <3>3 DEF y, z
  <2>7. Cat(Cat(l, st), <<k>>) = Cat(l, Cat(st, <<k>>))
    BY <2>2, <2>4, <1>3, CatFacts, ZenonT(60)
  <2>8. Cat(Cat(Cat(w, h), b), Cat(x, <<k>>)) = Due(t, q)
    BY <2>3, <2>4, <2>5, <2>6, <2>7
  <2> QED BY <2>5, <2>8, <1>0, <1>2, <1>3 DEF Whole, Cat, w, b, x
<1>6. Whole(t, r)
  <2>1. Whole(s, r)
    BY <1>0 DEF Core, s
  <2> QED BY <2>1, <1>1, <1>2 DEF Whole, Pending, Due
<1>7. \A p \in Roles : Whole(t, p)
  BY <1>0, <1>5, <1>6
<1>8. Core(t)
  <2>1. \A p \in Roles : IsPrefix(t.wire[p], Due(t, p))
    BY <1>4, <1>7, WholePrefix
  <2> QED BY <1>1, <1>2, <1>4, <1>7, <2>1 DEF Core, s
<1>9. Fresh(t)
  BY <1>2 DEF Fresh, Desired, s
<1> QED BY <1>2, <1>8, <1>9 DEF s, t

-----------------------------------------------------------------------------
\* A session by its fields, under a name the provers do not expand.
Rec(st, hd, none, no, noW, zero, up, proto) ==
    [state |-> st, header |-> hd, buf |-> none, eof |-> no, shut |-> no, watch |-> noW,
     rx |-> none, fin |-> no, rst |-> no, load |-> zero, wire |-> none, sent |-> zero,
     up |-> up, proto |-> proto, end |-> "none"]

\* The fields of a session as spawn_session makes it.
LEMMA RecFacts ==
    ASSUME NEW st, NEW hd, NEW none, NEW no, NEW noW, NEW zero, NEW up, NEW proto
    PROVE  LET s == Rec(st, hd, none, no, noW, zero, up, proto)
           IN  /\ s = [f \in Fields |-> s[f]]
               /\ [s EXCEPT !.state = "Established"]
                    = Rec("Established", hd, none, no, noW, zero, up, proto)
               /\ s.state = st /\ s.header = hd /\ s.buf = none /\ s.eof = no /\ s.shut = no
               /\ s.watch = noW /\ s.rx = none /\ s.fin = no /\ s.rst = no /\ s.load = zero
               /\ s.wire = none /\ s.sent = zero /\ s.proto = proto /\ s.end = "none"
BY DEF Rec, Fields

\* A session as spawn_session fills it in.
Opened(state, established, proto) ==
    Rec(state, IF proto THEN Header ELSE <<>>, [r \in Roles |-> <<>>],
        [r \in Roles |-> FALSE], [r \in Roles |-> {}], [r \in Roles |-> 0],
        established, proto)

\* What is true of it.
AsOpened(s, established, proto) ==
    /\ Shaped(s)
    /\ [s EXCEPT !.state = "Established"] = Opened("Established", established, proto)
    /\ s.state = "Connecting" /\ s.end = "none" /\ s.proto = proto
    /\ s.header = IF proto THEN Header ELSE <<>>
    /\ \A r \in Roles : /\ s.buf[r] = <<>> /\ s.rx[r] = <<>> /\ s.wire[r] = <<>>
                        /\ s.eof[r] = FALSE /\ s.shut[r] = FALSE
                        /\ s.load[r] = 0 /\ s.sent[r] = 0

\* A session that spawn_session opened has moved nothing yet.
LEMMA OpenedFacts ==
    ASSUME NEW established, NEW proto
    PROVE  AsOpened(Opened("Connecting", established, proto), established, proto)
<1> DEFINE hd == IF proto THEN Header ELSE <<>>
           none == [r \in Roles |-> <<>>]
           no == [r \in Roles |-> FALSE]
           noW == [r \in Roles |-> {}]
           zero == [r \in Roles |-> 0]
           s == Opened("Connecting", established, proto)
<1>1. /\ s = Rec("Connecting", hd, none, no, noW, zero, established, proto)
      /\ Opened("Established", established, proto)
           = Rec("Established", hd, none, no, noW, zero, established, proto)
  BY DEF Opened
<1>2. \A r \in Roles : none[r] = <<>> /\ no[r] = FALSE /\ noW[r] = {} /\ zero[r] = 0
  OBVIOUS
<1>3. /\ none = [r \in Roles |-> none[r]] /\ no = [r \in Roles |-> no[r]]
      /\ noW = [r \in Roles |-> noW[r]] /\ zero = [r \in Roles |-> zero[r]]
  OBVIOUS
<1> HIDE DEF hd, none, no, noW, zero, s
<1>4. /\ s = [f \in Fields |-> s[f]]
      /\ [s EXCEPT !.state = "Established"] = Opened("Established", established, proto)
      /\ s.state = "Connecting" /\ s.header = hd /\ s.buf = none /\ s.eof = no /\ s.shut = no
      /\ s.watch = noW /\ s.rx = none /\ s.fin = no /\ s.rst = no /\ s.load = zero
      /\ s.wire = none /\ s.sent = zero /\ s.proto = proto /\ s.end = "none"
  BY <1>1, RecFacts
<1>5. Shaped(s)
  <2>1. ASSUME NEW f \in {"buf", "eof", "shut", "watch", "rx", "fin", "rst", "load", "wire", "sent"}
        PROVE  s[f] = [r \in Roles |-> s[f][r]]
    <3> DEFINE g == s[f]
    <3>1. g = none \/ g = no \/ g = noW \/ g = zero
      BY <1>4
    <3> HIDE DEF g
    <3>2. g = [r \in Roles |-> g[r]]
      BY <3>1, <1>3
    <3> QED BY <3>2 DEF g
  <2> QED BY <1>4, <2>1 DEF Shaped
<1> QED BY <1>2, <1>4, <1>5 DEF s, hd, AsOpened

\* spawn_session begins with nothing sent, nothing buffered and the line pending.
LEMMA OpenedCore ==
    ASSUME NEW established \in BOOLEAN, NEW proto \in BOOLEAN
    PROVE  Core(Opened("Connecting", established, proto))
<1> DEFINE s == Opened("Connecting", established, proto)
<1>0. AsOpened(s, established, proto)
  BY OpenedFacts
<1> HIDE DEF s
<1>1. /\ Shaped(s) /\ s.state = "Connecting" /\ s.end = "none" /\ s.proto = proto
      /\ s.header = IF proto THEN Header ELSE <<>>
  BY <1>0 DEF AsOpened
<1>2. \A r \in Roles : /\ s.buf[r] = <<>> /\ s.rx[r] = <<>> /\ s.wire[r] = <<>>
                       /\ s.eof[r] = FALSE /\ s.shut[r] = FALSE
                       /\ s.load[r] = 0 /\ s.sent[r] = 0
  BY <1>0 DEF AsOpened
<1>3. <<>> \in Seq(Nat) /\ Header \in Seq(Nat) /\ Len(<<>>) = 0
  <2>1. <<>> \in Seq(Nat) /\ <<0>> \in Seq(Nat) /\ Len(<<>>) = 0
    OBVIOUS
  <2> QED BY <2>1 DEF Header
<1>4. Typed(s)
  <2>1. 0 \in 0..SndBuf /\ 0 \in Nat
    BY NetworkAssumption
  <2> QED BY <1>1, <1>2, <1>3, <2>1 DEF Typed
<1>5. ASSUME NEW r \in Roles PROVE Whole(s, r)
  <2>1. Stream(0) = <<>>
    BY DEF Stream
  <2> DEFINE l == IF r = "Backend" /\ proto THEN Header ELSE <<>>
  <2>2. l \in Seq(Nat)
    BY <1>3
  <2>3. Due(s, r) = Cat(l, <<>>) /\ Pending(s, r) = l
    BY <1>1, <1>2, <2>1, PeerFacts DEF Due, Pending, Cat
  <2> HIDE DEF l
  <2>4. Cat(Cat(Cat(<<>>, l), <<>>), <<>>) = Cat(l, <<>>)
    BY <1>3, <2>2, CatFacts
  <2> QED BY <1>2, <2>3, <2>4, PeerFacts DEF Whole, Cat
<1>6. \A r \in Roles : IsPrefix(s.wire[r], Due(s, r))
  BY <1>4, <1>5, WholePrefix
<1>7. MaxBuffer \in Nat
  BY BufferAssumption
<1> QED BY <1>1, <1>2, <1>3, <1>4, <1>5, <1>6, <1>7 DEF Core, s

\* spawn_session: connected at once, the line is injected at once.
LEMMA InitInv == Init => IInv
<1> SUFFICES ASSUME Init PROVE IInv
  OBVIOUS
<1>1. PICK established \in BOOLEAN, proto \in BOOLEAN : ses = Spawned(established, proto)
  BY DEF Init
<1> DEFINE s == Opened("Connecting", established, proto)
<1>2. AsOpened(s, established, proto) /\ Core(s)
  BY OpenedCore, OpenedFacts
<1> HIDE DEF s
<1>s. s.state = "Connecting"
  BY <1>2 DEF AsOpened
<1>3. ses = IF established THEN Refresh(Connected(s)) ELSE Refresh(s)
  <2>1. [s EXCEPT !.state = "Established"] = Opened("Established", established, proto)
    BY <1>2 DEF AsOpened
  <2>2. CASE established
    BY <1>1, <2>1, <2>2 DEF Spawned, Connected, Opened, Rec
  <2>3. CASE ~established
    BY <1>1, <2>3 DEF Spawned, Opened, Rec, s
  <2> QED BY <2>2, <2>3
<1>4. Core(ses) /\ Fresh(ses)
  <2>1. Core(Refresh(s)) /\ Fresh(Refresh(s))
    BY <1>2, Refreshed
  <2>2. Core(Connected(s))
    BY <1>2, <1>s, ConnectedCore
  <2> DEFINE t == Connected(s)
  <2> HIDE DEF t
  <2>3. Core(Refresh(t)) /\ Fresh(Refresh(t))
    BY <2>2, Refreshed DEF t
  <2> QED BY <1>3, <2>1, <2>3 DEF t
<1>5. BatchInv
  <2>1. batch = <<>>
    BY DEF Init
  <2> QED BY <2>1 DEF BatchInv
<1> QED BY <1>4, <1>5 DEF IInv

-----------------------------------------------------------------------------
\* What a reported event said stays true: a failed connection stays failed, and
\* a direction that was shut down stays shut.
LEMMA BatchKept ==
    ASSUME BatchInv, batch' = batch,
           \A r \in Roles : (ses.rst[r] => ses'.rst[r]) /\ (ses.shut[r] => ses'.shut[r])
    PROVE  BatchInv'
<1> DEFINE E == [role : Roles, ev : SUBSET {"IN", "OUT", "RDHUP", "HUP", "ERR"}]
<1>1. batch \in Seq(E)
  BY DEF BatchInv
<1>2. \A i \in DOMAIN batch : batch[i].role \in Roles
  <2>1. \A i \in 1..Len(batch) : batch[i] \in E
    BY <1>1, ElementOfSeq
  <2>2. DOMAIN batch = 1..Len(batch)
    BY <1>1, LenProperties
  <2> QED BY <2>1, <2>2
<1> QED BY <1>1, <1>2 DEF BatchInv

\* epoll_wait reports an error or a hangup only of a socket that has it.
LEMMA ReadyIsTrue ==
    ASSUME NEW r \in Roles
    PROVE  /\ Ready(ses, r) \subseteq {"IN", "OUT", "RDHUP", "HUP", "ERR"}
           /\ "ERR" \in Ready(ses, r) => ses.rst[r]
           /\ "HUP" \in Ready(ses, r) => ses.rst[r] \/ ses.shut[r]
<1> DEFINE C == Condition(ses, r)
<1>1. CASE ses.state = "Gone"
  <2>1. C = {}
    BY <1>1 DEF Condition
  <2> QED BY <2>1 DEF Ready
<1>2. CASE ses.state # "Gone" /\ ses.rst[r]
  <2>1. C = {"IN", "OUT", "RDHUP", "HUP", "ERR"}
    BY <1>2 DEF Condition
  <2> QED BY <2>1, <1>2 DEF Ready
<1>3. CASE ses.state # "Gone" /\ ~ses.rst[r] /\ r = "Backend" /\ ~ses.up
  <2>1. C = {}
    BY <1>3 DEF Condition
  <2> QED BY <2>1 DEF Ready
<1>4. CASE ses.state # "Gone" /\ ~ses.rst[r] /\ ~(r = "Backend" /\ ~ses.up)
  <2>1. C = (IF ses.rx[r] # <<>> \/ ses.fin[r] THEN {"IN"} ELSE {})
            \cup (IF Room(ses, r) > 0 THEN {"OUT"} ELSE {})
            \cup (IF ses.fin[r] THEN {"RDHUP"} ELSE {})
            \cup (IF ses.fin[r] /\ ses.shut[r] THEN {"HUP"} ELSE {})
    BY <1>4 DEF Condition
  <2>2. C \subseteq {"IN", "OUT", "RDHUP", "HUP"} /\ ("HUP" \in C => ses.shut[r])
    BY <2>1
  <2> QED BY <2>2 DEF Ready
<1> QED BY <1>1, <1>2, <1>3, <1>4

\* epoll_wait fills an empty batch with what is true of the sockets now.
LEMMA WaitInv ==
    ASSUME BatchInv, EpollWait
    PROVE  BatchInv' /\ ses' = ses
<1> DEFINE ready == {r \in Roles : Ready(ses, r) # {}}
           n == Cardinality(ready)
           E == [role : Roles, ev : SUBSET {"IN", "OUT", "RDHUP", "HUP", "ERR"}]
<1>1. PICK order \in SetToSeqs(ready) :
        batch' = [i \in 1..Len(order) |-> [role |-> order[i], ev |-> Ready(ses, order[i])]]
  BY DEF EpollWait
<1>2. n \in Nat
  <2>1. IsFiniteSet({"Client"}) /\ IsFiniteSet({"Client"} \cup {"Backend"})
    BY FS_Singleton, FS_AddElement
  <2>2. IsFiniteSet(Roles)
    <3>1. Roles = {"Client"} \cup {"Backend"}
      BY DEF Roles
    <3> QED BY <2>1, <3>1
  <2>3. IsFiniteSet(ready)
    <3>1. ready \in SUBSET Roles
      OBVIOUS
    <3> QED BY <2>2, <3>1, FS_Subset
  <2> QED BY <2>3, FS_CardinalityType
<1>3. order \in [1..n -> ready]
  BY <1>1 DEF SetToSeqs
<1>4. \A r \in ready : r \in Roles
  OBVIOUS
<1> HIDE DEF ready, n
<1>5. Len(order) = n
  BY <1>2, <1>3
<1>6. ASSUME NEW i \in 1..n
      PROVE  /\ order[i] \in Roles /\ batch'[i] \in E
             /\ batch'[i].role = order[i] /\ batch'[i].ev = Ready(ses, order[i])
  <2>1. order[i] \in Roles
    BY <1>3, <1>4
  <2>2. Ready(ses, order[i]) \subseteq {"IN", "OUT", "RDHUP", "HUP", "ERR"}
    BY <2>1, ReadyIsTrue
  <2> QED BY <1>1, <1>5, <2>1, <2>2
<1>7. batch' \in Seq(E) /\ DOMAIN batch' = 1..n
  BY <1>1, <1>2, <1>5, <1>6
<1>8. ses' = ses
  BY DEF EpollWait
<1>9. ASSUME NEW i \in DOMAIN batch'
      PROVE  /\ "ERR" \in batch'[i].ev => ses'.rst[batch'[i].role]
             /\ "HUP" \in batch'[i].ev => ses'.rst[batch'[i].role] \/ ses'.shut[batch'[i].role]
  BY <1>6, <1>7, <1>8, ReadyIsTrue
<1> QED BY <1>7, <1>8, <1>9 DEF BatchInv

\* handle_event takes the first event and leaves the others as true as they were.
LEMMA HandleInv ==
    ASSUME IInv, HandleEvent
    PROVE  IInv'
<1> DEFINE E == [role : Roles, ev : SUBSET {"IN", "OUT", "RDHUP", "HUP", "ERR"}]
           r == Head(batch).role
           ev == Head(batch).ev
           t == HandleSessionEvent(ses, r, ev)
<1>1. batch \in Seq(E) /\ batch # <<>> /\ batch' = Tail(batch) /\ ses' = t
  BY DEF IInv, BatchInv, HandleEvent, TakeEvent
<1>2. /\ Head(batch) \in E /\ Head(batch) = batch[1] /\ 1 \in DOMAIN batch
      /\ Tail(batch) \in Seq(E) /\ DOMAIN Tail(batch) = 1..Len(batch) - 1
      /\ \A i \in DOMAIN Tail(batch) :
           /\ i + 1 \in DOMAIN batch /\ Tail(batch)[i] = batch[i + 1]
           /\ Tail(batch)[i].role \in Roles
  <2>1. Len(batch) \in Nat /\ DOMAIN batch = 1..Len(batch) /\ Len(batch) # 0
    BY <1>1, LenProperties, EmptySeq
  <2>2. /\ Head(batch) \in E /\ Tail(batch) \in Seq(E) /\ Len(Tail(batch)) = Len(batch) - 1
        /\ \A i \in 1..Len(Tail(batch)) : Tail(batch)[i] = batch[i + 1]
    BY <1>1, HeadTailProperties
  <2>3. DOMAIN Tail(batch) = 1..Len(batch) - 1
    BY <2>2, LenProperties
  <2>4. Head(batch) = batch[1]
    BY <1>1
  <2>5. \A i \in 1..Len(batch) : batch[i] \in E
    BY <1>1, ElementOfSeq
  <2>6. \A i \in 1..Len(batch) - 1 : i + 1 \in 1..Len(batch)
    BY <2>1
  <2> QED BY <2>1, <2>2, <2>3, <2>4, <2>5, <2>6
<1>3. r \in Roles /\ ("ERR" \in ev => ses.rst[r]) /\ ("HUP" \in ev => ses.rst[r] \/ ses.shut[r])
  BY <1>2 DEF IInv, BatchInv
<1> HIDE DEF r, ev
<1>4. Core(t) /\ Fresh(t) /\ Grows(ses, t)
  BY <1>3, EventHandled DEF IInv
<1> HIDE DEF t
<1>5. \A p \in Roles : (ses.rst[p] => t.rst[p]) /\ (ses.shut[p] => t.shut[p])
  BY <1>4 DEF Grows
<1>6. ASSUME NEW i \in DOMAIN Tail(batch)
      PROVE  /\ "ERR" \in Tail(batch)[i].ev => t.rst[Tail(batch)[i].role]
             /\ "HUP" \in Tail(batch)[i].ev =>
                  t.rst[Tail(batch)[i].role] \/ t.shut[Tail(batch)[i].role]
  BY <1>2, <1>5 DEF IInv, BatchInv
<1>7. BatchInv'
  BY <1>1, <1>2, <1>6 DEF BatchInv
<1> QED BY <1>1, <1>4, <1>7 DEF IInv

\* What a peer or the kernel does beside sending leaves the bytes alone.
LEMMA OutsideInv ==
    ASSUME IInv, \/ \E r \in Roles : PeerFin(r)
                 \/ \E r \in Roles : PeerReset(r)
                 \/ \E r \in Roles : PeerRead(r)
                 \/ ConnectOk
    PROVE  IInv'
<1> DEFINE s == ses
           t == ses'
<1>0. Core(s) /\ Fresh(s) /\ BatchInv /\ Shaped(s) /\ \A p \in Roles : s.load[p] \in 0..SndBuf
  BY DEF IInv, Core, Typed
<1>1. /\ Shaped(t) /\ batch' = batch
      /\ \A f \in Fields : f \notin {"fin", "rst", "load", "up"} => t[f] = s[f]
      /\ \A p \in Roles : t.load[p] \in 0..SndBuf /\ (s.rst[p] => t.rst[p])
  <2>1. ASSUME NEW r \in Roles, PeerFin(r) PROVE <1>1!:
    BY <1>0, <2>1 DEF PeerFin, Shaped, Fields
  <2>2. ASSUME NEW r \in Roles, PeerReset(r) PROVE <1>1!:
    BY <1>0, <2>2 DEF PeerReset, Shaped, Fields
  <2>3. ASSUME NEW r \in Roles, PeerRead(r) PROVE <1>1!:
    <3>1. SndBuf \in Nat
      BY NetworkAssumption
    <3>2. s.load[r] - 1 \in 0..SndBuf
      BY <1>0, <2>3, <3>1 DEF PeerRead
    <3> QED BY <1>0, <2>3, <3>2 DEF PeerRead, Shaped, Fields
  <2>4. ASSUME ConnectOk PROVE <1>1!:
    BY <1>0, <2>4 DEF ConnectOk, Shaped, Fields
  <2> QED BY <2>1, <2>2, <2>3, <2>4
<1>2. t.shut = s.shut
  BY <1>1 DEF Fields
<1>3. Core(t) /\ Fresh(t)
  <2> HIDE DEF s, t
  <2> QED BY <1>0, <1>1, Untouched
<1>4. BatchInv'
  BY <1>0, <1>1, <1>2, BatchKept
<1> QED BY <1>3, <1>4 DEF IInv

\* Every step of the loop, the kernel and the peers keeps the invariant.
LEMMA StepInv == IInv /\ [Next]_vars => IInv'
<1> SUFFICES ASSUME IInv, [Next]_vars PROVE IInv'
  OBVIOUS
<1>0. Core(ses) /\ Fresh(ses) /\ BatchInv
  BY DEF IInv
<1>1. CASE EpollWait
  <2>1. BatchInv' /\ ses' = ses
    BY <1>0, <1>1, WaitInv
  <2> QED BY <1>0, <2>1 DEF IInv
<1>2. CASE HandleEvent
  BY <1>2, HandleInv
<1>3. ASSUME NEW r \in Roles, PeerSend(r) PROVE IInv'
  <2>1. Core(ses') /\ Fresh(ses') /\ ses'.rst = ses.rst /\ ses'.shut = ses.shut
    BY <1>0, <1>3, SendInv
  <2>2. BatchInv'
    <3>1. batch' = batch
      BY <1>3 DEF PeerSend
    <3> QED BY <1>0, <2>1, <3>1, BatchKept
  <2> QED BY <2>1, <2>2 DEF IInv
<1>4. CASE \/ \E r \in Roles : PeerFin(r)
           \/ \E r \in Roles : PeerReset(r)
           \/ \E r \in Roles : PeerRead(r)
           \/ ConnectOk
  BY <1>4, OutsideInv
<1>5. CASE UNCHANGED vars
  <2>1. ses' = ses /\ batch' = batch
    BY <1>5 DEF vars
  <2> QED BY <1>0, <2>1, BatchKept DEF IInv
<1> QED BY <1>1, <1>2, <1>3, <1>4, <1>5 DEF Next

-----------------------------------------------------------------------------
\* The inductive invariant holds in every state.
THEOREM Invariance == Spec => []IInv
BY InitInv, StepInv, PTL DEF Spec

\* Nothing is lost, repeated or reordered inside a live session, no buffer grows
\* past kMaxBufferBytes, the PROXY line comes first, and each peer has at any time
\* got a prefix of its stream (flush_write, pump_read, inject_proxy_header), for
\* any buffer, any send buffer and any number of bytes.
THEOREM RelayStaysExact == Spec => []RelayIsExact
<1>1. IInv => RelayIsExact
  <2> SUFFICES ASSUME IInv, NEW r \in Roles
               PROVE  /\ IsPrefix(ses.wire[r], Expected(r))
                      /\ ses.state # "Gone" =>
                            /\ Len(ses.buf[r]) <= MaxBuffer
                            /\ ses.wire[r]
                                 \o (IF r = "Backend" THEN ses.header ELSE <<>>)
                                 \o ses.buf[r] \o ses.rx[Peer(r)] = Expected(r)
    BY DEF RelayIsExact
  <2>1. Expected(r) = Due(ses, r)
    BY DEF Expected, Due
  <2>2. IsPrefix(ses.wire[r], Due(ses, r))
    BY DEF IInv, Core
  <2>3. ses.state # "Gone" => Len(ses.buf[r]) <= MaxBuffer /\ Whole(ses, r)
    BY DEF IInv, Core
  <2> QED BY <2>1, <2>2, <2>3 DEF Whole, Pending
<1> QED BY <1>1, Invariance, PTL

\* Between events the registered masks are what desired_events asks for
\* (refresh_events), whatever the handlers did: no wakeup is lost.
THEOREM WatchStaysFresh == Spec => []WatchIsFresh
<1>1. IInv => WatchIsFresh
  BY DEF IInv, Fresh, WatchIsFresh
<1> QED BY <1>1, Invariance, PTL

\* destroy_session ends a session as failed only if a connection failed, however
\* stale the event that is being handled.
THEOREM NoErrorIsSelfInflicted == Spec => []NoSelfInflictedError
<1>1. IInv => NoSelfInflictedError
  BY DEF IInv, Core, NoSelfInflictedError
<1> QED BY <1>1, Invariance, PTL

-----------------------------------------------------------------------------
(***************************************************************************)
(* Starting and stopping the proxy around its sessions is correct wherever *)
(* the signals come in, and however many there are: each fact of           *)
(* ProxyLifecycle is tied to the places of the thread at which it holds.   *)
(***************************************************************************)

\* The places before run sets running_, those of run, and those after it.
Starting == {"init", "install", "publish", "announce", "arm"}
Looping == {"test", "wait", "dispatch", "disarm"}
Leaving == {"clear", "unraw", "close", "unpublish",
            "clear_dtor", "unraw_dtor", "close_dtor", "exited"}

LoopTypeOK ==
    /\ pc \in Starting \cup {"setup", "recheck"} \cup Looping \cup Leaving
    /\ installed \in BOOLEAN /\ g_server \in BOOLEAN /\ running \in BOOLEAN
    /\ wakeup_raw \in BOOLEAN /\ wakeup_fd \in BOOLEAN /\ counter \in BOOLEAN
    /\ fds \subseteq {"listen", "epoll"}
    /\ sessions \in 0..MaxSessions
    /\ signals \in 0..MaxSignals
    /\ promised \in BOOLEAN /\ stopped \in BOOLEAN

\* The handlers are installed, and find the server, from before the loop to
\* after it: no signal kills the process or is lost on the handler there.
Handled ==
    /\ pc \in {"publish", "announce", "arm", "setup", "recheck"} \cup Looping
         => installed
    /\ pc \in {"announce", "arm", "setup", "recheck"} \cup Looping => g_server
    /\ pc \in {"init", "install", "publish"} => ~g_server

\* running_ is set in run only, and a stop that found it set is remembered
\* there by its being cleared.
RunningInRun ==
    /\ running => pc \in {"setup", "recheck", "test", "wait", "dispatch", "disarm"}
    /\ stopped => ~running /\ pc \notin Starting

\* Where the eventfd is open, and where a signal handler may write to it.
EventfdByPlace ==
    /\ wakeup_raw => wakeup_fd
    /\ pc \in {"recheck"} \cup Looping => wakeup_raw
    /\ wakeup_raw => pc \in {"recheck", "clear", "unraw"} \cup Looping
    /\ wakeup_fd => pc \in {"recheck", "clear", "unraw", "close"} \cup Looping

\* What is open at each place of the tear-down.
TornDown ==
    /\ pc \in Starting \cup {"setup", "recheck", "unraw", "close", "unpublish",
              "clear_dtor", "unraw_dtor", "close_dtor", "exited"} => sessions = 0
    /\ pc = "exited" => fds = {}

LoopInv == LoopTypeOK /\ Handled /\ RunningInRun /\ EventfdByPlace /\ TornDown
        /\ StopIsPrompt

-----------------------------------------------------------------------------
\* Nothing is open, and nothing runs, when main begins.
LEMMA LoopInitInv == LoopInit => LoopInv
<1> SUFFICES ASSUME LoopInit PROVE LoopInv
  OBVIOUS
<1>1. sessions \in 0..MaxSessions /\ signals \in 0..MaxSignals
  BY BoundAssumption DEF LoopInit
<1>2. LoopTypeOK
  BY <1>1 DEF LoopInit, LoopTypeOK, Starting
<1>3. Handled /\ RunningInRun /\ EventfdByPlace /\ TornDown /\ StopIsPrompt
  BY DEF LoopInit, Handled, RunningInRun, EventfdByPlace, TornDown, StopIsPrompt,
         Starting, Looping
<1> QED BY <1>2, <1>3 DEF LoopInv

\* Every step of the thread, and a signal between any two of them, keeps it.
LEMMA LoopStepInv == LoopInv /\ [LoopNext]_loopvars => LoopInv'
<1> SUFFICES ASSUME LoopInv, [LoopNext]_loopvars PROVE LoopInv'
  OBVIOUS
<1> USE BoundAssumption
    DEF LoopInv, LoopTypeOK, Handled, RunningInRun, EventfdByPlace, TornDown,
        StopIsPrompt, Starting, Looping, Leaving, Goto, flags, socket, history
<1>1. CASE ServerInit
  BY <1>1 DEF ServerInit
<1>2. CASE InstallStopHandlers
  BY <1>2 DEF InstallStopHandlers
<1>3. CASE Publish
  BY <1>3 DEF Publish
<1>4. CASE Announce
  BY <1>4 DEF Announce
<1>5. CASE Arm
  BY <1>5 DEF Arm
<1>6. CASE SetupEpoll
  <2>1. CASE pc' = "recheck"
    <3>1. /\ pc = "setup" /\ fds' = fds \cup {"epoll"}
          /\ wakeup_fd' = TRUE /\ wakeup_raw' = TRUE /\ counter' = FALSE
          /\ UNCHANGED <<flags, sessions, history>>
      BY <1>6, <2>1 DEF SetupEpoll
    <3> QED BY <2>1, <3>1
  <2>2. CASE pc' = "unpublish"
    <3>1. /\ pc = "setup" /\ running' = FALSE
          /\ UNCHANGED <<installed, g_server, socket, history>>
      BY <1>6, <2>2 DEF SetupEpoll
    <3> QED BY <2>2, <3>1
  <2> QED BY <1>6, <2>1, <2>2 DEF SetupEpoll
<1>7. CASE Recheck
  BY <1>7 DEF Recheck
<1>8. CASE LoopTest
  BY <1>8 DEF LoopTest
<1>9. CASE LoopWait
  BY <1>9 DEF LoopWait
<1>10. CASE Dispatch
  BY <1>10 DEF Dispatch
<1>11. CASE Disarm
  BY <1>11 DEF Disarm
<1>12. CASE TeardownSessions
  BY <1>12 DEF TeardownSessions
<1>13. CASE TeardownRaw
  BY <1>13 DEF TeardownRaw
<1>14. CASE TeardownFds
  BY <1>14 DEF TeardownFds
<1>15. CASE Unpublish
  BY <1>15 DEF Unpublish
<1>16. CASE Signal
  <2>1. signals' \in 0..MaxSignals /\ promised' \in BOOLEAN /\ stopped' \in BOOLEAN
    BY <1>16 DEF Signal
  <2>2. stopped' => stopped \/ running
    BY <1>16 DEF Signal
  <2>3. CASE ~installed
    <3>1. ~running /\ ~running' /\ pc' = "exited"
      BY <1>16, <2>3 DEF Signal
    <3>2. /\ sessions' = 0 /\ fds' = {}
          /\ wakeup_raw' = FALSE /\ wakeup_fd' = FALSE /\ counter' = FALSE
          /\ installed' = installed /\ g_server' = g_server /\ running' = running
      BY <1>16, <2>3 DEF Signal
    <3>3. LoopTypeOK'
      <4>1. sessions' \in 0..MaxSessions /\ pc' \in Leaving
        BY <3>1, <3>2
      <4> QED BY <2>1, <3>2, <4>1
    <3>4. Handled' /\ EventfdByPlace' /\ TornDown' /\ StopIsPrompt'
      BY <3>1, <3>2
    <3>5. RunningInRun'
      BY <2>2, <3>1, <3>2
    <3> QED BY <3>3, <3>4, <3>5
  <2>4. CASE installed /\ g_server
    <3>1. /\ UNCHANGED <<pc, installed, g_server, wakeup_raw, wakeup_fd, fds, sessions>>
          /\ running' = FALSE
      BY <1>16, <2>4 DEF Signal, Stop
    <3>2. counter' \in BOOLEAN /\ (wakeup_raw => counter')
      BY <1>16, <2>4 DEF Signal, Stop
    <3>3. LoopTypeOK'
      BY <2>1, <3>1, <3>2
    <3>4. Handled' /\ EventfdByPlace' /\ TornDown'
      BY <3>1
    <3>5. RunningInRun' /\ StopIsPrompt'
      BY <2>2, <3>1, <3>2
    <3> QED BY <3>3, <3>4, <3>5
  <2>5. CASE installed /\ ~g_server
    <3>1. UNCHANGED <<pc, installed, g_server, running, socket>>
      BY <1>16, <2>5 DEF Signal
    <3> QED BY <2>1, <2>2, <2>5, <3>1
  <2> QED BY <2>3, <2>4, <2>5
<1>17. CASE UNCHANGED loopvars
  BY <1>17 DEF loopvars
<1> QED BY <1>1, <1>2, <1>3, <1>4, <1>5, <1>6, <1>7, <1>8, <1>9, <1>10, <1>11,
           <1>12, <1>13, <1>14, <1>15, <1>16, <1>17 DEF LoopNext, Main

\* The facts above hold at every step of every run of the proxy.
LEMMA LoopInvariance == LoopSpec => []LoopInv
BY LoopInitInv, LoopStepInv, PTL DEF LoopSpec

-----------------------------------------------------------------------------
\* The signal handler never writes to a closed descriptor (ProxyServer::stop
\* against teardown), however signals and the steps of main interleave.
THEOREM WakeupFdStaysValid == LoopSpec => []WakeupFdValid
<1>1. LoopInv => WakeupFdValid
  BY DEF LoopInv, EventfdByPlace, WakeupFdValid
<1> QED BY <1>1, LoopInvariance, PTL

\* No stop is slept through: epoll_wait is never entered, nor slept in, with
\* running_ cleared and nothing to read from the eventfd.
THEOREM StopStaysPrompt == LoopSpec => []StopIsPrompt
<1>1. LoopInv => StopIsPrompt
  BY DEF LoopInv
<1> QED BY <1>1, LoopInvariance, PTL

\* Every way out of main leaves nothing open: the failures of init, of
\* install_stop_handlers and of setup_epoll, a stop, and being killed.
THEOREM ExitIsClean == LoopSpec => []CleanExit
<1>1. LoopInv => CleanExit
  BY DEF LoopInv, TornDown, EventfdByPlace, CleanExit, Looping
<1> QED BY <1>1, LoopInvariance, PTL

\* A stop that found running_ set is final: nothing sets running_ again, and
\* the loop begins no further batch.
THEOREM StopStaysFinal == LoopSpec => StopIsFinal
<1>1. ASSUME LoopInv, LoopInv', [LoopNext]_loopvars, stopped
      PROVE  ~running' /\ (pc # "wait" => pc' # "wait")
  <2>1. stopped'
    BY <1>1 DEF LoopNext, Main, ServerInit, InstallStopHandlers, Publish, Announce,
         Arm, SetupEpoll, Recheck, LoopTest, LoopWait, Dispatch, Disarm,
         TeardownSessions, TeardownRaw, TeardownFds, Unpublish, Signal, loopvars, history
  <2>2. ~running /\ ~running'
    BY <1>1, <2>1 DEF LoopInv, RunningInRun
  <2>3. ASSUME pc # "wait" PROVE pc' # "wait"
    BY <1>1, <2>2, <2>3
       DEF LoopNext, Main, ServerInit, InstallStopHandlers, Publish, Announce,
         Arm, SetupEpoll, Recheck, LoopTest, LoopWait, Dispatch, Disarm,
         TeardownSessions, TeardownRaw, TeardownFds, Unpublish, Signal, loopvars, Goto
  <2> QED BY <2>2, <2>3
<1>2. LoopInv /\ LoopInv' /\ [LoopNext]_loopvars
        => [stopped => ~running' /\ (pc # "wait" => pc' # "wait")]_loopvars
  BY <1>1
<1> QED BY <1>2, LoopInvariance, PTL DEF LoopSpec, StopIsFinal
=============================================================================
