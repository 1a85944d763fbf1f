--------------------------- MODULE PreambleProofs ---------------------------
(***************************************************************************)
(* The hand-over of _ProxyPreambleProtocol is exact for streams of any     *)
(* length, lines up to any limit and every way to cut a stream into pieces.*)
(* What _try_handoff makes of a prefix of a stream is compared, once and   *)
(* for all, with what it makes of the whole (Decided); the rest is that no *)
(* byte is lost on the way.                                                *)
(***************************************************************************)
EXTENDS Preamble, SequenceTheorems, WellFoundedInduction, TLAPS

\* The symbols there are.
Bytes ==
    {"P", "R", "CR", "LF", "UNKNOWN"} \cup Addresses
    \cup UNION {{m[i] : i \in DOMAIN m} : m \in Messages}

\* Every set of natural numbers that is not empty has a least element.
LEMMA LeastNumber ==
    ASSUME NEW T, T \subseteq Nat, T # {}
    PROVE  \E x \in T : \A y \in T : x <= y
<1> DEFINE R == {p \in Nat \X Nat : p[1] < p[2]}
<1>1. IsWellFoundedOn(R, Nat)
  BY NatLessThanWellFounded DEF OpToRel
<1>2. \A x, y \in Nat : <<y, x>> \in R <=> y < x
  OBVIOUS
<1> HIDE DEF R
<1>3. PICK x \in T : \A y \in T : ~(<<y, x>> \in R)
  BY <1>1, WFMin
<1>4. ASSUME NEW y \in T PROVE x <= y
  <2>1. x \in Nat /\ y \in Nat
    OBVIOUS
  <2>2. ~(y < x)
    BY <1>2, <1>3, <2>1
  <2> QED BY <2>1, <2>2
<1> QED BY <1>4

-----------------------------------------------------------------------------
(***************************************************************************)
(* Line breaks and prefixes.                                               *)
(***************************************************************************)
Breaks(b, i) == i \in 1..Len(b) - 1 /\ b[i] = "CR" /\ b[i + 1] = "LF"

\* LineBreak finds a break if there is one, and then the first.
LEMMA BreakFacts ==
    ASSUME NEW b \in Seq(Bytes)
    PROVE  /\ LineBreak(b) \in Nat
           /\ LineBreak(b) = 0 => \A j : ~Breaks(b, j)
           /\ LineBreak(b) # 0 => /\ Breaks(b, LineBreak(b))
                                  /\ \A j : Breaks(b, j) => LineBreak(b) <= j
<1> DEFINE at == {i \in 1..Len(b) - 1 : b[i] = "CR" /\ b[i + 1] = "LF"}
<1>0. Len(b) \in Nat
  BY LenProperties
<1>1. LineBreak(b) = IF at = {} THEN 0 ELSE CHOOSE i \in at : \A j \in at : i <= j
  BY DEF LineBreak
<1>2. /\ \A i : i \in at <=> Breaks(b, i)
      /\ at \subseteq Nat /\ \A i \in at : i # 0
  BY <1>0 DEF Breaks
<1> HIDE DEF at
<1>3. CASE at = {}
  BY <1>1, <1>2, <1>3
<1>4. CASE at # {}
  <2>1. \E i \in at : \A j \in at : i <= j
    BY <1>2, <1>4, LeastNumber
  <2>2. LineBreak(b) = CHOOSE i \in at : \A j \in at : i <= j
    BY <1>1, <1>4
  <2>3. LineBreak(b) \in at /\ \A j \in at : LineBreak(b) <= j
    BY <2>1, <2>2
  <2> QED BY <2>3, <1>2
<1> QED BY <1>3, <1>4

\* The first break is the one with none before it.
LEMMA BreakIs ==
    ASSUME NEW b \in Seq(Bytes), NEW i, Breaks(b, i), \A j : Breaks(b, j) => i <= j
    PROVE  LineBreak(b) = i
<1>1. LineBreak(b) # 0 /\ Breaks(b, LineBreak(b)) /\ LineBreak(b) <= i /\ i <= LineBreak(b)
  BY BreakFacts
<1>2. LineBreak(b) \in Int /\ i \in Int
  BY BreakFacts DEF Breaks
<1> QED BY <1>1, <1>2

\* A stream cut in two.
LEMMA Cut ==
    ASSUME NEW s \in Seq(Bytes), NEW m \in 0..Len(s)
    PROVE  /\ SubSeq(s, 1, m) \in Seq(Bytes) /\ Len(SubSeq(s, 1, m)) = m
           /\ \A i \in 1..m : SubSeq(s, 1, m)[i] = s[i]
           /\ SubSeq(s, m + 1, Len(s)) \in Seq(Bytes)
           /\ SubSeq(s, 1, m) \o SubSeq(s, m + 1, Len(s)) = s
           /\ m = Len(s) => SubSeq(s, 1, m) = s /\ SubSeq(s, m + 1, Len(s)) = <<>>
<1>0. Len(s) \in Nat /\ m \in Nat /\ m <= Len(s) /\ \A i \in 1..Len(s) : s[i] \in Bytes
  BY LenProperties, ElementOfSeq
<1>1. /\ SubSeq(s, 1, m) \in Seq(Bytes) /\ Len(SubSeq(s, 1, m)) = m
      /\ \A i \in 1..m : SubSeq(s, 1, m)[i] = s[i]
  BY <1>0, SubSeqProperties
<1>2. SubSeq(s, m + 1, Len(s)) \in Seq(Bytes)
  BY <1>0, SubSeqProperties
<1>3. SubSeq(s, 1, Len(s)) = s
  BY SubSeqFull
<1>4. SubSeq(s, 1, m) \o SubSeq(s, m + 1, Len(s)) = s
  <2>1. 1 \in 1..Len(s) + 1 /\ m \in 1 - 1..Len(s) /\ Len(s) \in m..Len(s)
    BY <1>0
  <2> QED BY <2>1, <1>3, ConcatAdjacentSubSeq
<1>5. m = Len(s) => SubSeq(s, m + 1, Len(s)) = <<>>
  BY <1>0, SubSeqEmpty
<1> QED BY <1>1, <1>2, <1>3, <1>4, <1>5

\* A break in a prefix is the first of the stream; one that ends inside of the
\* prefix is in it.
LEMMA FrontBreak ==
    ASSUME NEW s \in Seq(Bytes), NEW m \in 0..Len(s)
    PROVE  /\ LineBreak(SubSeq(s, 1, m)) # 0 => LineBreak(s) = LineBreak(SubSeq(s, 1, m))
           /\ LineBreak(s) # 0 /\ LineBreak(s) + 1 <= m => LineBreak(SubSeq(s, 1, m)) # 0
<1> DEFINE b == SubSeq(s, 1, m)
<1>0. Len(s) \in Nat /\ m \in Nat /\ m <= Len(s)
  BY LenProperties
<1>1. b \in Seq(Bytes) /\ Len(b) = m /\ \A i \in 1..m : b[i] = s[i]
  BY Cut
<1> HIDE DEF b
<1>2. \A i : Breaks(b, i) <=> Breaks(s, i) /\ i + 1 <= m
  <2>1. ASSUME NEW i, Breaks(b, i) PROVE Breaks(s, i) /\ i + 1 <= m
    BY <1>0, <1>1, <2>1 DEF Breaks
  <2>2. ASSUME NEW i, Breaks(s, i), i + 1 <= m PROVE Breaks(b, i)
    BY <1>0, <1>1, <2>2 DEF Breaks
  <2> QED BY <2>1, <2>2
<1>3. ASSUME LineBreak(b) # 0 PROVE LineBreak(s) = LineBreak(b)
  <2> DEFINE i == LineBreak(b)
  <2>1. Breaks(b, i) /\ i \in Nat /\ \A j : Breaks(b, j) => i <= j
    BY <1>1, <1>3, BreakFacts
  <2> HIDE DEF i
  <2>2. Breaks(s, i) /\ i + 1 <= m
    BY <1>2, <2>1
  <2>3. ASSUME NEW j, Breaks(s, j) PROVE i <= j
    <3>1. j \in Nat
      BY <2>3 DEF Breaks
    <3>2. CASE j + 1 <= m
      BY <1>2, <2>1, <2>3, <3>2
    <3>3. CASE ~(j + 1 <= m)
      BY <1>0, <2>1, <2>2, <3>1, <3>3
    <3> QED BY <3>2, <3>3
  <2> QED BY <2>2, <2>3, BreakIs DEF i
<1>4. ASSUME LineBreak(s) # 0, LineBreak(s) + 1 <= m PROVE LineBreak(b) # 0
  <2>1. Breaks(s, LineBreak(s))
    BY <1>4, BreakFacts
  <2>2. Breaks(b, LineBreak(s))
    BY <1>2, <1>4, <2>1
  <2> QED BY <1>1, <2>2, BreakFacts
<1> QED BY <1>3, <1>4 DEF b

-----------------------------------------------------------------------------
(***************************************************************************)
(* _try_handoff.                                                           *)
(***************************************************************************)
Starts(b) == Len(b) >= 3 /\ b[1] = "P" /\ b[2] = "R" /\ b[3] = "R"

\* The test for the prefix, symbol by symbol.
LEMMA PrefixTest ==
    ASSUME NEW b \in Seq(Bytes)
    PROVE  IsPrefix(Prefix, b) <=> Starts(b)
<1>0. Len(b) \in Nat /\ \A i \in 1..Len(b) : b[i] \in Bytes
  BY LenProperties, ElementOfSeq
<1>1. /\ Len(Prefix) = 3 /\ Prefix[1] = "P" /\ Prefix[2] = "R" /\ Prefix[3] = "R"
      /\ Prefix \in Seq(Bytes) /\ SubSeq(Prefix, 1, 3) = Prefix
  <2>1. Len(Prefix) = 3 /\ Prefix[1] = "P" /\ Prefix[2] = "R" /\ Prefix[3] = "R"
    BY DEF Prefix
  <2>2. Prefix \in Seq(Bytes)
    BY DEF Prefix, Bytes
  <2> QED BY <2>1, <2>2, SubSeqFull
<1> HIDE DEF Prefix
<1>2. IsPrefix(Prefix, b) <=> 3 <= Len(b) /\ Prefix = SubSeq(b, 1, 3)
  BY <1>1 DEF IsPrefix
<1>3. ASSUME 3 <= Len(b) PROVE Prefix = SubSeq(b, 1, 3) <=> Starts(b)
  <2> DEFINE c == SubSeq(b, 1, 3)
  <2>1. c \in Seq(Bytes) /\ Len(c) = 3 /\ \A i \in 1..3 : c[i] = b[i]
    BY <1>0, <1>3, Cut
  <2> HIDE DEF c
  <2>2. ASSUME Prefix = c PROVE Starts(b)
    BY <1>1, <1>3, <2>1, <2>2 DEF Starts
  <2>3. ASSUME Starts(b) PROVE Prefix = c
    <3>1. \A i \in 1..3 : Prefix[i] = c[i]
      <4>1. c[1] = "P" /\ c[2] = "R" /\ c[3] = "R"
        BY <2>1, <2>3 DEF Starts
      <4>2. \A i \in 1..3 : i = 1 \/ i = 2 \/ i = 3
        OBVIOUS
      <4> QED BY <1>1, <4>1, <4>2
    <3> QED BY <1>1, <2>1, <3>1, SeqEqual
  <2> QED BY <2>2, <2>3 DEF c
<1> QED BY <1>2, <1>3 DEF Starts

\* _try_handoff, branch by branch.
LEMMA Handoff ==
    ASSUME NEW b \in Seq(Bytes), NEW force \in BOOLEAN
    PROVE  /\ b = <<>> => TryHandoff(b, force) = Wait
           /\ b # <<>> /\ b[1] # "P" => TryHandoff(b, force) = Complete(ProxyIp, b)
           /\ b # <<>> /\ b[1] = "P" /\ Len(b) < 3 =>
                TryHandoff(b, force) = IF force THEN Complete(ProxyIp, b) ELSE Wait
           /\ b # <<>> /\ b[1] = "P" /\ Len(b) >= 3 /\ ~Starts(b) =>
                TryHandoff(b, force) = Complete(ProxyIp, b)
           /\ Starts(b) /\ LineBreak(b) = 0 =>
                TryHandoff(b, force) = IF force \/ Len(b) >= MaxLine
                                       THEN Complete(ProxyIp, b) ELSE Wait
           /\ Starts(b) /\ LineBreak(b) # 0 =>
                TryHandoff(b, force) =
                    Complete(Parsed(SubSeq(b, 1, LineBreak(b) - 1)),
                             SubSeq(b, LineBreak(b) + 2, Len(b)))
<1> DEFINE i == LineBreak(b)
           t == TryHandoff(b, force)
           found == Complete(Parsed(SubSeq(b, 1, i - 1)), SubSeq(b, i + 2, Len(b)))
           given == Complete(ProxyIp, b)
<1>1. Len(b) \in Nat /\ Len(Prefix) = 3 /\ Head(Prefix) = "P"
  BY LenProperties DEF Prefix
<1>2. IsPrefix(Prefix, b) <=> Starts(b)
  BY PrefixTest
<1>3. b # <<>> => Head(b) = b[1] /\ Len(b) # 0
  BY EmptySeq
<1>4. Starts(b) => b # <<>> /\ ~(Len(b) < 3) /\ b[1] = "P"
  <2>1. Len(<<>>) = 0
    OBVIOUS
  <2> QED BY <1>1, <2>1 DEF Starts
<1>5. t = CASE b = <<>> -> Wait
          [] b # <<>> /\ Head(b) # Head(Prefix) -> given
          [] b # <<>> /\ Head(b) = Head(Prefix) /\ Len(b) < Len(Prefix) ->
               IF force THEN given ELSE Wait
          [] OTHER ->
               CASE ~IsPrefix(Prefix, b) -> given
                 [] IsPrefix(Prefix, b) /\ i = 0 ->
                      IF force \/ Len(b) >= MaxLine THEN given ELSE Wait
                 [] OTHER -> found
  BY DEF TryHandoff
<1> HIDE DEF i, t, found, given
<1>6. b = <<>> => t = Wait
  BY <1>5
<1>7. b # <<>> /\ b[1] # "P" => t = given
  BY <1>1, <1>3, <1>5
<1>8. b # <<>> /\ b[1] = "P" /\ Len(b) < 3 => t = IF force THEN given ELSE Wait
  BY <1>1, <1>3, <1>5
<1>9. b # <<>> /\ b[1] = "P" /\ ~(Len(b) < 3) =>
        /\ ~Starts(b) => t = given
        /\ Starts(b) /\ i = 0 => t = IF force \/ Len(b) >= MaxLine THEN given ELSE Wait
        /\ Starts(b) /\ i # 0 => t = found
  BY <1>1, <1>2, <1>3, <1>5
<1> QED BY <1>1, <1>4, <1>6, <1>7, <1>8, <1>9 DEF i, t, found, given

\* What is handed over, by the part s of the stream that follows it.
After(h, s, m) == h.leftover \o SubSeq(s, m + 1, Len(s))

\* It is the stream, or what follows its first line; and unless that line is too
\* long, it is what the whole stream in one piece would have led to.
Sound(h, s, m) ==
    /\ h.leftover \in Seq(Bytes) /\ h.ip # "none"
    /\ After(h, s, m) = s \/ After(h, s, m) = SubSeq(s, LineBreak(s) + 2, Len(s))
    /\ LineBreak(s) + 1 <= MaxLine =>
         h.ip = TryHandoff(s, TRUE).ip /\ After(h, s, m) = TryHandoff(s, TRUE).leftover

\* A prefix of the stream, of any length, that settles the matter.
LEMMA Decided ==
    ASSUME NEW s \in Seq(Bytes), NEW m \in 0..Len(s), NEW force \in BOOLEAN,
           force => m = Len(s), TryHandoff(SubSeq(s, 1, m), force).done
    PROVE  Sound(TryHandoff(SubSeq(s, 1, m), force), s, m)
<1> DEFINE b == SubSeq(s, 1, m)
           rest == SubSeq(s, m + 1, Len(s))
           h == TryHandoff(b, force)
           w == TryHandoff(s, TRUE)
<1>0. Len(s) \in Nat /\ m \in Nat /\ m <= Len(s) /\ MaxLine \in Nat
  BY LenProperties, LineAssumption
<1>1. /\ b \in Seq(Bytes) /\ Len(b) = m /\ (\A i \in 1..m : b[i] = s[i])
      /\ rest \in Seq(Bytes) /\ b \o rest = s /\ (m = Len(s) => b = s)
  BY Cut
<1>2. /\ LineBreak(b) # 0 => LineBreak(s) = LineBreak(b)
      /\ LineBreak(s) # 0 /\ LineBreak(s) + 1 <= m => LineBreak(b) # 0
      /\ LineBreak(b) \in Nat /\ LineBreak(s) \in Nat
  BY <1>1, FrontBreak, BreakFacts
<1>3. After(h, s, m) = h.leftover \o rest
  BY DEF After
<1>4. h.done
  OBVIOUS
<1> HIDE DEF rest, h, w
<1>5. \A a, l : /\ Complete(a, l).done = TRUE /\ Complete(a, l).ip = a
                /\ Complete(a, l).leftover = l
  BY DEF Complete
<1>6. Wait.done = FALSE
  BY DEF Wait
<1>7. ProxyIp # "none" /\ \A l : Parsed(l) # "none"
  BY AddressAssumption DEF Parsed
<1>8. b # <<>> /\ m # 0 /\ b[1] = s[1] /\ s # <<>>
  <2>1. b # <<>>
    BY <1>1, <1>4, <1>6, Handoff DEF h
  <2>2. Len(b) # 0
    BY <1>1, <2>1, EmptySeq
  <2>3. 1 \in 1..m
    BY <1>0, <1>1, <2>2
  <2>4. s # <<>>
    BY <1>0, <1>1, <2>2, EmptySeq
  <2> QED BY <1>1, <2>1, <2>2, <2>3, <2>4
<1>9. ASSUME h = Complete(ProxyIp, b), LineBreak(s) + 1 <= MaxLine => w = Complete(ProxyIp, s)
      PROVE  Sound(h, s, m)
  <2>1. h.leftover = b /\ h.ip = ProxyIp /\ After(h, s, m) = s
    BY <1>1, <1>3, <1>5, <1>9
  <2>2. LineBreak(s) + 1 <= MaxLine => w.ip = ProxyIp /\ w.leftover = s
    BY <1>5, <1>9
  <2> QED BY <1>1, <1>7, <2>1, <2>2 DEF w, Sound
<1>10. CASE b[1] # "P"
  <2>1. h = Complete(ProxyIp, b) /\ w = Complete(ProxyIp, s)
    BY <1>1, <1>8, <1>10, Handoff DEF h, w
  <2> QED BY <1>9, <2>1 DEF h
<1>11. CASE b[1] = "P" /\ Len(b) < 3
  <2>1. h = IF force THEN Complete(ProxyIp, b) ELSE Wait
    BY <1>1, <1>8, <1>11, Handoff DEF h
  <2>2. force /\ h = Complete(ProxyIp, b)
    BY <1>4, <1>6, <2>1
  <2>3. b = s
    BY <1>1, <2>2
  <2>4. w = Complete(ProxyIp, s)
    BY <1>8, <1>11, <2>3, Handoff DEF w
  <2> QED BY <1>9, <2>2, <2>4 DEF h
<1>12. CASE b[1] = "P" /\ Len(b) >= 3 /\ ~Starts(b)
  <2>1. h = Complete(ProxyIp, b)
    BY <1>1, <1>8, <1>12, Handoff DEF h
  <2>2. Len(s) >= 3 /\ ~Starts(s) /\ s[1] = "P"
    BY <1>0, <1>1, <1>8, <1>12 DEF Starts
  <2>3. w = Complete(ProxyIp, s)
    BY <1>8, <2>2, Handoff DEF w
  <2> QED BY <1>9, <2>1, <2>3 DEF h
<1>13. CASE Starts(b)
  <2>1. Starts(s) /\ m >= 3
    BY <1>0, <1>1, <1>13 DEF Starts
  <2>2. CASE LineBreak(b) = 0
    <3>1. h = IF force \/ Len(b) >= MaxLine THEN Complete(ProxyIp, b) ELSE Wait
      BY <1>1, <1>13, <2>2, Handoff DEF h
    <3>2. h = Complete(ProxyIp, b) /\ (force \/ m >= MaxLine)
      BY <1>1, <1>4, <1>6, <3>1
    <3>3. ASSUME LineBreak(s) + 1 <= MaxLine PROVE w = Complete(ProxyIp, s)
      <4>1. LineBreak(s) = 0
        <5>1. CASE force
          BY <1>1, <2>2, <5>1
        <5>2. CASE m >= MaxLine
          BY <1>0, <1>2, <2>2, <3>3, <5>2
        <5> QED BY <3>2, <5>1, <5>2
      <4> QED BY <2>1, <4>1, Handoff DEF w
    <3> QED BY <1>9, <3>2, <3>3 DEF h
  <2>3. CASE LineBreak(b) # 0
    <3> DEFINE i == LineBreak(s)
    <3>1. i = LineBreak(b) /\ i \in Nat /\ i >= 1 /\ i + 1 <= m
      <4>1. Breaks(b, LineBreak(b))
        BY <1>1, <2>3, BreakFacts
      <4> QED BY <1>0, <1>1, <1>2, <2>3, <4>1 DEF Breaks
    <3>2. /\ h = Complete(Parsed(SubSeq(b, 1, i - 1)), SubSeq(b, i + 2, m))
          /\ w = Complete(Parsed(SubSeq(s, 1, i - 1)), SubSeq(s, i + 2, Len(s)))
      BY <1>1, <1>13, <2>1, <2>3, <3>1, Handoff DEF h, w
    <3> HIDE DEF i
    <3>3. SubSeq(b, 1, i - 1) = SubSeq(s, 1, i - 1)
      <4>1. /\ SubSeq(b, 1, i - 1) \in Seq(Bytes) /\ Len(SubSeq(b, 1, i - 1)) = i - 1
            /\ \A j \in 1..i - 1 : SubSeq(b, 1, i - 1)[j] = b[j]
        <5>1. i - 1 \in 0..Len(b)
          BY <1>0, <1>1, <3>1
        <5> HIDE DEF b
        <5> QED BY <1>1, <5>1, Cut
      <4>2. /\ SubSeq(s, 1, i - 1) \in Seq(Bytes) /\ Len(SubSeq(s, 1, i - 1)) = i - 1
            /\ \A j \in 1..i - 1 : SubSeq(s, 1, i - 1)[j] = s[j]
        <5>1. i - 1 \in 0..Len(s)
          BY <1>0, <3>1
        <5> QED BY <5>1, Cut
      <4>3. \A j \in 1..i - 1 : b[j] = s[j]
        BY <1>0, <1>1, <3>1
      <4> QED BY <4>1, <4>2, <4>3, SeqEqual
    <3>4. SubSeq(b, i + 2, m) \in Seq(Bytes) /\ SubSeq(b, i + 2, m) = SubSeq(s, i + 2, m)
      <4> HIDE DEF b
      <4>0. \A j \in i + 2..m : b[j] \in Bytes /\ s[j] \in Bytes /\ b[j] = s[j]
        <5>1. \A j \in i + 2..m : j \in 1..m /\ j \in 1..Len(b) /\ j \in 1..Len(s)
          BY <1>0, <1>1, <3>1
        <5> QED BY <1>1, <5>1, ElementOfSeq
      <4>1. /\ SubSeq(b, i + 2, m) \in Seq(Bytes)
            /\ Len(SubSeq(b, i + 2, m)) = IF i + 2 <= m THEN m - (i + 2) + 1 ELSE 0
            /\ \A j \in 1..m - (i + 2) + 1 : SubSeq(b, i + 2, m)[j] = b[i + 2 + j - 1]
        BY <1>0, <3>1, <4>0, SubSeqProperties
      <4>2. /\ SubSeq(s, i + 2, m) \in Seq(Bytes)
            /\ Len(SubSeq(s, i + 2, m)) = IF i + 2 <= m THEN m - (i + 2) + 1 ELSE 0
            /\ \A j \in 1..m - (i + 2) + 1 : SubSeq(s, i + 2, m)[j] = s[i + 2 + j - 1]
        BY <1>0, <3>1, <4>0, SubSeqProperties
      <4>3. \A j \in 1..Len(SubSeq(b, i + 2, m)) : SubSeq(b, i + 2, m)[j] = SubSeq(s, i + 2, m)[j]
        <5>1. ASSUME NEW j \in 1..Len(SubSeq(b, i + 2, m))
              PROVE  j \in 1..m - (i + 2) + 1 /\ i + 2 + j - 1 \in i + 2..m
          BY <1>0, <3>1, <4>1, SMTT(30)
        <5> QED BY <5>1, <4>0, <4>1, <4>2
      <4> QED BY <4>1, <4>2, <4>3, SeqEqual
    <3>5. SubSeq(s, i + 2, m) \o rest = SubSeq(s, i + 2, Len(s))
      <4>1. i + 2 \in 1..Len(s) + 1 /\ m \in (i + 2) - 1..Len(s) /\ Len(s) \in m..Len(s)
        BY <1>0, <3>1
      <4> QED BY <4>1, ConcatAdjacentSubSeq DEF rest
    <3>6. /\ h.leftover = SubSeq(b, i + 2, m) /\ h.ip = Parsed(SubSeq(b, 1, i - 1))
          /\ w.leftover = SubSeq(s, i + 2, Len(s)) /\ w.ip = Parsed(SubSeq(s, 1, i - 1))
      BY <1>5, <3>2
    <3>7. After(h, s, m) = SubSeq(s, i + 2, Len(s)) /\ h.ip # "none" /\ h.leftover \in Seq(Bytes)
      BY <1>3, <1>7, <3>4, <3>5, <3>6
    <3> QED BY <3>3, <3>6, <3>7 DEF Sound, w, i, h
  <2> QED BY <2>2, <2>3
<1>14. m < 3 \/ m >= 3
  BY <1>0
<1> QED BY <1>1, <1>10, <1>11, <1>12, <1>13, <1>14 DEF h

-----------------------------------------------------------------------------
(***************************************************************************)
(* The inductive invariant: before the hand-over the buffer is what has    *)
(* arrived; after it, asyncssh has and will get what is due.               *)
(***************************************************************************)
Delivered(a, t, s) ==
    /\ t = s \/ t = SubSeq(s, LineBreak(s) + 2, Len(s))
    /\ s # <<>> /\ LineBreak(s) + 1 <= MaxLine =>
         a = TryHandoff(s, TRUE).ip /\ t = TryHandoff(s, TRUE).leftover

IInv ==
    /\ header \in Headers /\ message \in Messages /\ pos \in 0..Len(Stream)
    /\ ip = "none" => buf = SubSeq(Stream, 1, pos) /\ inner = <<>>
    /\ ip # "none" => /\ buf = <<>> /\ inner \in Seq(Bytes)
                      /\ Delivered(ip, inner \o Rest, Stream)

\* The line is six symbols with one break.
LEMMA LineFacts ==
    ASSUME NEW a \in Addresses \cup {"UNKNOWN"}
    PROVE  /\ Line(a) \in Seq(Bytes) /\ Len(Line(a)) = 6
           /\ Line(a)[1] = "P" /\ Line(a)[2] = "R" /\ Line(a)[3] = "R"
           /\ Line(a)[5] = "CR" /\ Line(a)[6] = "LF"
<1> DEFINE p == <<"P", "R", "R">>
           q == <<a, "CR", "LF">>
<1>1. a \in Bytes /\ "P" \in Bytes /\ "R" \in Bytes /\ "CR" \in Bytes /\ "LF" \in Bytes
  BY DEF Bytes
<1>2. p \in Seq(Bytes) /\ Len(p) = 3 /\ p[1] = "P" /\ p[2] = "R" /\ p[3] = "R"
  BY <1>1
<1>3. q \in Seq(Bytes) /\ Len(q) = 3 /\ q[2] = "CR" /\ q[3] = "LF"
  BY <1>1
<1>4. Line(a) = p \o q
  BY DEF Line, Prefix
<1> HIDE DEF p, q
<1>5. /\ p \o q \in Seq(Bytes) /\ Len(p \o q) = Len(p) + Len(q)
      /\ \A i \in 1..Len(p) + Len(q) :
           (p \o q)[i] = IF i <= Len(p) THEN p[i] ELSE q[i - Len(p)]
  BY <1>2, <1>3, ConcatProperties
<1> QED BY <1>2, <1>3, <1>4, <1>5

\* What the proxy and the client send are bytes.
LEMMA StreamFacts ==
    ASSUME header \in Headers, message \in Messages
    PROVE  /\ header \in Seq(Bytes) /\ message \in Seq(Bytes) /\ Stream \in Seq(Bytes)
           /\ header # <<>> => \E a \in Addresses \cup {"UNKNOWN"} : header = Line(a)
<1>1. header = <<>> \/ \E a \in Addresses \cup {"UNKNOWN"} : header = Line(a)
  BY HeaderAssumption
<1>2. header \in Seq(Bytes)
  BY <1>1, LineFacts, EmptySeq
<1>3. message \in Seq(Bytes)
  <2> DEFINE S == {message[i] : i \in DOMAIN message}
  <2>1. message \in Seq(S)
    BY MessageAssumption
  <2>2. S \subseteq Bytes
    BY DEF Bytes
  <2> HIDE DEF S
  <2> QED BY <2>1, <2>2, SeqMonotonic
<1> QED BY <1>1, <1>2, <1>3, ConcatProperties DEF Stream

\* Before a byte has arrived there is nothing to be exact about.
LEMMA InitInv == Init => IInv
<1> SUFFICES ASSUME Init PROVE IInv
  OBVIOUS
<1>1. header \in Headers /\ message \in Messages /\ pos = 0
      /\ buf = <<>> /\ ip = "none" /\ inner = <<>>
  BY DEF Init
<1>2. Stream \in Seq(Bytes)
  BY <1>1, StreamFacts
<1>3. 0 \in 0..Len(Stream)
  BY <1>2, LenProperties
<1>4. SubSeq(Stream, 1, 0) = <<>>
  BY SubSeqEmpty
<1> QED BY <1>1, <1>3, <1>4 DEF IInv

\* A hand-over that is sound for a prefix of the stream delivers what is due.
LEMMA HandedOver ==
    ASSUME NEW s \in Seq(Bytes), NEW m \in 0..Len(s), NEW h, Sound(h, s, m)
    PROVE  Delivered(h.ip, h.leftover \o SubSeq(s, m + 1, Len(s)), s)
BY DEF Sound, Delivered, After

\* data_received keeps every byte: in the buffer, or for asyncssh.
LEMMA DataInv ==
    ASSUME IInv, NEW n \in 1..Len(Stream), DataReceived(n)
    PROVE  IInv'
<1> DEFINE s == Stream
           data == SubSeq(s, pos + 1, pos + n)
           m == pos + n
           h == TryHandoff(SubSeq(s, 1, m), FALSE)
<1>1. /\ header \in Headers /\ message \in Messages /\ pos \in 0..Len(s)
      /\ header' = header /\ message' = message /\ Stream' = s /\ pos' = m
      /\ m <= Len(s)
  BY DEF IInv, DataReceived, Stream
<1>2. s \in Seq(Bytes)
  BY <1>1, StreamFacts
<1>3. Len(s) \in Nat /\ pos \in Nat /\ n \in Nat /\ m \in 0..Len(s) /\ pos' \in 0..Len(s)
  BY <1>1, <1>2, LenProperties
<1>4. /\ SubSeq(s, 1, pos) \o data = SubSeq(s, 1, m)
      /\ data \o SubSeq(s, m + 1, Len(s)) = SubSeq(s, pos + 1, Len(s))
      /\ data \in Seq(Bytes) /\ SubSeq(s, m + 1, Len(s)) \in Seq(Bytes)
  <2> HIDE DEF s
  <2>1. 1 \in 1..Len(s) + 1 /\ pos \in 1 - 1..Len(s) /\ m \in pos..Len(s)
    BY <1>1, <1>3
  <2>2. SubSeq(s, 1, pos) \o data = SubSeq(s, 1, m)
    BY <1>2, <2>1, ConcatAdjacentSubSeq
  <2>3. pos + 1 \in 1..Len(s) + 1 /\ m \in (pos + 1) - 1..Len(s) /\ Len(s) \in m..Len(s)
    BY <1>1, <1>3
  <2>4. data \o SubSeq(s, m + 1, Len(s)) = SubSeq(s, pos + 1, Len(s))
    BY <1>2, <2>3, ConcatAdjacentSubSeq
  <2>5. \A i \in 1..Len(s) : s[i] \in Bytes
    BY <1>2, ElementOfSeq
  <2>6. data \in Seq(Bytes)
    <3>1. \A i \in pos + 1..m : s[i] \in Bytes
      BY <1>1, <1>3, <2>5
    <3> QED BY <1>3, <3>1, SubSeqProperties
  <2>7. SubSeq(s, m + 1, Len(s)) \in Seq(Bytes)
    BY <1>2, <1>3, Cut
  <2> QED BY <2>2, <2>4, <2>6, <2>7
<1>5. Rest = SubSeq(s, pos + 1, Len(s)) /\ Rest' = SubSeq(s, m + 1, Len(s))
  BY <1>1 DEF Rest
<1>6. \/ ip # "none" /\ inner' = inner \o data /\ buf' = buf /\ ip' = ip
      \/ ip = "none" /\ buf = SubSeq(s, 1, pos) /\ inner = <<>>
         /\ TryHandoff(buf \o data, FALSE).done /\ HandOver(TryHandoff(buf \o data, FALSE))
      \/ ip = "none" /\ buf' = buf \o data /\ buf = SubSeq(s, 1, pos)
         /\ inner = <<>> /\ ip' = ip /\ inner' = inner
  BY DEF DataReceived, IInv
<1>7. CASE ip # "none" /\ inner' = inner \o data /\ buf' = buf /\ ip' = ip
  <2>1. inner \in Seq(Bytes) /\ buf = <<>> /\ Delivered(ip, inner \o Rest, s)
    BY <1>7 DEF IInv
  <2> HIDE DEF s, data
  <2> DEFINE left == SubSeq(s, m + 1, Len(s))
  <2>2. (inner \o data) \o left = inner \o (data \o left)
    <3>1. left \in Seq(Bytes) /\ data \in Seq(Bytes)
      BY <1>4
    <3> HIDE DEF left
    <3> QED BY <2>1, <3>1, ConcatAssociative, SMTT(30)
  <2>3. inner' \o Rest' = inner \o Rest /\ inner' \in Seq(Bytes)
    BY <1>4, <1>5, <1>7, <2>1, <2>2, ConcatProperties
  <2>4. Delivered(ip', inner' \o Rest', s)
    BY <1>7, <2>1, <2>3
  <2> QED BY <1>1, <1>3, <1>7, <2>1, <2>3, <2>4 DEF IInv
<1>8. CASE ip = "none" /\ buf = SubSeq(s, 1, pos) /\ inner = <<>>
         /\ TryHandoff(buf \o data, FALSE).done /\ HandOver(TryHandoff(buf \o data, FALSE))
  <2>1. h.done /\ ip' = h.ip /\ inner' = h.leftover /\ buf' = <<>>
    BY <1>4, <1>8 DEF HandOver
  <2> HIDE DEF s, data, m
  <2>2. Sound(h, s, m)
    BY <1>2, <1>3, <2>1, Decided
  <2> HIDE DEF h
  <2>3. Delivered(h.ip, h.leftover \o SubSeq(s, m + 1, Len(s)), s)
    BY <1>2, <1>3, <2>2, HandedOver
  <2>4. ip' # "none" /\ inner' \in Seq(Bytes)
    BY <2>1, <2>2 DEF Sound
  <2>5. Delivered(ip', inner' \o Rest', Stream')
    BY <1>1, <1>5, <2>1, <2>3
  <2> QED BY <1>1, <1>3, <2>1, <2>4, <2>5 DEF IInv
<1>9. CASE ip = "none" /\ buf' = buf \o data /\ buf = SubSeq(s, 1, pos)
           /\ inner = <<>> /\ ip' = ip /\ inner' = inner
  BY <1>1, <1>3, <1>4, <1>9 DEF IInv
<1> QED BY <1>6, <1>7, <1>8, <1>9

\* eof_received hands over what there is.
LEMMA EofInv ==
    ASSUME IInv, EofReceived
    PROVE  IInv'
<1> DEFINE s == Stream
           h == IF buf = <<>> THEN Complete(ProxyIp, <<>>) ELSE TryHandoff(buf, TRUE)
<1>1. /\ header \in Headers /\ message \in Messages /\ pos \in 0..Len(s)
      /\ header' = header /\ message' = message /\ Stream' = s /\ pos' = pos
      /\ pos = Len(s) /\ Rest' = Rest
  BY DEF IInv, EofReceived, Stream, Rest
<1>2. s \in Seq(Bytes) /\ Len(s) \in Nat
  BY <1>1, StreamFacts, LenProperties
<1>3. SubSeq(s, 1, pos) = s /\ Rest = <<>> /\ Rest = SubSeq(s, pos + 1, Len(s))
  <2> HIDE DEF s
  <2>1. /\ SubSeq(s, 1, pos) = s
        /\ SubSeq(s, pos + 1, Len(s)) = <<>>
    BY <1>1, <1>2, Cut
  <2> QED BY <2>1 DEF Rest, s
<1>4. CASE ip = "none" /\ h.done
  <2>1. buf = s /\ ip' = h.ip /\ inner' = h.leftover /\ buf' = <<>>
    BY <1>3, <1>4 DEF IInv, EofReceived, HandOver
  <2>2. CASE buf = <<>>
    <3>1. ip' = ProxyIp /\ inner' = <<>> /\ ip' # "none"
      BY <2>1, <2>2, AddressAssumption DEF Complete
    <3>2. <<>> \o <<>> = <<>> /\ <<>> \in Seq(Bytes)
      BY EmptySeq, ConcatEmptySeq
    <3>3. Delivered(ip', inner' \o Rest', Stream')
      BY <1>1, <1>3, <2>1, <2>2, <3>1, <3>2 DEF Delivered
    <3> QED BY <1>1, <2>1, <3>1, <3>2, <3>3 DEF IInv
  <2>3. CASE buf # <<>>
    <3>1. h = TryHandoff(SubSeq(s, 1, pos), TRUE)
      BY <1>3, <2>1, <2>3
    <3>2. TryHandoff(SubSeq(s, 1, pos), TRUE).done
      BY <1>4, <3>1
    <3> HIDE DEF s, h
    <3>3. Sound(TryHandoff(SubSeq(s, 1, pos), TRUE), s, pos)
      BY <1>1, <1>2, <3>2, Decided
    <3>4. Sound(h, s, pos)
      BY <3>1, <3>3
    <3>5. Delivered(h.ip, h.leftover \o SubSeq(s, pos + 1, Len(s)), s)
      BY <1>1, <1>2, <3>4, HandedOver
    <3>6. ip' # "none" /\ inner' \in Seq(Bytes)
      BY <2>1, <3>4 DEF Sound
    <3>7. Delivered(ip', inner' \o Rest', Stream')
      BY <1>1, <1>3, <2>1, <3>5
    <3> QED BY <1>1, <2>1, <3>6, <3>7 DEF IInv
  <2> QED BY <2>2, <2>3
<1>5. CASE ~(ip = "none" /\ h.done)
  <2>1. buf' = buf /\ ip' = ip /\ inner' = inner
    BY <1>5 DEF EofReceived
  <2> QED BY <1>1, <2>1 DEF IInv
<1> QED BY <1>4, <1>5

\* Every step keeps the invariant.
LEMMA StepInv == IInv /\ [Next]_vars => IInv'
<1> SUFFICES ASSUME IInv, [Next]_vars PROVE IInv'
  OBVIOUS
<1>1. ASSUME NEW n \in 1..Len(Stream), DataReceived(n) PROVE IInv'
  BY <1>1, DataInv
<1>2. CASE EofReceived
  BY <1>2, EofInv
<1>3. CASE ConnectionLost \/ UNCHANGED vars
  <2>1. /\ header' = header /\ message' = message /\ pos' = pos /\ buf' = buf
        /\ ip' = ip /\ inner' = inner
    BY <1>3 DEF ConnectionLost, vars
  <2>2. Stream' = Stream /\ Rest' = Rest
    BY <2>1 DEF Stream, Rest
  <2> QED BY <2>1, <2>2 DEF IInv
<1> QED BY <1>1, <1>2, <1>3 DEF Next

-----------------------------------------------------------------------------
\* The inductive invariant holds in every state.
THEOREM Invariance == Spec => []IInv
BY InitInv, StepInv, PTL DEF Spec

\* No byte is lost or repeated at the hand-over (_try_handoff, _complete): before
\* it all are kept, after it asyncssh has the stream or what follows its first line.
THEOREM HandOverStaysExact == Spec => []HandOverIsExact
<1>1. IInv => HandOverIsExact
  <2> SUFFICES ASSUME IInv PROVE HandOverIsExact
    OBVIOUS
  <2>1. Stream \in Seq(Bytes) /\ pos \in 0..Len(Stream)
    BY StreamFacts DEF IInv
  <2>2. SubSeq(Stream, 1, pos) \o Rest = Stream
    BY <2>1, Cut DEF Rest
  <2> QED BY <2>2 DEF IInv, HandOverIsExact, Delivered
<1> QED BY <1>1, Invariance, PTL

\* However a stream is cut into pieces, the outcome is that of the stream in one
\* piece, unless its first line is longer than _PROXY_MAX_LINE.
THEOREM PiecesNeverMatter == Spec => []PiecesDoNotMatter
<1>1. IInv => PiecesDoNotMatter
  BY DEF IInv, PiecesDoNotMatter, Delivered
<1> QED BY <1>1, Invariance, PTL

\* A client behind the proxy is known by the address the proxy wrote, whatever it
\* sends itself, and asyncssh reads just what it sent.
THEOREM ProxyStaysBelieved == Spec => []ProxyIsBelieved
<1>1. IInv => ProxyIsBelieved
  <2> SUFFICES ASSUME IInv, header # <<>>, ip # "none"
               PROVE  /\ ip = Parsed(SubSeq(header, 1, Len(header) - 2))
                      /\ inner \o Rest = message
    BY DEF ProxyIsBelieved
  <2> DEFINE s == Stream
             w == TryHandoff(s, TRUE)
  <2>1. /\ header \in Seq(Bytes) /\ message \in Seq(Bytes) /\ s \in Seq(Bytes)
        /\ s = header \o message
    BY StreamFacts DEF IInv, Stream
  <2>2. PICK a \in Addresses \cup {"UNKNOWN"} : header = Line(a)
    BY StreamFacts DEF IInv
  <2>3. /\ Len(header) = 6 /\ header[1] = "P" /\ header[2] = "R" /\ header[3] = "R"
        /\ header[5] = "CR" /\ header[6] = "LF"
    BY <2>2, LineFacts
  <2> HIDE DEF s
  <2>4. /\ Len(s) = 6 + Len(message) /\ Len(message) \in Nat
        /\ \A i \in 1..6 : s[i] = header[i]
    <3>1. /\ Len(header \o message) = Len(header) + Len(message)
          /\ \A i \in 1..Len(header) + Len(message) :
               (header \o message)[i] = IF i <= Len(header) THEN header[i]
                                        ELSE message[i - Len(header)]
      BY <2>1, ConcatProperties
    <3>2. Len(message) \in Nat
      BY <2>1, LenProperties
    <3> QED BY <2>1, <2>3, <3>1, <3>2
  <2>5. Breaks(s, 5) /\ \A j : Breaks(s, j) => 5 <= j
    <3>1. s[1] = "P" /\ s[2] = "R" /\ s[3] = "R" /\ s[5] = "CR" /\ s[6] = "LF"
      BY <2>3, <2>4
    <3>2. Breaks(s, 5)
      BY <2>4, <3>1 DEF Breaks
    <3>3. ASSUME NEW j, Breaks(s, j), ~(5 <= j) PROVE FALSE
      <4>1. j \in 1..4 /\ s[j] = "CR" /\ s[j + 1] = "LF"
        BY <2>4, <3>3 DEF Breaks
      <4>2. j = 1 \/ j = 2 \/ j = 3 \/ j = 4
        BY <4>1
      <4> QED BY <3>1, <4>1, <4>2
    <3> QED BY <3>2, <3>3
  <2>6. LineBreak(s) = 5
    BY <2>1, <2>5, BreakIs
  <2>7. Starts(s) /\ s # <<>>
    <3>1. Len(<<>>) = 0
      OBVIOUS
    <3> QED BY <2>3, <2>4, <3>1 DEF Starts
  <2>8. w = Complete(Parsed(SubSeq(s, 1, 4)), SubSeq(s, 7, Len(s)))
    <3>1. LineBreak(s) - 1 = 4 /\ LineBreak(s) + 2 = 7 /\ LineBreak(s) # 0
      BY <2>6
    <3>2. w = Complete(Parsed(SubSeq(s, 1, LineBreak(s) - 1)),
                       SubSeq(s, LineBreak(s) + 2, Len(s)))
      BY <2>1, <2>7, <3>1, Handoff
    <3> HIDE DEF w
    <3> QED BY <3>1, <3>2
  <2>9. SubSeq(s, 1, 4) = SubSeq(header, 1, 4)
    <3>1. 1 \in 1..Len(header) /\ 4 \in 1..Len(header)
      BY <2>3
    <3>2. SubSeq(header \o message, 1, 4) = SubSeq(header, 1, 4)
      BY <2>1, <3>1, SubSeqOfConcat1
    <3> QED BY <2>1, <3>2
  <2>10. SubSeq(s, 7, Len(s)) = message
    <3> DEFINE u == SubSeq(s, 7, Len(s))
    <3>1. /\ u \in Seq(Bytes) /\ Len(u) = IF 7 <= Len(s) THEN Len(s) - 7 + 1 ELSE 0
          /\ \A i \in 1..Len(s) - 7 + 1 : u[i] = s[7 + i - 1]
      <4>1. \A i \in 7..Len(s) : s[i] \in Bytes
        <5>1. \A i \in 7..Len(s) : i \in 1..Len(s)
          BY <2>4
        <5> QED BY <2>1, <5>1, ElementOfSeq
      <4> QED BY <2>4, <4>1, SubSeqProperties
    <3>2. Len(u) = Len(message)
      BY <2>4, <3>1
    <3>3. ASSUME NEW i \in 1..Len(message) PROVE u[i] = message[i]
      <4>1. u[i] = s[i + 6]
        BY <2>4, <3>1
      <4>2. i + 6 \in 1..Len(header) + Len(message) /\ ~(i + 6 <= Len(header))
        BY <2>3, <2>4
      <4>3. s[i + 6] = message[i + 6 - Len(header)]
        BY <2>1, <4>2, ConcatProperties
      <4> QED BY <2>3, <2>4, <4>1, <4>3
    <3> HIDE DEF u
    <3>4. u = message
      BY <2>1, <3>1, <3>2, <3>3, SeqEqual
    <3> QED BY <3>4 DEF u
  <2>11. LineBreak(s) + 1 <= MaxLine
    <3>1. Len(Prefix) = 3
      BY DEF Prefix
    <3> QED BY <2>6, <3>1, LineAssumption
  <2>12. ip = w.ip /\ inner \o Rest = w.leftover
    BY <2>7, <2>11 DEF IInv, Delivered, s
  <2>13. w.ip = Parsed(SubSeq(s, 1, 4)) /\ w.leftover = SubSeq(s, 7, Len(s))
    <3>1. \A b, l : Complete(b, l).ip = b /\ Complete(b, l).leftover = l
      BY DEF Complete
    <3> HIDE DEF w
    <3> QED BY <2>8, <3>1
  <2>14. Len(header) - 2 = 4
    BY <2>3
  <2> HIDE DEF w
  <2> QED BY <2>9, <2>10, <2>12, <2>13, <2>14
<1> QED BY <1>1, Invariance, PTL
=============================================================================
