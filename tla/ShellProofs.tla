---------------------------- MODULE ShellProofs -----------------------------
(***************************************************************************)
(* What the shells of an address promise holds for any lines, any files,   *)
(* any number of shells and any nesting.  The invariant is about one shell *)
(* at a time (Local), but for the answers of the provider, which they      *)
(* share (Shared).  A step changes the stack of its shell in one of three  *)
(* ways: the frame on top is replaced, a frame is pushed, or the frame on  *)
(* top returns; the lemmas go by these.                                    *)
(***************************************************************************)
EXTENDS Shell, SequenceTheorems, FiniteSetTheorems, WellFoundedInduction, TLAPS

\* The pipeline stages there are, and their commands.
Stages == UNION {{LineOf[l][i] : i \in DOMAIN LineOf[l]} : l \in Lines}

Cmds == {g.cmd : g \in Stages}

Places == {"start", "inner", "asking", "stream", "finish", "record"}

LineFrames ==
    [kind : {"line"}, line : Lines, rest : Seq(Stages), last : Results, out : Texts]

ScriptFrames ==
    [kind : {"script"}, rest : Texts, last : Results, out : Texts, depth : Nat, saved : Nat]

CommandFrames ==
    [kind : {"cmd"}, cmd : Cmds, stdin : Texts, id : Nat, at : Places, last : Results,
     kept : BOOLEAN]

Frames == LineFrames \cup ScriptFrames \cup CommandFrames

Logs ==
    [ids : SUBSET Nat,
     last : [id : Nat, notes : SUBSET Nat, end : {"go", "exit", "raise"}]]

-----------------------------------------------------------------------------
(***************************************************************************)
(* The parts of the invariant, for a shell with the stack k.               *)
(***************************************************************************)
CmdAt(k, i) == i \in 1..Len(k) /\ k[i].kind = "cmd"

\* Who calls whom; only the frame on top is not waiting for another.
WellNested(k) ==
    /\ k \in Seq(Frames)
    /\ k # <<>> => k[1].kind = "line"
    /\ \A i \in 2..Len(k) : k[i - 1].kind \in Callers(k[i].kind)
    /\ \A i : CmdAt(k, i) => (k[i].at = "inner" <=> i < Len(k))

\* d is the depth of the innermost script below place i.
Covers(k, i, d) ==
    \/ d = 0 /\ \A j \in 1..i - 1 : k[j].kind # "script"
    \/ \E j \in 1..i - 1 : /\ k[j].kind = "script" /\ k[j].depth = d
                           /\ \A m \in j + 1..i - 1 : k[m].kind # "script"

DepthOK(k, d) ==
    /\ Covers(k, Len(k) + 1, d) /\ d <= MaxScriptDepth
    /\ \A i \in 1..Len(k) : k[i].kind = "script" =>
         Covers(k, i, k[i].saved) /\ k[i].depth <= MaxScriptDepth

\* Commands are numbered from the outside in; what is noted is no older than any
\* of them, and only a command that is through has noted something.
IdsOK(k, b, ns) ==
    \A i : CmdAt(k, i) =>
        /\ k[i].id \in 1..b
        /\ \A n \in ns : n >= k[i].id
        /\ \A j : CmdAt(k, j) /\ i < j => k[i].id < k[j].id
        /\ k[i].kept => k[i].at \in {"finish", "record"}

\* What the command on top has noted is on its way into its record.
KeptOK(k, ns, lg) ==
    CmdAt(k, Len(k)) /\ k[Len(k)].kept =>
        /\ k[Len(k)].at = "finish" => k[Len(k)].id \in ns
        /\ k[Len(k)].at = "record" => k[Len(k)].id \in lg.last.notes

IsOpen(k, n) == \E i : CmdAt(k, i) /\ k[i].at # "record" /\ k[i].id = n

LogOK(k, b, lg) ==
    /\ \A n \in lg.ids : ~IsOpen(k, n)
    /\ \A n : n \in 1..b <=> n \in lg.ids \/ IsOpen(k, n)
    /\ \A n \in lg.last.notes : n >= lg.last.id

StatusOK(k, st) ==
    LET f == k[Len(k)]
    IN  k # <<>> /\ f.kind = "line" /\ f.last.end = "go" /\ f.rest # LineOf[f.line]
            => st = f.last.code

\* As long as something else may be run, nothing that was recorded has ended it.
EndOK(k, m, lg) ==
    LET f == k[Len(k)]
        free == CASE f.kind = "cmd" -> \/ f.at \in {"start", "asking", "stream"}
                                       \/ f.at = "record" /\ f.last.end = "go"
                  [] OTHER -> f.last.end = "go"
    IN  (IF k = <<>> THEN m # "closed" ELSE free) => lg.last.end = "go"

SInv(k, d, ns, st, m, b, lg) ==
    /\ WellNested(k)
    /\ DepthOK(k, d)
    /\ IdsOK(k, b, ns)
    /\ KeptOK(k, ns, lg)
    /\ LogOK(k, b, lg)
    /\ StatusOK(k, st)
    /\ EndOK(k, m, lg)

Local(s) ==
    SInv(stack[s], depth[s], notes[s], status[s], mode[s], started[s], log[s])

FilesOK == \A f \in DOMAIN files : files[f] \in Texts

ShellTypes ==
    /\ stack \in [Shells -> Seq(Frames)]
    /\ depth \in [Shells -> Nat] /\ notes \in [Shells -> SUBSET Nat]
    /\ status \in [Shells -> 0..255]
    /\ mode \in [Shells -> {"prompt", "command", "closed"}]
    /\ started \in [Shells -> Nat] /\ log \in [Shells -> Logs]

\* A frame on top that waits for the provider, and what it asks for.
Asks(k) == k # <<>> /\ k[Len(k)].kind = "cmd" /\ k[Len(k)].at = "asking"

KeyOf(k) == <<DispatchLine(k[Len(k)].cmd), k[Len(k)].stdin>>

ArgOf(k) == k[Len(k)].cmd.arg

\* What is asked for is a request, and one with the line it is asked with.
AsksWell(k) == ArgOf(k) \in Requests /\ ArgOf(k) \in Dispatched(KeyOf(k)[1])

\* An answer that may be repeated is in the cache, what is in the cache was once
\* an answer, for each request that would find it, and nothing is asked for that is.
Shared ==
    /\ told = [s \in Shells |-> told[s]]
    /\ \A s \in Shells : \A answer \in told[s] :
         /\ answer[2] \in Simulations /\ answer[2].of \in Dispatched(answer[1][1])
         /\ Cacheable(answer[2].of) => answer[1] \in DOMAIN cache
    /\ \A key \in DOMAIN cache : \A q \in Dispatched(key[1]) :
         \E s \in Shells : <<key, FromJson(cache[key], q)>> \in told[s]
    /\ AskedOnce
    /\ \A s \in Shells : Asks(stack[s]) => AsksWell(stack[s])

\* What is said of the shells one by one.
Locals == ShellTypes /\ \A s \in Shells : Local(s)

IInv == typed \in 0..MaxLines /\ FilesOK /\ Shared /\ Locals

-----------------------------------------------------------------------------
(***************************************************************************)
(* Frames and what they receive.                                           *)
(***************************************************************************)
\* A frame is of one of three kinds and its fields go with the kind.
LEMMA KindOf ==
    ASSUME NEW f \in Frames
    PROVE  /\ f.kind \in {"line", "script", "cmd"} /\ f.last \in Results
           /\ f.kind = "line" <=> f \in LineFrames
           /\ f.kind = "script" <=> f \in ScriptFrames
           /\ f.kind = "cmd" <=> f \in CommandFrames
BY DEF Frames, LineFrames, ScriptFrames, CommandFrames

\* Results are what they should be.
LEMMA ResultFacts ==
    /\ \A out \in Texts, code \in 0..255 : Result(out, code) \in Results
    /\ Nothing \in Results /\ Raised \in Results /\ Exit \in Results
    /\ Nothing.end = "go" /\ Raised.end = "raise"
    /\ \A code \in 0..255 : Failure(code) \in Results /\ Failure(code).end = "go"
    /\ \A r \in Results, out \in Texts :
         /\ [r EXCEPT !.out = out] \in Results
         /\ [r EXCEPT !.out = out].end = r.end /\ [r EXCEPT !.out = out].code = r.code
    /\ \A r \in Results : r.out \in Texts /\ r.end \in {"go", "exit", "raise"}
                          /\ r.code \in 0..255
<1>1. \A out \in Texts, code \in 0..255 : Result(out, code) \in Results
  BY DEF Result, Results
<1>2. <<>> \in Texts /\ <<Noise>> \in Texts
  <2>1. Noise \in Lines
    BY ShellAssumption
  <2> QED BY <2>1 DEF Texts
<1>3. Nothing \in Results /\ Nothing.end = "go"
  BY <1>1, <1>2 DEF Nothing, Result, Results
<1>4. Raised \in Results /\ Raised.end = "raise" /\ Exit \in Results
  BY <1>3 DEF Raised, Exit, Results
<1>5. \A code \in 0..255 : Failure(code) \in Results /\ Failure(code).end = "go"
  BY <1>2 DEF Failure, Result, Results
<1>6. ASSUME NEW r \in Results, NEW out \in Texts
      PROVE  /\ [r EXCEPT !.out = out] \in Results
             /\ [r EXCEPT !.out = out].end = r.end /\ [r EXCEPT !.out = out].code = r.code
  BY DEF Results
<1>7. \A r \in Results : r.out \in Texts /\ r.end \in {"go", "exit", "raise"}
                         /\ r.code \in 0..255
  BY DEF Results
<1> QED BY <1>1, <1>3, <1>4, <1>5, <1>6, <1>7

\* The results that handlers give without an output.
LEMMA PlainResults ==
    /\ {Nothing, Raised, Failure(1), Failure(126), Failure(127)} \subseteq Results
    /\ Raised.end = "raise"
BY ResultFacts

\* A line or script that ends gives its own output with the last code.
LEMMA OutReplaced ==
    ASSUME NEW r \in Results, NEW out \in Texts
    PROVE  [r EXCEPT !.out = out] \in Results /\ [r EXCEPT !.out = out].end = r.end
BY DEF Results

\* Outputs put together are an output.
LEMMA TextsJoin ==
    ASSUME NEW a \in Texts, NEW b \in Texts
    PROVE  a \o b \in Texts
BY ConcatProperties DEF Texts

\* A command that is through with its dispatch.
LEMMA CmdReceives ==
    ASSUME NEW f \in CommandFrames, NEW r \in Results
    PROVE  /\ Receive(f, r) \in CommandFrames /\ Receive(f, r).kind = "cmd"
           /\ Receive(f, r).at = "finish" /\ Receive(f, r).last = r
           /\ Receive(f, r).id = f.id /\ Receive(f, r).kept = f.kept
<1>1. f.kind = "cmd" /\ Receive(f, r) = [f EXCEPT !.last = r, !.at = "finish"]
  BY DEF CommandFrames, Receive
<1>2. "finish" \in Places
  BY DEF Places
<1> QED BY <1>1, <1>2 DEF CommandFrames

\* A script keeps its depth, and the depth to go back to, across its lines.
LEMMA ScriptReceives ==
    ASSUME NEW f \in ScriptFrames, NEW r \in Results
    PROVE  /\ Receive(f, r) \in ScriptFrames /\ Receive(f, r).kind = "script"
           /\ Receive(f, r).last = r /\ Receive(f, r).depth = f.depth
           /\ Receive(f, r).saved = f.saved
<1>1. f.kind = "script" /\ Receive(f, r) = [f EXCEPT !.last = r, !.out = @ \o r.out]
  BY DEF ScriptFrames, Receive
<1>2. f.out \o r.out \in Texts
  <2>1. f.out \in Texts /\ r.out \in Texts
    BY DEF ScriptFrames, Results
  <2> QED BY <2>1, TextsJoin
<1> QED BY <1>1, <1>2 DEF ScriptFrames

\* A line takes the result of the stage it waited for as its latest.
LEMMA LineReceives ==
    ASSUME NEW f \in LineFrames, NEW r \in Results
    PROVE  /\ Receive(f, r) \in LineFrames /\ Receive(f, r).kind = "line"
           /\ Receive(f, r).last = r
<1>1. /\ f.kind = "line"
      /\ \/ Receive(f, r) = [f EXCEPT !.last = r]
         \/ Receive(f, r) = [f EXCEPT !.last = r, !.out = @ \o r.out]
  BY DEF LineFrames, Receive
<1>2. f.out \o r.out \in Texts
  <2>1. f.out \in Texts /\ r.out \in Texts
    BY DEF LineFrames, Results
  <2> QED BY <2>1, TextsJoin
<1> QED BY <1>1, <1>2 DEF LineFrames

-----------------------------------------------------------------------------
(***************************************************************************)
(* The three ways a stack changes.                                         *)
(***************************************************************************)
Front(k) == SubSeq(k, 1, Len(k) - 1)

\* The frames below the top are those of the stack.
LEMMA FrontFacts ==
    ASSUME NEW k \in Seq(Frames), k # <<>>
    PROVE  /\ Len(k) \in Nat /\ Len(k) >= 1 /\ k[Len(k)] \in Frames
           /\ Front(k) \in Seq(Frames) /\ Len(Front(k)) = Len(k) - 1
           /\ \A i \in 1..Len(k) - 1 : Front(k)[i] = k[i] /\ k[i] \in Frames
<1>1. Len(k) \in Nat /\ Len(k) >= 1 /\ \A i \in 1..Len(k) : k[i] \in Frames
  BY EmptySeq, LenProperties, ElementOfSeq
<1>2. /\ SubSeq(k, 1, Len(k) - 1) \in Seq(Frames)
      /\ Len(SubSeq(k, 1, Len(k) - 1)) = Len(k) - 1
      /\ \A i \in 1..Len(k) - 1 : SubSeq(k, 1, Len(k) - 1)[i] = k[i]
  <2> DEFINE n == Len(k)
  <2>0. n \in Nat /\ n >= 1 /\ \A i \in 1..n : k[i] \in Frames
    BY <1>1
  <2> HIDE DEF n
  <2>1. n - 1 \in Int /\ 1 \in Int /\ \A i \in 1..n - 1 : i \in 1..n
    BY <2>0
  <2>2. (IF 1 <= n - 1 THEN (n - 1) - 1 + 1 ELSE 0) = n - 1
    BY <2>0
  <2>3. \A i \in 1..n - 1 : i \in 1..(n - 1) - 1 + 1 /\ 1 + i - 1 = i
    BY <2>0
  <2>4. /\ SubSeq(k, 1, n - 1) \in Seq(Frames)
        /\ Len(SubSeq(k, 1, n - 1)) = IF 1 <= n - 1 THEN (n - 1) - 1 + 1 ELSE 0
        /\ \A i \in 1..(n - 1) - 1 + 1 : SubSeq(k, 1, n - 1)[i] = k[1 + i - 1]
    BY <2>0, <2>1, SubSeqProperties
  <2> QED BY <2>2, <2>3, <2>4 DEF n
<1> QED BY <1>1, <1>2 DEF Front

\* The first of three ways to change a stack: another frame on top.
LEMMA Replacing ==
    ASSUME NEW k \in Seq(Frames), k # <<>>, NEW f \in Frames
    PROVE  /\ Append(Front(k), f) \in Seq(Frames) /\ Append(Front(k), f) # <<>>
           /\ Len(Append(Front(k), f)) = Len(k) /\ Append(Front(k), f)[Len(k)] = f
           /\ \A i \in 1..Len(k) - 1 : Append(Front(k), f)[i] = k[i]
<1> DEFINE u == Front(k)
<1>1. /\ u \in Seq(Frames) /\ Len(u) = Len(k) - 1 /\ Len(k) \in Nat
      /\ \A i \in 1..Len(k) - 1 : u[i] = k[i]
  BY FrontFacts
<1> HIDE DEF u
<1>2. /\ Append(u, f) \in Seq(Frames) /\ Append(u, f) # <<>> /\ Len(Append(u, f)) = Len(u) + 1
      /\ \A i \in 1..Len(u) : Append(u, f)[i] = u[i]
      /\ Append(u, f)[Len(u) + 1] = f
  BY <1>1, AppendProperties
<1>3. Len(u) + 1 = Len(k)
  BY <1>1
<1> QED BY <1>1, <1>2, <1>3 DEF u

\* The second: the top is updated and calls.
LEMMA Pushing ==
    ASSUME NEW k \in Seq(Frames), k # <<>>, NEW f \in Frames, NEW g \in Frames
    PROVE  /\ Front(k) \o <<f, g>> \in Seq(Frames) /\ Front(k) \o <<f, g>> # <<>>
           /\ Len(Front(k) \o <<f, g>>) = Len(k) + 1
           /\ (Front(k) \o <<f, g>>)[Len(k)] = f /\ (Front(k) \o <<f, g>>)[Len(k) + 1] = g
           /\ \A i \in 1..Len(k) - 1 : (Front(k) \o <<f, g>>)[i] = k[i]
<1> DEFINE u == Front(k)
           v == <<f, g>>
           w == u \o v
<1>1. /\ u \in Seq(Frames) /\ Len(u) = Len(k) - 1 /\ Len(k) \in Nat /\ Len(k) >= 1
      /\ \A i \in 1..Len(k) - 1 : u[i] = k[i]
  BY FrontFacts
<1>2. v \in Seq(Frames) /\ Len(v) = 2 /\ v[1] = f /\ v[2] = g
  OBVIOUS
<1> HIDE DEF u, v
<1>3. /\ w \in Seq(Frames) /\ Len(w) = Len(u) + Len(v)
      /\ \A i \in 1..Len(u) + Len(v) : w[i] = IF i <= Len(u) THEN u[i] ELSE v[i - Len(u)]
  BY <1>1, <1>2, ConcatProperties
<1> HIDE DEF w
<1>4. Len(w) = Len(k) + 1
  BY <1>1, <1>2, <1>3
<1>5. w[Len(k)] = f
  <2>1. Len(k) \in 1..Len(u) + Len(v) /\ ~(Len(k) <= Len(u)) /\ Len(k) - Len(u) = 1
    BY <1>1, <1>2
  <2> QED BY <1>2, <1>3, <2>1
<1>6. w[Len(k) + 1] = g
  <2>1. Len(k) + 1 \in 1..Len(u) + Len(v) /\ ~(Len(k) + 1 <= Len(u)) /\ Len(k) + 1 - Len(u) = 2
    BY <1>1, <1>2
  <2> QED BY <1>2, <1>3, <2>1
<1>7. \A i \in 1..Len(k) - 1 : w[i] = k[i]
  <2>1. \A i \in 1..Len(k) - 1 : i \in 1..Len(u) + Len(v) /\ i <= Len(u)
    BY <1>1, <1>2
  <2> QED BY <1>1, <1>3, <2>1
<1>8. w # <<>>
  <2>1. Len(<<>>) = 0
    OBVIOUS
  <2> QED BY <1>1, <1>4, <2>1
<1> QED BY <1>3, <1>4, <1>5, <1>6, <1>7, <1>8 DEF u, v, w

\* The stack after the frame on top has returned r.
Returned(k, r) == [Front(k) EXCEPT ![Len(k) - 1] = Receive(@, r)]

\* The third: the top returns and its caller receives.
LEMMA Popping ==
    ASSUME NEW k \in Seq(Frames), Len(k) > 1, NEW r \in Results
    PROVE  /\ Returned(k, r) \in Seq(Frames) /\ Returned(k, r) # <<>>
           /\ Len(Returned(k, r)) = Len(k) - 1
           /\ Returned(k, r)[Len(k) - 1] = Receive(k[Len(k) - 1], r)
           /\ \A i \in 1..Len(k) - 2 : Returned(k, r)[i] = k[i]
<1> DEFINE u == Front(k)
           n == Len(k) - 1
           e == Receive(u[n], r)
           w == [u EXCEPT ![n] = e]
<1>0. k # <<>> /\ Len(k) \in Nat
  <2>1. Len(<<>>) = 0
    OBVIOUS
  <2> QED BY <2>1, LenProperties
<1>1. /\ u \in Seq(Frames) /\ Len(u) = n /\ n \in Nat /\ n >= 1
      /\ \A i \in 1..n : u[i] = k[i] /\ k[i] \in Frames
  BY <1>0, FrontFacts
<1>2. n \in 1..Len(u) /\ u[n] = k[n] /\ u[n] \in Frames
  BY <1>1
<1>3. e \in Frames
  <2> DEFINE f == u[n]
  <2>1. f \in Frames
    BY <1>2
  <2> HIDE DEF f
  <2>2. Receive(f, r) \in Frames
    BY <2>1, KindOf, CmdReceives, ScriptReceives, LineReceives DEF Frames
  <2> QED BY <2>2 DEF f
<1>4. Returned(k, r) = w
  BY DEF Returned
<1> HIDE DEF u, n, e
<1>5. /\ w \in Seq(Frames) /\ Len(w) = Len(u)
      /\ \A j \in 1..Len(u) : w[j] = IF j = n THEN e ELSE u[j]
  BY <1>1, <1>2, <1>3, ExceptSeq
<1> HIDE DEF w
<1>6. w[n] = e /\ e = Receive(k[n], r)
  BY <1>2, <1>5 DEF e
<1>7. \A i \in 1..Len(k) - 2 : w[i] = k[i]
  <2>1. \A i \in 1..Len(k) - 2 : i \in 1..Len(u) /\ i \in 1..n /\ i # n
    BY <1>0, <1>1 DEF n
  <2> QED BY <1>1, <1>5, <2>1
<1>8. w # <<>>
  <2>1. Len(<<>>) = 0
    OBVIOUS
  <2> QED BY <1>1, <1>5, <2>1
<1> QED BY <1>1, <1>4, <1>5, <1>6, <1>7, <1>8 DEF n

\* A frame that is still the same call.
Alike(f, g) ==
    /\ g.kind = f.kind
    /\ f.kind = "script" => g.depth = f.depth /\ g.saved = f.saved

\* The innermost script is the same where frames are alike.
LEMMA CoversSame ==
    ASSUME NEW k, NEW k2, NEW i \in Nat, NEW d, Covers(k, i, d),
           \A j \in 1..i - 1 : Alike(k[j], k2[j])
    PROVE  Covers(k2, i, d)
BY DEF Covers, Alike

\* A frame that is no script does not change the depth.
LEMMA CoversPast ==
    ASSUME NEW k, NEW i \in Nat, NEW d, i >= 1, k[i].kind # "script"
    PROVE  Covers(k, i, d) <=> Covers(k, i + 1, d)
<1>1. \A j : j \in 1..(i + 1) - 1 <=> j \in 1..i - 1 \/ j = i
  OBVIOUS
<1>2. \A j \in 1..i - 1 : \A m : m \in j + 1..(i + 1) - 1 <=> m \in j + 1..i - 1 \/ m = i
  OBVIOUS
<1>3. ASSUME Covers(k, i, d) PROVE Covers(k, i + 1, d)
  <2>1. CASE d = 0 /\ \A j \in 1..i - 1 : k[j].kind # "script"
    BY <1>1, <2>1 DEF Covers
  <2>2. ASSUME NEW j \in 1..i - 1, k[j].kind = "script", k[j].depth = d,
               \A m \in j + 1..i - 1 : k[m].kind # "script"
        PROVE  Covers(k, i + 1, d)
    <3>1. j \in 1..(i + 1) - 1 /\ \A m \in j + 1..(i + 1) - 1 : k[m].kind # "script"
      BY <1>1, <1>2, <2>2
    <3> QED BY <2>2, <3>1 DEF Covers
  <2> QED BY <1>3, <2>1, <2>2 DEF Covers
<1>4. ASSUME Covers(k, i + 1, d) PROVE Covers(k, i, d)
  <2>1. CASE d = 0 /\ \A j \in 1..(i + 1) - 1 : k[j].kind # "script"
    BY <1>1, <2>1 DEF Covers
  <2>2. ASSUME NEW j \in 1..(i + 1) - 1, k[j].kind = "script", k[j].depth = d,
               \A m \in j + 1..(i + 1) - 1 : k[m].kind # "script"
        PROVE  Covers(k, i, d)
    <3>1. j \in 1..i - 1
      BY <1>1, <2>2
    <3>2. \A m \in j + 1..i - 1 : k[m].kind # "script"
      BY <1>2, <2>2, <3>1
    <3> QED BY <2>2, <3>1, <3>2 DEF Covers
  <2> QED BY <1>4, <2>1, <2>2 DEF Covers
<1> QED BY <1>3, <1>4

\* _script_depth, while no script begins or ends.
LEMMA DepthStays ==
    ASSUME NEW k, NEW k2, NEW d, DepthOK(k, d), Len(k) \in Nat, Len(k2) = Len(k),
           \A i \in 1..Len(k) : Alike(k[i], k2[i])
    PROVE  DepthOK(k2, d)
<1> DEFINE n == Len(k)
<1>1. n \in Nat /\ Len(k2) = n /\ \A i \in 1..n : Alike(k[i], k2[i])
  OBVIOUS
<1>2. Covers(k, n + 1, d) /\ d <= MaxScriptDepth
  BY DEF DepthOK
<1>3. \A i \in 1..n : k[i].kind = "script" =>
         Covers(k, i, k[i].saved) /\ k[i].depth <= MaxScriptDepth
  BY DEF DepthOK
<1> HIDE DEF n
<1>4. Covers(k2, n + 1, d)
  <2>1. n + 1 \in Nat /\ \A j \in 1..(n + 1) - 1 : j \in 1..n
    BY <1>1
  <2> QED BY <1>1, <1>2, <2>1, CoversSame
<1>5. ASSUME NEW i \in 1..n, k2[i].kind = "script"
      PROVE  Covers(k2, i, k2[i].saved) /\ k2[i].depth <= MaxScriptDepth
  <2>1. k[i].kind = "script" /\ k2[i].saved = k[i].saved /\ k2[i].depth = k[i].depth
    BY <1>1, <1>5 DEF Alike
  <2>2. i \in Nat /\ \A j \in 1..i - 1 : j \in 1..n
    BY <1>1
  <2>3. Covers(k2, i, k[i].saved)
    BY <1>1, <1>3, <2>1, <2>2, CoversSame
  <2> QED BY <1>3, <2>1, <2>3
<1> QED BY <1>1, <1>2, <1>4, <1>5 DEF DepthOK

\* A call leaves it alone, a script sets it.
LEMMA DepthPushed ==
    ASSUME NEW k, NEW k2, NEW d, DepthOK(k, d), Len(k) \in Nat, Len(k2) = Len(k) + 1,
           \A i \in 1..Len(k) : Alike(k[i], k2[i])
    PROVE  /\ k2[Len(k2)].kind # "script" => DepthOK(k2, d)
           /\ /\ k2[Len(k2)].kind = "script" /\ k2[Len(k2)].saved = d
              /\ k2[Len(k2)].depth <= MaxScriptDepth
              => DepthOK(k2, k2[Len(k2)].depth)
<1> DEFINE n == Len(k)
           g == k2[n + 1]
<1>1. n \in Nat /\ Len(k2) = n + 1 /\ \A i \in 1..n : Alike(k[i], k2[i])
  OBVIOUS
<1>2. Covers(k, n + 1, d) /\ d <= MaxScriptDepth
  BY DEF DepthOK
<1>3. \A i \in 1..n : k[i].kind = "script" =>
         Covers(k, i, k[i].saved) /\ k[i].depth <= MaxScriptDepth
  BY DEF DepthOK
<1>0. k2[Len(k2)] = g
  BY <1>1
<1> HIDE DEF n, g
<1>4. Covers(k2, n + 1, d)
  <2>1. n + 1 \in Nat /\ \A j \in 1..(n + 1) - 1 : j \in 1..n
    BY <1>1
  <2> QED BY <1>1, <1>2, <2>1, CoversSame
<1>5. ASSUME NEW i \in 1..n, k2[i].kind = "script"
      PROVE  Covers(k2, i, k2[i].saved) /\ k2[i].depth <= MaxScriptDepth
  <2>1. k[i].kind = "script" /\ k2[i].saved = k[i].saved /\ k2[i].depth = k[i].depth
    BY <1>1, <1>5 DEF Alike
  <2>2. i \in Nat /\ \A j \in 1..i - 1 : j \in 1..n
    BY <1>1
  <2>3. Covers(k2, i, k[i].saved)
    BY <1>1, <1>3, <2>1, <2>2, CoversSame
  <2> QED BY <1>3, <2>1, <2>3
<1>6. \A i \in 1..n + 1 : i \in 1..n \/ i = n + 1
  BY <1>1
<1>7. ASSUME g.kind # "script" PROVE DepthOK(k2, d)
  <2>1. n + 1 \in Nat /\ n + 1 >= 1 /\ k2[n + 1].kind # "script"
    BY <1>1, <1>7 DEF g
  <2>2. Covers(k2, (n + 1) + 1, d)
    BY <1>4, <2>1, CoversPast
  <2>3. \A i \in 1..n + 1 : k2[i].kind = "script" =>
          Covers(k2, i, k2[i].saved) /\ k2[i].depth <= MaxScriptDepth
    BY <1>5, <1>6, <2>1
  <2> QED BY <1>1, <1>2, <2>2, <2>3 DEF DepthOK
<1>8. ASSUME g.kind = "script", g.saved = d, g.depth <= MaxScriptDepth
      PROVE  DepthOK(k2, g.depth)
  <2>1. Covers(k2, (n + 1) + 1, g.depth)
    <3>1. n + 1 \in 1..((n + 1) + 1) - 1 /\ \A m : ~(m \in (n + 1) + 1..((n + 1) + 1) - 1)
      BY <1>1
    <3> QED BY <1>8, <3>1 DEF Covers, g
  <2>2. \A i \in 1..n + 1 : k2[i].kind = "script" =>
          Covers(k2, i, k2[i].saved) /\ k2[i].depth <= MaxScriptDepth
    BY <1>4, <1>5, <1>6, <1>8 DEF g
  <2> QED BY <1>1, <1>8, <2>1, <2>2 DEF DepthOK
<1> QED BY <1>0, <1>7, <1>8

\* A return leaves it alone, the end of a script restores it.
LEMMA DepthPopped ==
    ASSUME NEW k, NEW k2, NEW d, DepthOK(k, d), Len(k) \in Nat, Len(k) >= 1,
           Len(k2) = Len(k) - 1, \A i \in 1..Len(k) - 1 : Alike(k[i], k2[i])
    PROVE  /\ k[Len(k)].kind # "script" => DepthOK(k2, d)
           /\ k[Len(k)].kind = "script" => DepthOK(k2, k[Len(k)].saved)
<1> DEFINE n == Len(k)
           g == k[n]
<1>1. n \in Nat /\ n >= 1 /\ Len(k2) = n - 1 /\ \A i \in 1..n - 1 : Alike(k[i], k2[i])
  OBVIOUS
<1>2. Covers(k, n + 1, d) /\ d <= MaxScriptDepth
  BY DEF DepthOK
<1>3. \A i \in 1..n : k[i].kind = "script" =>
         Covers(k, i, k[i].saved) /\ k[i].depth <= MaxScriptDepth
  BY DEF DepthOK
<1>0. k[Len(k)] = g
  OBVIOUS
<1> HIDE DEF n, g
<1>7. n - 1 \in Nat /\ (n - 1) + 1 = n /\ n \in 1..n /\ \A i \in 1..n - 1 : i \in 1..n
  BY <1>1
<1>4. ASSUME NEW e, Covers(k, n, e), e <= MaxScriptDepth PROVE DepthOK(k2, e)
  <2>1. Covers(k2, n, e)
    BY <1>1, <1>4, CoversSame
  <2>2. ASSUME NEW i \in 1..n - 1, k2[i].kind = "script"
        PROVE  Covers(k2, i, k2[i].saved) /\ k2[i].depth <= MaxScriptDepth
    <3>1. k[i].kind = "script" /\ k2[i].saved = k[i].saved /\ k2[i].depth = k[i].depth
      BY <1>1, <2>2 DEF Alike
    <3>2. i \in Nat /\ i \in 1..n /\ \A j \in 1..i - 1 : j \in 1..n - 1
      BY <1>1, <1>7
    <3>3. Covers(k2, i, k[i].saved)
      BY <1>1, <1>3, <3>1, <3>2, CoversSame
    <3> QED BY <1>3, <3>1, <3>2, <3>3
  <2> QED BY <1>1, <1>4, <1>7, <2>1, <2>2 DEF DepthOK
<1>5. ASSUME g.kind # "script" PROVE DepthOK(k2, d)
  <2>1. Covers(k, n, d)
    BY <1>1, <1>2, <1>5, CoversPast DEF g
  <2> QED BY <1>2, <1>4, <2>1
<1>6. ASSUME g.kind = "script" PROVE DepthOK(k2, g.saved)
  <2>1. Covers(k, n, g.saved)
    BY <1>3, <1>6, <1>7 DEF g
  <2>2. g.saved <= MaxScriptDepth
    <3>1. CASE g.saved = 0
      <4>1. MaxScriptDepth \in Nat
        BY ShellAssumption
      <4> QED BY <3>1, <4>1
    <3>2. CASE \E j \in 1..n - 1 : k[j].kind = "script" /\ k[j].depth = g.saved
      BY <1>3, <1>7, <3>2
    <3> QED BY <2>1, <3>1, <3>2 DEF Covers
  <2> QED BY <1>4, <2>1, <2>2
<1> QED BY <1>0, <1>5, <1>6

\* Who calls whom, after each way the stack changes.
LEMMA NestReplaced ==
    ASSUME NEW k, WellNested(k), k # <<>>, NEW f \in Frames,
           f.kind = k[Len(k)].kind, f.kind = "cmd" => f.at # "inner"
    PROVE  WellNested(Append(Front(k), f))
<1> DEFINE n == Len(k)
           k2 == Append(Front(k), f)
<1>1. /\ k \in Seq(Frames) /\ n \in Nat /\ n >= 1 /\ k[1].kind = "line"
      /\ \A i \in 2..n : k[i - 1].kind \in Callers(k[i].kind)
      /\ \A i : CmdAt(k, i) => (k[i].at = "inner" <=> i < n)
  BY FrontFacts DEF WellNested
<1>2. /\ k2 \in Seq(Frames) /\ k2 # <<>> /\ Len(k2) = n /\ k2[n] = f
      /\ \A i \in 1..n - 1 : k2[i] = k[i]
  BY <1>1, Replacing
<1>3. f.kind = k[n].kind
  OBVIOUS
<1> HIDE DEF n, k2
<1>4. \A i \in 1..n : k2[i].kind = k[i].kind
  <2>1. \A i \in 1..n : i \in 1..n - 1 \/ i = n
    BY <1>1
  <2> QED BY <1>2, <1>3, <2>1
<1>5. k2[1].kind = "line"
  BY <1>1, <1>4
<1>6. \A i \in 2..n : k2[i - 1].kind \in Callers(k2[i].kind)
  <2>1. \A i \in 2..n : i \in 1..n /\ i - 1 \in 1..n
    BY <1>1
  <2> QED BY <1>1, <1>4, <2>1
<1>7. ASSUME NEW i, CmdAt(k2, i) PROVE k2[i].at = "inner" <=> i < n
  <2>1. i \in 1..n /\ k2[i].kind = "cmd"
    BY <1>2, <1>7 DEF CmdAt
  <2>2. CASE i = n
    BY <1>1, <1>2, <2>1, <2>2
  <2>3. CASE i # n
    <3>1. i \in 1..n - 1
      BY <1>1, <2>1, <2>3
    <3>2. CmdAt(k, i)
      BY <1>4, <2>1 DEF CmdAt, n
    <3> QED BY <1>1, <1>2, <3>1, <3>2
  <2> QED BY <2>2, <2>3
<1>8. WellNested(k2)
  BY <1>2, <1>5, <1>6, <1>7 DEF WellNested
<1> QED BY <1>8 DEF k2

\* A call nests well if the caller may make it.
LEMMA NestPushed ==
    ASSUME NEW k, WellNested(k), k # <<>>, NEW f \in Frames, NEW g \in Frames,
           f.kind = k[Len(k)].kind, f.kind = "cmd" => f.at = "inner",
           f.kind \in Callers(g.kind), g.kind = "cmd" => g.at # "inner"
    PROVE  WellNested(Front(k) \o <<f, g>>)
<1> DEFINE n == Len(k)
           k2 == Front(k) \o <<f, g>>
<1>1. /\ k \in Seq(Frames) /\ n \in Nat /\ n >= 1 /\ k[1].kind = "line"
      /\ \A i \in 2..n : k[i - 1].kind \in Callers(k[i].kind)
      /\ \A i : CmdAt(k, i) => (k[i].at = "inner" <=> i < n)
  BY FrontFacts DEF WellNested
<1>2. /\ k2 \in Seq(Frames) /\ k2 # <<>> /\ Len(k2) = n + 1 /\ k2[n] = f /\ k2[n + 1] = g
      /\ \A i \in 1..n - 1 : k2[i] = k[i]
  BY <1>1, Pushing
<1>3. f.kind = k[n].kind
  OBVIOUS
<1> HIDE DEF n, k2
<1>4. \A i \in 1..n : k2[i].kind = k[i].kind
  <2>1. \A i \in 1..n : i \in 1..n - 1 \/ i = n
    BY <1>1
  <2> QED BY <1>2, <1>3, <2>1
<1>5. k2[1].kind = "line"
  BY <1>1, <1>4
<1>6. ASSUME NEW i \in 2..n + 1 PROVE k2[i - 1].kind \in Callers(k2[i].kind)
  <2>1. CASE i = n + 1
    <3>1. i - 1 = n
      BY <1>1, <2>1
    <3> QED BY <1>2, <2>1, <3>1
  <2>2. CASE i # n + 1
    <3>1. i \in 2..n /\ i \in 1..n /\ i - 1 \in 1..n
      BY <1>1, <2>2
    <3> QED BY <1>1, <1>4, <3>1
  <2> QED BY <2>1, <2>2
<1>7. ASSUME NEW i, CmdAt(k2, i) PROVE k2[i].at = "inner" <=> i < n + 1
  <2>1. i \in 1..n + 1 /\ k2[i].kind = "cmd"
    BY <1>2, <1>7 DEF CmdAt
  <2>2. CASE i = n + 1
    BY <1>1, <1>2, <2>1, <2>2
  <2>3. CASE i = n
    BY <1>1, <1>2, <2>1, <2>3
  <2>4. CASE i # n /\ i # n + 1
    <3>1. i \in 1..n - 1 /\ i \in 1..n /\ i < n /\ i < n + 1
      BY <1>1, <2>1, <2>4
    <3>2. CmdAt(k, i)
      BY <1>4, <2>1, <3>1 DEF CmdAt, n
    <3> QED BY <1>1, <1>2, <3>1, <3>2
  <2> QED BY <2>2, <2>3, <2>4
<1>8. WellNested(k2)
  BY <1>2, <1>5, <1>6, <1>7 DEF WellNested
<1> QED BY <1>8 DEF k2

\* A return leaves a well-nested stack with the frames below as they were.
LEMMA NestPopped ==
    ASSUME NEW k, WellNested(k), Len(k) > 1, NEW r \in Results
    PROVE  WellNested(Returned(k, r)) /\ \A i \in 1..Len(k) - 1 : Alike(k[i], Returned(k, r)[i])
<1> DEFINE n == Len(k)
           k2 == Returned(k, r)
           f == k[n - 1]
<1>0. k # <<>>
  <2>1. Len(<<>>) = 0
    OBVIOUS
  <2> QED BY <2>1
<1>1. /\ k \in Seq(Frames) /\ n \in Nat /\ n > 1 /\ k[1].kind = "line"
      /\ \A i \in 2..n : k[i - 1].kind \in Callers(k[i].kind)
      /\ \A i : CmdAt(k, i) => (k[i].at = "inner" <=> i < n)
      /\ \A i \in 1..n - 1 : k[i] \in Frames
  BY <1>0, FrontFacts DEF WellNested
<1>2. /\ k2 \in Seq(Frames) /\ k2 # <<>> /\ Len(k2) = n - 1 /\ k2[n - 1] = Receive(f, r)
      /\ \A i \in 1..n - 2 : k2[i] = k[i]
  BY <1>1, Popping
<1>3. f \in Frames
  BY <1>1
<1> HIDE DEF n, k2, f
<1>4. Alike(f, Receive(f, r)) /\ (f.kind = "cmd" => Receive(f, r).at = "finish")
  BY <1>3, KindOf, CmdReceives, ScriptReceives, LineReceives DEF Alike
<1>5. ASSUME NEW i \in 1..n - 1 PROVE Alike(k[i], k2[i])
  <2>1. CASE i = n - 1
    BY <1>2, <1>4, <2>1 DEF f
  <2>2. CASE i # n - 1
    <3>1. i \in 1..n - 2
      BY <1>1, <2>2
    <3> QED BY <1>2, <3>1 DEF Alike
  <2> QED BY <2>1, <2>2
<1>6. k2[1].kind = "line"
  <2>1. 1 \in 1..n - 1
    BY <1>1
  <2> QED BY <1>1, <1>5, <2>1 DEF Alike
<1>7. \A i \in 2..n - 1 : k2[i - 1].kind \in Callers(k2[i].kind)
  <2>1. \A i \in 2..n - 1 : i \in 1..n - 1 /\ i - 1 \in 1..n - 1 /\ i \in 2..n
    BY <1>1
  <2> QED BY <1>1, <1>5, <2>1 DEF Alike
<1>8. ASSUME NEW i, CmdAt(k2, i) PROVE k2[i].at = "inner" <=> i < n - 1
  <2>1. i \in 1..n - 1 /\ k2[i].kind = "cmd"
    BY <1>2, <1>8 DEF CmdAt
  <2>2. CASE i = n - 1
    <3>1. k2[i].at = "finish"
      BY <1>2, <1>4, <2>1, <2>2 DEF Alike
    <3> QED BY <1>1, <2>2, <3>1
  <2>3. CASE i # n - 1
    <3>1. i \in 1..n - 2 /\ i \in 1..n /\ i < n /\ i < n - 1
      BY <1>1, <2>1, <2>3
    <3>2. CmdAt(k, i)
      BY <1>2, <2>1, <3>1 DEF CmdAt, n
    <3> QED BY <1>1, <1>2, <3>1, <3>2
  <2> QED BY <2>2, <2>3
<1>9. WellNested(k2)
  BY <1>2, <1>6, <1>7, <1>8 DEF WellNested
<1> QED BY <1>5, <1>9 DEF k2, n

-----------------------------------------------------------------------------
(***************************************************************************)
(* The commands on the stack, and what is known of them.                   *)
(***************************************************************************)

\* The commands of k that are not recorded are those of k2, with their numbers.
SameOpen(k, k2) ==
    /\ \A i : CmdAt(k2, i) =>
         /\ CmdAt(k, i) /\ k2[i].id = k[i].id
         /\ k2[i].kept => k[i].kept /\ k2[i].at \in {"finish", "record"}
         /\ k2[i].at # "record" => k[i].at # "record"
    /\ \A i : CmdAt(k, i) /\ k[i].at # "record" => CmdAt(k2, i) /\ k2[i].at # "record"

\* Their numbers and the log stay right.
LEMMA CmdsStay ==
    ASSUME NEW k, NEW k2, NEW b, NEW ns, NEW lg,
           SameOpen(k, k2), IdsOK(k, b, ns), LogOK(k, b, lg)
    PROVE  IdsOK(k2, b, ns) /\ LogOK(k2, b, lg)
<1>1. IdsOK(k2, b, ns)
  <2> SUFFICES ASSUME NEW i, CmdAt(k2, i)
               PROVE  /\ k2[i].id \in 1..b
                      /\ \A n \in ns : n >= k2[i].id
                      /\ \A j : CmdAt(k2, j) /\ i < j => k2[i].id < k2[j].id
                      /\ k2[i].kept => k2[i].at \in {"finish", "record"}
    BY DEF IdsOK
  <2> QED BY DEF IdsOK, SameOpen
<1>2. \A n : IsOpen(k, n) <=> IsOpen(k2, n)
  BY DEF IsOpen, SameOpen
<1>3. LogOK(k2, b, lg)
  BY <1>2 DEF LogOK
<1> QED BY <1>1, <1>3

\* An empty stack and only that has no frame.
LEMMA EmptyFacts == Len(<<>>) = 0 /\ \A k \in Seq(Frames) : k # <<>> => Len(k) \in Nat \ {0}
BY EmptySeq

\* A line or a script goes on.
LEMMA CallerReplaced ==
    ASSUME NEW k, NEW d, NEW ns, NEW st, NEW m, NEW b, NEW lg, SInv(k, d, ns, st, m, b, lg),
           k # <<>>, k[Len(k)].kind # "cmd", NEW f \in Frames, Alike(k[Len(k)], f),
           f.last = k[Len(k)].last, f.kind = "line" /\ f.last.end = "go" => st = f.last.code
    PROVE  SInv(Append(Front(k), f), d, ns, st, m, b, lg)
<1> DEFINE n == Len(k)
           k2 == Append(Front(k), f)
<1>0. /\ WellNested(k) /\ DepthOK(k, d) /\ IdsOK(k, b, ns) /\ LogOK(k, b, lg)
      /\ EndOK(k, m, lg) /\ k \in Seq(Frames)
  BY DEF SInv, WellNested
<1>1. n \in Nat /\ n >= 1
  BY <1>0, FrontFacts
<1>2. /\ k2 \in Seq(Frames) /\ k2 # <<>> /\ Len(k2) = n /\ k2[n] = f
      /\ \A i \in 1..n - 1 : k2[i] = k[i]
  BY <1>0, Replacing
<1>3. f.kind = k[n].kind /\ f.kind # "cmd" /\ Alike(k[n], f) /\ f.last = k[n].last
  BY DEF Alike
<1>4. WellNested(k2)
  BY <1>0, <1>3, NestReplaced
<1>5. EndOK(k, m, lg) /\ k # <<>>
  BY <1>0
<1> HIDE DEF k2
<1>6. EndOK(k2, m, lg)
  BY <1>2, <1>3, <1>5 DEF EndOK
<1> HIDE DEF n
<1>7. \A i \in 1..n : i = n \/ i \in 1..n - 1
  BY <1>1
<1>8. DepthOK(k2, d)
  <2>1. \A i \in 1..Len(k) : Alike(k[i], k2[i])
    BY <1>2, <1>3, <1>7 DEF Alike, n
  <2> QED BY <1>0, <1>1, <1>2, <2>1, DepthStays DEF n
<1>9. SameOpen(k, k2)
  <2>1. \A i : CmdAt(k, i) => i \in 1..n - 1
    BY <1>3, <1>7 DEF CmdAt, n
  <2>2. \A i : CmdAt(k2, i) => i \in 1..n - 1
    BY <1>2, <1>3, <1>7 DEF CmdAt
  <2>3. \A i : CmdAt(k, i) <=> CmdAt(k2, i)
    BY <1>2, <2>1, <2>2 DEF CmdAt, n
  <2> QED BY <1>0, <1>2, <2>1, <2>2, <2>3 DEF SameOpen, IdsOK
<1>10. IdsOK(k2, b, ns) /\ LogOK(k2, b, lg)
  BY <1>0, <1>9, CmdsStay
<1>11. KeptOK(k2, ns, lg)
  BY <1>2, <1>3 DEF KeptOK, CmdAt
<1>12. StatusOK(k2, st)
  BY <1>2 DEF StatusOK
<1> QED BY <1>4, <1>6, <1>8, <1>10, <1>11, <1>12 DEF SInv, k2

\* The numbers, when the command on top is replaced and notes something.
LEMMA IdsReplaced ==
    ASSUME NEW k \in Seq(Frames), NEW k2, NEW b, NEW ns, NEW ns2, IdsOK(k, b, ns), b \in Nat,
           CmdAt(k, Len(k)), CmdAt(k2, Len(k)), Len(k2) = Len(k),
           \A i \in 1..Len(k) - 1 : k2[i] = k[i],
           k2[Len(k)].id = k[Len(k)].id, ns2 = ns \/ ns2 = ns \cup {k[Len(k)].id},
           k2[Len(k)].kept => k2[Len(k)].at \in {"finish", "record"}
    PROVE  IdsOK(k2, b, ns2)
<1> DEFINE n == Len(k)
           c == k[n].id
<1>1. n \in Nat /\ n \in 1..n /\ \A i \in 1..n : i = n \/ i \in 1..n - 1
  <2>1. n \in Nat /\ n \in 1..n
    BY LenProperties DEF CmdAt
  <2> HIDE DEF n
  <2> QED BY <2>1
<1>2. /\ Len(k2) = n /\ CmdAt(k, n) /\ CmdAt(k2, n) /\ (\A i \in 1..n - 1 : k2[i] = k[i])
      /\ k2[n].id = c /\ (ns2 = ns \/ ns2 = ns \cup {c})
      /\ (k2[n].kept => k2[n].at \in {"finish", "record"})
  OBVIOUS
<1>3. \A i : CmdAt(k, i) <=> CmdAt(k2, i)
  BY <1>1, <1>2 DEF CmdAt
<1>4. \A i : CmdAt(k2, i) => i = n \/ i \in 1..n - 1
  BY <1>1, <1>2 DEF CmdAt
<1>5. \A i : CmdAt(k2, i) => k2[i].id = k[i].id
  BY <1>2, <1>4
<1>6. c \in 1..b /\ \A i : CmdAt(k, i) => k[i].id \in 1..b /\ k[i].id <= c
  <2>1. \A i : CmdAt(k, i) => k[i].id \in 1..b
    BY DEF IdsOK
  <2>2. c \in 1..b
    BY <1>2, <2>1
  <2>3. \A i \in 1..n - 1 : i < n
    BY <1>1
  <2>4. ASSUME NEW i, CmdAt(k, i) PROVE k[i].id <= c
    <3>1. CASE i = n
      BY <2>2, <3>1
    <3>2. CASE i \in 1..n - 1
      <4>1. k[i].id < c
        BY <1>2, <2>3, <2>4, <3>2 DEF IdsOK
      <4> QED BY <2>1, <2>2, <2>4, <4>1
    <3> QED BY <1>3, <1>4, <2>4, <3>1, <3>2
  <2> QED BY <2>1, <2>2, <2>4
<1> HIDE DEF n, c
<1>7. ASSUME NEW i, CmdAt(k2, i)
      PROVE  /\ k2[i].id \in 1..b
             /\ \A x \in ns2 : x >= k2[i].id
             /\ \A j : CmdAt(k2, j) /\ i < j => k2[i].id < k2[j].id
             /\ k2[i].kept => k2[i].at \in {"finish", "record"}
  <2>1. CmdAt(k, i) /\ k2[i].id = k[i].id
    BY <1>3, <1>5, <1>7
  <2>2. \A x \in ns2 : x >= k2[i].id
    <3>1. \A x \in ns : x >= k[i].id
      BY <2>1 DEF IdsOK
    <3>2. c >= k[i].id
      BY <1>6, <2>1
    <3> QED BY <1>2, <2>1, <3>1, <3>2
  <2>3. \A j : CmdAt(k2, j) /\ i < j => k2[i].id < k2[j].id
    BY <1>3, <1>5, <2>1 DEF IdsOK
  <2>4. k2[i].kept => k2[i].at \in {"finish", "record"}
    BY <1>2, <1>4, <1>7, <2>1 DEF IdsOK
  <2> QED BY <1>6, <2>1, <2>2, <2>3, <2>4
<1> QED BY <1>7 DEF IdsOK

\* What is true of k2 whatever the command on top of k becomes.
NewTop(k, k2, f, d) ==
    /\ WellNested(k2) /\ DepthOK(k2, d) /\ k2 # <<>> /\ Len(k2) = Len(k)
    /\ k2[Len(k)] = f /\ CmdAt(k2, Len(k)) /\ Len(k) \in Nat /\ k \in Seq(Frames)
    /\ \A i \in 1..Len(k) - 1 : k2[i] = k[i]
    /\ \A i : CmdAt(k2, i) <=> CmdAt(k, i)
    /\ \A i : CmdAt(k, i) => i = Len(k) \/ i \in 1..Len(k) - 1

\* A command that moves to another place leaves nesting and depth alone.
LEMMA CmdReplaced ==
    ASSUME NEW k, WellNested(k), NEW d, DepthOK(k, d), CmdAt(k, Len(k)),
           NEW f \in CommandFrames, f.at # "inner", f.id = k[Len(k)].id
    PROVE  NewTop(k, Append(Front(k), f), f, d)
<1> DEFINE n == Len(k)
           k2 == Append(Front(k), f)
<1>0. k \in Seq(Frames) /\ k # <<>> /\ f \in Frames /\ f.kind = "cmd" /\ k[n].kind = "cmd"
  BY EmptyFacts, KindOf DEF WellNested, CmdAt, Frames
<1>1. n \in Nat /\ n >= 1
  BY <1>0, FrontFacts
<1>2. /\ k2 \in Seq(Frames) /\ k2 # <<>> /\ Len(k2) = n /\ k2[n] = f
      /\ \A i \in 1..n - 1 : k2[i] = k[i]
  BY <1>0, Replacing
<1>3. WellNested(k2)
  BY <1>0, NestReplaced
<1> HIDE DEF k2, n
<1>4. n \in 1..n /\ \A i \in 1..n : i = n \/ i \in 1..n - 1
  BY <1>1
<1>5. DepthOK(k2, d)
  <2>1. \A i \in 1..Len(k) : Alike(k[i], k2[i])
    BY <1>0, <1>2, <1>4 DEF Alike, n
  <2> QED BY <1>1, <1>2, <2>1, DepthStays DEF n
<1>6. CmdAt(k2, n) /\ (\A i : CmdAt(k2, i) <=> CmdAt(k, i))
      /\ \A i : CmdAt(k, i) => i = n \/ i \in 1..n - 1
  BY <1>0, <1>2, <1>4 DEF CmdAt, n
<1> QED BY <1>0, <1>1, <1>2, <1>3, <1>5, <1>6 DEF NewTop, k2, n

\* A command goes on, or is through with its dispatch, with or without a note.
LEMMA Working ==
    ASSUME NEW k, NEW d, NEW ns, NEW st, NEW m, NEW b \in Nat, NEW lg,
           SInv(k, d, ns, st, m, b, lg), CmdAt(k, Len(k)),
           k[Len(k)].at \in {"start", "asking", "stream"},
           NEW f \in CommandFrames, f.id = k[Len(k)].id, f.at \in {"asking", "stream", "finish"},
           NEW ns2, ns2 = ns \/ ns2 = ns \cup {f.id},
           f.kept => f.at = "finish" /\ f.id \in ns2
    PROVE  SInv(Append(Front(k), f), d, ns2, st, m, b, lg)
<1> DEFINE n == Len(k)
           k2 == Append(Front(k), f)
<1>0. /\ WellNested(k) /\ DepthOK(k, d) /\ IdsOK(k, b, ns) /\ LogOK(k, b, lg) /\ EndOK(k, m, lg)
  BY DEF SInv
<1>1. NewTop(k, k2, f, d)
  BY <1>0, CmdReplaced
<1>2. lg.last.end = "go"
  <2>1. k # <<>> /\ k[n].kind = "cmd"
    BY EmptyFacts DEF CmdAt
  <2> QED BY <1>0, <2>1 DEF EndOK
<1> HIDE DEF k2
<1>3. IdsOK(k2, b, ns2)
  <2>1. k \in Seq(Frames) /\ CmdAt(k2, n) /\ Len(k2) = n /\ k2[n] = f
        /\ \A i \in 1..n - 1 : k2[i] = k[i]
    BY <1>1 DEF NewTop
  <2>2. k2[n].id = k[n].id /\ (ns2 = ns \/ ns2 = ns \cup {k[n].id})
        /\ (k2[n].kept => k2[n].at \in {"finish", "record"})
    BY <2>1
  <2> QED BY <1>0, <2>1, <2>2, IdsReplaced
<1>4. LogOK(k2, b, lg)
  <2>1. \A i : CmdAt(k, i) => k2[i].id = k[i].id /\ (k2[i].at # "record" <=> k[i].at # "record")
    BY <1>1 DEF NewTop
  <2>2. \A x : IsOpen(k, x) <=> IsOpen(k2, x)
    BY <1>1, <2>1, SMTT(30) DEF IsOpen, NewTop
  <2> QED BY <1>0, <2>2 DEF LogOK
<1>5. KeptOK(k2, ns2, lg)
  BY <1>1 DEF KeptOK, NewTop
<1>6. StatusOK(k2, st)
  <2>1. k2[Len(k2)].kind = "cmd"
    BY <1>1 DEF NewTop, CmdAt
  <2> QED BY <2>1 DEF StatusOK
<1>7. EndOK(k2, m, lg)
  BY <1>2 DEF EndOK
<1> QED BY <1>1, <1>3, <1>4, <1>5, <1>6, <1>7 DEF SInv, NewTop, k2

\* The record of a command is submitted, with all that was noted.
LEMMA Submitted ==
    ASSUME NEW k, NEW d, NEW ns, NEW st, NEW m, NEW b \in Nat, NEW lg,
           SInv(k, d, ns, st, m, b, lg), CmdAt(k, Len(k)), k[Len(k)].at = "finish",
           NEW f \in CommandFrames, f.id = k[Len(k)].id, f.at = "record",
           NEW ns2, ns2 = ns \/ ns2 = ns \cup {f.id}, f.kept => f.id \in ns2,
           NEW lg2, lg2.ids = lg.ids \cup {f.id}, lg2.last.notes = ns2,
           lg2.last.id = f.id, lg2.last.end = f.last.end
    PROVE  SInv(Append(Front(k), f), d, ns2, st, m, b, lg2)
<1> DEFINE n == Len(k)
           k2 == Append(Front(k), f)
           c == f.id
<1>0. /\ WellNested(k) /\ DepthOK(k, d) /\ IdsOK(k, b, ns) /\ LogOK(k, b, lg)
  BY DEF SInv
<1>1. NewTop(k, k2, f, d)
  BY <1>0, CmdReplaced
<1> HIDE DEF k2
<1>2. k \in Seq(Frames) /\ CmdAt(k2, n) /\ Len(k2) = n /\ k2[n] = f
      /\ \A i \in 1..n - 1 : k2[i] = k[i]
  BY <1>1 DEF NewTop
<1>3. IdsOK(k2, b, ns2)
  <2>1. k2[n].id = k[n].id /\ (ns2 = ns \/ ns2 = ns \cup {k[n].id})
        /\ (k2[n].kept => k2[n].at \in {"finish", "record"})
    BY <1>2
  <2> QED BY <1>0, <1>2, <2>1, IdsReplaced
<1>4. LogOK(k2, b, lg2)
  <2>1. \A i : CmdAt(k, i) => i = n \/ (i # n /\ k2[i] = k[i])
    <3>1. n \in Nat /\ \A i \in 1..n - 1 : i # n
      BY <1>1 DEF NewTop
    <3> QED BY <1>1, <1>2, <3>1 DEF NewTop
  <2>2. \A i : CmdAt(k, i) <=> CmdAt(k2, i)
    BY <1>1 DEF NewTop
  <2>3. ASSUME NEW i, CmdAt(k, i), i # n PROVE k[i].id # c
    <3>1. i < n /\ n \in Nat
      <4>1. n \in Nat /\ \A j \in 1..n - 1 : j < n
        BY <1>1 DEF NewTop
      <4> QED BY <1>1, <2>3, <4>1 DEF NewTop
    <3>2. k[i].id < c /\ k[i].id \in 1..b /\ c \in 1..b
      BY <1>0, <2>3, <3>1 DEF IdsOK
    <3> QED BY <3>2
  <2>4. ASSUME NEW x PROVE IsOpen(k2, x) <=> IsOpen(k, x) /\ x # c
    <3>1. ASSUME IsOpen(k2, x) PROVE IsOpen(k, x) /\ x # c
      <4>1. PICK i : CmdAt(k2, i) /\ k2[i].at # "record" /\ k2[i].id = x
        BY <3>1 DEF IsOpen
      <4>2. i # n
        BY <1>2, <4>1
      <4>3. CmdAt(k, i) /\ k2[i] = k[i] /\ k[i].id # c
        BY <2>1, <2>2, <2>3, <4>1, <4>2
      <4> QED BY <4>1, <4>3 DEF IsOpen
    <3>2. ASSUME IsOpen(k, x), x # c PROVE IsOpen(k2, x)
      <4>1. PICK i : CmdAt(k, i) /\ k[i].at # "record" /\ k[i].id = x
        BY <3>2 DEF IsOpen
      <4>2. i # n
        BY <3>2, <4>1
      <4> QED BY <2>1, <2>2, <4>1, <4>2 DEF IsOpen
    <3> QED BY <3>1, <3>2
  <2>5. IsOpen(k, c)
    BY DEF IsOpen
  <2>6. \A x \in ns2 : x >= c
    <3>1. \A x \in ns2 : x >= k2[n].id
      BY <1>2, <1>3 DEF IdsOK
    <3> QED BY <1>2, <3>1
  <2> HIDE DEF c
  <2>7. \A x \in lg2.ids : ~IsOpen(k2, x)
    BY <1>0, <2>4 DEF LogOK, c
  <2>8. \A x : x \in 1..b <=> x \in lg2.ids \/ IsOpen(k2, x)
    BY <1>0, <2>4, <2>5 DEF LogOK, c
  <2> QED BY <2>6, <2>7, <2>8 DEF LogOK, c
<1>5. KeptOK(k2, ns2, lg2)
  BY <1>2 DEF KeptOK
<1>6. StatusOK(k2, st)
  <2>1. k2[Len(k2)].kind = "cmd"
    BY <1>2 DEF CmdAt
  <2> QED BY <2>1 DEF StatusOK
<1>7. EndOK(k2, m, lg2)
  <2>1. k2 # <<>> /\ k2[Len(k2)] = f /\ f.kind = "cmd"
    BY <1>1, <1>2 DEF CmdAt, NewTop
  <2> QED BY <2>1 DEF EndOK
<1> QED BY <1>1, <1>3, <1>4, <1>5, <1>6, <1>7 DEF SInv, NewTop, k2

\* A shutdown, while the record is written.
LEMMA RecordCancelled ==
    ASSUME NEW k, NEW d, NEW ns, NEW st, NEW m, NEW b \in Nat, NEW lg,
           SInv(k, d, ns, st, m, b, lg), CmdAt(k, Len(k)), k[Len(k)].at = "record",
           NEW f \in CommandFrames, f.id = k[Len(k)].id, f.at = "record",
           f.kept = k[Len(k)].kept, f.last.end = "raise"
    PROVE  SInv(Append(Front(k), f), d, ns, st, m, b, lg)
<1> DEFINE n == Len(k)
           k2 == Append(Front(k), f)
<1>0. /\ WellNested(k) /\ DepthOK(k, d) /\ IdsOK(k, b, ns) /\ LogOK(k, b, lg)
      /\ KeptOK(k, ns, lg)
  BY DEF SInv
<1>1. NewTop(k, k2, f, d)
  BY <1>0, CmdReplaced
<1> HIDE DEF k2
<1>2. k \in Seq(Frames) /\ CmdAt(k2, n) /\ Len(k2) = n /\ k2[n] = f /\ k2 # <<>>
      /\ \A i \in 1..n - 1 : k2[i] = k[i]
  BY <1>1 DEF NewTop
<1>3. SameOpen(k, k2)
  <2>1. \A i : CmdAt(k, i) <=> CmdAt(k2, i)
    BY <1>1 DEF NewTop
  <2>2. \A i : CmdAt(k, i) => k2[i].id = k[i].id /\ k2[i].at = k[i].at /\ k2[i].kept = k[i].kept
    BY <1>1 DEF NewTop
  <2> QED BY <1>0, <2>1, <2>2 DEF SameOpen, IdsOK
<1>4. IdsOK(k2, b, ns) /\ LogOK(k2, b, lg)
  BY <1>0, <1>3, CmdsStay
<1>5. KeptOK(k2, ns, lg)
  BY <1>0, <1>2 DEF KeptOK
<1>6. StatusOK(k2, st)
  <2>1. k2[Len(k2)].kind = "cmd"
    BY <1>2 DEF CmdAt
  <2> QED BY <2>1 DEF StatusOK
<1>7. EndOK(k2, m, lg)
  <2>1. k2[Len(k2)] = f /\ f.kind = "cmd"
    BY <1>2 DEF CmdAt
  <2> QED BY <1>2, <2>1 DEF EndOK
<1> QED BY <1>1, <1>4, <1>5, <1>6, <1>7 DEF SInv, NewTop, k2

-----------------------------------------------------------------------------
(***************************************************************************)
(* Calls and returns.                                                      *)
(***************************************************************************)

\* What is true of k2 when the frame on top of k, now f, has called g.
Pushed(k, k2, f, g) ==
    /\ WellNested(k2) /\ k2 # <<>> /\ Len(k2) = Len(k) + 1 /\ Len(k) \in Nat
    /\ k2[Len(k)] = f /\ k2[Len(k2)] = g
    /\ \A i \in 1..Len(k) - 1 : k2[i] = k[i]
    /\ \A i \in 1..Len(k) : i = Len(k) \/ i \in 1..Len(k) - 1
    /\ \A i \in 1..Len(k2) : i = Len(k2) \/ i \in 1..Len(k)
    /\ \A i \in 1..Len(k) : Alike(k[i], k2[i]) /\ i \in 1..Len(k2) /\ i # Len(k2)

\* All that a call does to a stack.
LEMMA PushFacts ==
    ASSUME NEW k, WellNested(k), k # <<>>, NEW f \in Frames, NEW g \in Frames,
           Alike(k[Len(k)], f), f.kind = "cmd" => f.at = "inner",
           f.kind \in Callers(g.kind), g.kind = "cmd" => g.at # "inner"
    PROVE  Pushed(k, Front(k) \o <<f, g>>, f, g)
<1> DEFINE n == Len(k)
           k2 == Front(k) \o <<f, g>>
<1>0. k \in Seq(Frames) /\ f.kind = k[Len(k)].kind /\ Alike(k[n], f)
  BY DEF WellNested, Alike
<1>1. n \in Nat /\ n >= 1
  BY <1>0, FrontFacts
<1>2. WellNested(k2)
  BY <1>0, NestPushed
<1>3. /\ k2 # <<>> /\ Len(k2) = n + 1 /\ k2[n] = f /\ k2[n + 1] = g
      /\ \A i \in 1..n - 1 : k2[i] = k[i]
  BY <1>0, Pushing
<1> HIDE DEF n, k2
<1>4. /\ \A i \in 1..n : i = n \/ i \in 1..n - 1
      /\ \A i \in 1..n + 1 : i = n + 1 \/ i \in 1..n
      /\ \A i \in 1..n : i \in 1..n + 1 /\ i # n + 1
  BY <1>1
<1>5. \A i \in 1..n : Alike(k[i], k2[i])
  BY <1>0, <1>3, <1>4 DEF Alike
<1> QED BY <1>1, <1>2, <1>3, <1>4, <1>5 DEF Pushed, k2, n

\* A script or a command calls for a line, or a command for a script.
LEMMA Called ==
    ASSUME NEW k, NEW d, NEW ns, NEW st, NEW m, NEW b, NEW lg, SInv(k, d, ns, st, m, b, lg),
           k # <<>>, NEW f \in Frames, NEW g \in Frames, Alike(k[Len(k)], f),
           f.kind = "cmd" => /\ f.at = "inner" /\ f.id = k[Len(k)].id
                             /\ f.kept = k[Len(k)].kept /\ k[Len(k)].at = "start",
           f.kind \in Callers(g.kind), g.kind # "cmd", lg.last.end = "go",
           g.kind = "line" => g.rest = LineOf[g.line], NEW d2,
           \/ g.kind = "line" /\ d2 = d
           \/ g.kind = "script" /\ g.saved = d /\ g.depth = d2 /\ d2 <= MaxScriptDepth
    PROVE  SInv(Front(k) \o <<f, g>>, d2, ns, st, m, b, lg)
<1> DEFINE n == Len(k)
           k2 == Front(k) \o <<f, g>>
<1>0. WellNested(k) /\ DepthOK(k, d) /\ IdsOK(k, b, ns) /\ LogOK(k, b, lg)
  BY DEF SInv
<1>1. Pushed(k, k2, f, g)
  BY <1>0, PushFacts
<1> HIDE DEF k2
<1>2. DepthOK(k2, d2)
  <2>1. Len(k) \in Nat /\ Len(k2) = Len(k) + 1 /\ \A i \in 1..Len(k) : Alike(k[i], k2[i])
    BY <1>1 DEF Pushed
  <2>2. /\ k2[Len(k2)].kind # "script" => DepthOK(k2, d)
        /\ /\ k2[Len(k2)].kind = "script" /\ k2[Len(k2)].saved = d
           /\ k2[Len(k2)].depth <= MaxScriptDepth
           => DepthOK(k2, k2[Len(k2)].depth)
    BY <1>0, <2>1, DepthPushed
  <2>3. k2[Len(k2)] = g
    BY <1>1 DEF Pushed
  <2> QED BY <2>2, <2>3
<1>3. SameOpen(k, k2)
  <2>1. \A i : CmdAt(k2, i) => i \in 1..Len(k)
    BY <1>1 DEF Pushed, CmdAt
  <2>2. \A i : CmdAt(k, i) <=> CmdAt(k2, i)
    BY <1>1, <2>1 DEF Pushed, CmdAt, Alike
  <2>3. \A i : CmdAt(k, i) => i = n \/ k2[i] = k[i]
    BY <1>1 DEF Pushed, CmdAt
  <2>4. CmdAt(k, n) => /\ k2[n].at = "inner" /\ k2[n].id = k[n].id /\ k[n].at = "start"
                       /\ ~k2[n].kept
    <3>1. CmdAt(k, n) => f.kind = "cmd" /\ k2[n] = f
      BY <1>1 DEF Pushed, CmdAt, Alike
    <3>2. CmdAt(k, n) /\ k[n].at = "start" => ~k[n].kept
      BY <1>0 DEF IdsOK
    <3> QED BY <3>1, <3>2
  <2>5. \A i : CmdAt(k, i) /\ k[i].kept => k[i].at \in {"finish", "record"}
    BY <1>0 DEF IdsOK
  <2> HIDE DEF n
  <2> QED BY <2>2, <2>3, <2>4, <2>5 DEF SameOpen
<1>4. IdsOK(k2, b, ns) /\ LogOK(k2, b, lg)
  BY <1>0, <1>3, CmdsStay
<1>5. k2[Len(k2)] = g /\ k2 # <<>> /\ WellNested(k2)
  BY <1>1 DEF Pushed
<1>6. KeptOK(k2, ns, lg)
  BY <1>5 DEF KeptOK, CmdAt
<1>7. StatusOK(k2, st)
  BY <1>5 DEF StatusOK
<1>8. EndOK(k2, m, lg)
  BY DEF EndOK
<1> QED BY <1>2, <1>4, <1>5, <1>6, <1>7, <1>8 DEF SInv, k2

\* A line begins a command, with the next number and nothing noted.
LEMMA Begun ==
    ASSUME NEW k, NEW d, NEW ns, NEW st, NEW m, NEW b \in Nat, NEW lg,
           SInv(k, d, ns, st, m, b, lg), k # <<>>, NEW f \in Frames, NEW g \in CommandFrames,
           f.kind = "line", k[Len(k)].kind = "line", g.id = b + 1, g.at = "start",
           ~g.kept, lg.last.end = "go"
    PROVE  SInv(Front(k) \o <<f, g>>, d, {}, st, m, b + 1, lg)
<1> DEFINE n == Len(k)
           k2 == Front(k) \o <<f, g>>
<1>0. /\ WellNested(k) /\ DepthOK(k, d) /\ IdsOK(k, b, ns) /\ LogOK(k, b, lg)
      /\ g \in Frames /\ g.kind = "cmd" /\ Alike(k[Len(k)], f) /\ f.kind \in Callers(g.kind)
  BY KindOf DEF SInv, Frames, Alike, Callers
<1>1. Pushed(k, k2, f, g)
  BY <1>0, PushFacts
<1> HIDE DEF k2
<1>2. DepthOK(k2, d)
  <2>1. Len(k) \in Nat /\ Len(k2) = Len(k) + 1 /\ \A i \in 1..Len(k) : Alike(k[i], k2[i])
    BY <1>1 DEF Pushed
  <2>2. k2[Len(k2)].kind # "script"
    BY <1>0, <1>1 DEF Pushed
  <2> QED BY <1>0, <2>1, <2>2, DepthPushed
<1>3. k2[Len(k2)] = g /\ k2 # <<>> /\ WellNested(k2) /\ Len(k2) \in Nat
  BY <1>1 DEF Pushed
<1>4. /\ \A i : CmdAt(k, i) => CmdAt(k2, i) /\ k2[i] = k[i]
      /\ \A i : CmdAt(k2, i) => i = Len(k2) \/ CmdAt(k, i)
      /\ CmdAt(k2, Len(k2))
      /\ \A i : CmdAt(k, i) => i < Len(k2) /\ ~(Len(k2) < i)
  <2>1. \A i : CmdAt(k, i) => i \in 1..n - 1
    BY <1>1 DEF Pushed, CmdAt
  <2>2. ASSUME NEW i, CmdAt(k, i) PROVE CmdAt(k2, i) /\ k2[i] = k[i]
    BY <1>1, <2>1, <2>2 DEF Pushed, CmdAt
  <2>3. ASSUME NEW i, CmdAt(k2, i), i # Len(k2) PROVE CmdAt(k, i)
    BY <1>1, <2>3 DEF Pushed, CmdAt, Alike
  <2>4. Len(k2) = n + 1 /\ n \in Nat
    BY <1>1 DEF Pushed
  <2>5. CmdAt(k2, Len(k2))
    <3>1. Len(k2) \in 1..Len(k2)
      <4> DEFINE e == Len(k2)
      <4>1. e = n + 1 /\ n \in Nat
        BY <2>4
      <4> HIDE DEF e, n
      <4>2. e \in 1..e
        BY <4>1
      <4> QED BY <4>2 DEF e
    <3> QED BY <1>0, <1>3, <3>1 DEF CmdAt
  <2>6. \A i \in 1..n - 1 : i < n + 1 /\ ~(n + 1 < i)
    <3> HIDE DEF n
    <3> QED BY <2>4
  <2> QED BY <2>1, <2>2, <2>3, <2>4, <2>5, <2>6
<1>5. IdsOK(k2, b + 1, {})
  <2>1. \A i : CmdAt(k, i) => /\ k[i].id \in 1..b
                              /\ k[i].kept => k[i].at \in {"finish", "record"}
    BY <1>0 DEF IdsOK
  <2>2. \A i, j : CmdAt(k, i) /\ CmdAt(k, j) /\ i < j => k[i].id < k[j].id
    BY <1>0 DEF IdsOK
  <2>3. b + 1 \in 1..b + 1 /\ \A x \in 1..b : x \in 1..b + 1 /\ x < b + 1
    OBVIOUS
  <2>4. ~(Len(k2) < Len(k2))
    BY <1>3
  <2>5. ASSUME NEW i, CmdAt(k2, i)
        PROVE  /\ k2[i].id \in 1..b + 1
               /\ \A j : CmdAt(k2, j) /\ i < j => k2[i].id < k2[j].id
               /\ k2[i].kept => k2[i].at \in {"finish", "record"}
    <3>1. CASE i = Len(k2)
      BY <1>3, <1>4, <2>3, <2>4, <3>1
    <3>2. CASE CmdAt(k, i)
      <4>1. k2[i] = k[i] /\ k[i].id \in 1..b
        BY <1>4, <2>1, <3>2
      <4>2. ASSUME NEW j, CmdAt(k2, j), i < j PROVE k2[i].id < k2[j].id
        <5>1. CASE j = Len(k2)
          BY <1>3, <2>3, <4>1, <5>1
        <5>2. CASE CmdAt(k, j)
          BY <1>4, <2>2, <3>2, <4>1, <4>2, <5>2
        <5> QED BY <1>4, <4>2, <5>1, <5>2
      <4> QED BY <2>1, <2>3, <3>2, <4>1, <4>2
    <3> QED BY <1>4, <2>5, <3>1, <3>2
  <2> QED BY <2>5 DEF IdsOK
<1>6. LogOK(k2, b + 1, lg)
  <2>1. ASSUME NEW x PROVE IsOpen(k2, x) <=> IsOpen(k, x) \/ x = b + 1
    <3>1. IsOpen(k, x) => IsOpen(k2, x)
      BY <1>4 DEF IsOpen
    <3>2. IsOpen(k2, b + 1)
      BY <1>3, <1>4 DEF IsOpen
    <3>3. IsOpen(k2, x) => IsOpen(k, x) \/ x = b + 1
      BY <1>3, <1>4 DEF IsOpen
    <3> QED BY <3>1, <3>2, <3>3
  <2>2. ~(b + 1 \in 1..b) /\ \A x : x \in 1..b + 1 <=> x \in 1..b \/ x = b + 1
    OBVIOUS
  <2>3. \A x \in lg.ids : x # b + 1
    BY <1>0, <2>2 DEF LogOK
  <2> QED BY <1>0, <2>1, <2>2, <2>3 DEF LogOK
<1>7. KeptOK(k2, {}, lg)
  BY <1>3 DEF KeptOK
<1>8. StatusOK(k2, st)
  BY <1>0, <1>3 DEF StatusOK
<1>9. EndOK(k2, m, lg)
  BY DEF EndOK
<1> QED BY <1>2, <1>3, <1>5, <1>6, <1>7, <1>8, <1>9 DEF SInv, k2

\* The frame on top ends: a line, a script, whose depth ends with it, or a command
\* that is recorded, which sets the exit status.
LEMMA Popped ==
    ASSUME NEW k, NEW d, NEW ns, NEW st, NEW m, NEW b, NEW lg, SInv(k, d, ns, st, m, b, lg),
           Len(k) > 1, k[Len(k)].kind = "cmd" => k[Len(k)].at = "record",
           NEW r \in Results, r.end = k[Len(k)].last.end,
           NEW d2, d2 = IF k[Len(k)].kind = "script" THEN k[Len(k)].saved ELSE d,
           NEW st2, k[Len(k)].kind = "cmd" /\ r.end = "go" => st2 = r.code
    PROVE  SInv(Returned(k, r), d2, ns, st2, m, b, lg)
<1> DEFINE n == Len(k)
           k2 == Returned(k, r)
           f == k[n - 1]
           f2 == k2[n - 1]
<1>0. /\ WellNested(k) /\ DepthOK(k, d) /\ IdsOK(k, b, ns) /\ LogOK(k, b, lg) /\ EndOK(k, m, lg)
      /\ k \in Seq(Frames) /\ k # <<>>
  <2>1. Len(<<>>) = 0
    OBVIOUS
  <2> QED BY <2>1 DEF SInv, WellNested
<1>1. n \in Nat /\ n > 1
  BY <1>0, FrontFacts
<1>2. WellNested(k2) /\ \A i \in 1..n - 1 : Alike(k[i], k2[i])
  BY <1>0, NestPopped
<1>3. /\ k2 # <<>> /\ Len(k2) = n - 1 /\ f2 = Receive(f, r)
      /\ \A i \in 1..n - 2 : k2[i] = k[i]
  BY <1>0, Popping
<1>4. f \in Frames /\ k[n] \in Frames
  <2>1. n - 1 \in 1..n - 1
    <3> HIDE DEF n
    <3> QED BY <1>1
  <2> QED BY <1>0, <2>1, FrontFacts
<1>5. f.kind \in Callers(k[n].kind)
  <2>1. n \in 2..n
    <3> HIDE DEF n
    <3> QED BY <1>1
  <2> QED BY <1>0, <2>1 DEF WellNested
<1>6. DepthOK(k2, d2)
  <2>1. Len(k) \in Nat /\ Len(k) >= 1 /\ Len(k2) = Len(k) - 1
    BY <1>1, <1>3
  <2> QED BY <1>0, <1>2, <2>1, DepthPopped
<1>7. \A i : CmdAt(k, i) => (k[i].at = "inner" <=> i < n)
  BY <1>0 DEF WellNested
<1>8. r.end = "go" => lg.last.end = "go"
  <2>1. k[n].kind \in {"line", "script", "cmd"}
    BY <1>4, KindOf
  <2> QED BY <1>0, <2>1 DEF EndOK
<1>9. f2.kind = f.kind /\ f2.last = r
      /\ (f.kind = "cmd" => f2.at = "finish" /\ f2.id = f.id /\ f2.kept = f.kept)
  <2> HIDE DEF f, f2, k2
  <2> QED BY <1>3, <1>4, KindOf, CmdReceives, ScriptReceives, LineReceives
<1>10. f.kind = "line" => k[n].kind = "cmd"
  <2>1. k[n].kind \in {"line", "script", "cmd"}
    BY <1>4, KindOf
  <2> QED BY <1>5, <2>1 DEF Callers
<1>11. k2[Len(k2)] = f2
  BY <1>3
<1>12. \A i \in 1..n - 1 : (i = n - 1 \/ i \in 1..n - 2) /\ i \in 1..n /\ i < n
  <2> HIDE DEF n
  <2> QED BY <1>1
<1>13. \A i \in 1..n : i = n \/ i \in 1..n - 1
  <2> HIDE DEF n
  <2> QED BY <1>1
<1>14. /\ \A i : CmdAt(k2, i) => /\ CmdAt(k, i) /\ k[i].at = "inner"
                                 /\ i = n - 1 \/ k2[i] = k[i]
       /\ \A i : CmdAt(k, i) => i = n \/ CmdAt(k2, i)
  <2> HIDE DEF k2
  <2>1. ASSUME NEW i, CmdAt(k2, i)
        PROVE  CmdAt(k, i) /\ k[i].at = "inner" /\ (i = n - 1 \/ k2[i] = k[i])
    <3>1. i \in 1..n - 1 /\ i \in 1..n /\ i < n /\ k[i].kind = "cmd"
      BY <1>2, <1>3, <1>12, <2>1 DEF CmdAt, Alike
    <3>2. CmdAt(k, i)
      BY <3>1 DEF CmdAt
    <3> QED BY <1>3, <1>7, <1>12, <3>1, <3>2
  <2>2. ASSUME NEW i, CmdAt(k, i), i # n PROVE CmdAt(k2, i)
    <3>1. i \in 1..n - 1 /\ k[i].kind = "cmd"
      BY <1>13, <2>2 DEF CmdAt
    <3> QED BY <1>2, <1>3, <3>1 DEF CmdAt, Alike
  <2> QED BY <2>1, <2>2
<1>15. \A i : CmdAt(k, i) /\ k[i].at = "inner" => ~k[i].kept
  BY <1>0 DEF IdsOK
<1>16. CmdAt(k, n) => k[n].at = "record"
  BY DEF CmdAt
<1>17. CmdAt(k2, n - 1) => f.kind = "cmd" /\ ~f.kept
  BY <1>14, <1>15 DEF CmdAt
<1>18. k2[n - 1] = f2 /\ k[n - 1] = f
  OBVIOUS
<1> HIDE DEF k2, f, f2, n
<1>19. SameOpen(k, k2)
  <2>1. \A i : CmdAt(k2, i) => /\ CmdAt(k, i) /\ k2[i].id = k[i].id /\ ~k2[i].kept
                               /\ k2[i].at # "record" /\ k[i].at # "record"
    BY <1>9, <1>14, <1>15, <1>17, <1>18
  <2> QED BY <1>14, <1>16, <2>1 DEF SameOpen
<1>20. IdsOK(k2, b, ns) /\ LogOK(k2, b, lg)
  BY <1>0, <1>19, CmdsStay
<1>21. KeptOK(k2, ns, lg)
  BY <1>3, <1>9, <1>11, <1>17 DEF KeptOK
<1>22. StatusOK(k2, st2)
  BY <1>9, <1>10, <1>11 DEF StatusOK, n
<1>23. EndOK(k2, m, lg)
  BY <1>3, <1>8, <1>9, <1>11 DEF EndOK
<1> QED BY <1>2, <1>6, <1>20, <1>21, <1>22, <1>23 DEF SInv, k2

\* A shell without a frame.
LEMMA AtPrompt ==
    ASSUME NEW d, NEW ns, NEW st, NEW m, NEW b, NEW lg
    PROVE  SInv(<<>>, d, ns, st, m, b, lg) <=>
             /\ d = 0
             /\ \A x : x \in 1..b <=> x \in lg.ids
             /\ \A x \in lg.last.notes : x >= lg.last.id
             /\ m # "closed" => lg.last.end = "go"
<1>1. Len(<<>>) = 0 /\ <<>> \in Seq(Frames)
  OBVIOUS
<1>2. \A i : ~(i \in 1..0) /\ ~CmdAt(<<>>, i)
  BY <1>1 DEF CmdAt
<1>3. WellNested(<<>>) /\ IdsOK(<<>>, b, ns) /\ KeptOK(<<>>, ns, lg) /\ StatusOK(<<>>, st)
  <2>1. \A i \in 2..0 : FALSE
    OBVIOUS
  <2> QED BY <1>1, <1>2, <2>1 DEF WellNested, IdsOK, KeptOK, StatusOK
<1>4. DepthOK(<<>>, d) <=> d = 0
  <2>1. MaxScriptDepth \in Nat
    BY ShellAssumption
  <2>2. \A j \in 1..(0 + 1) - 1 : FALSE
    OBVIOUS
  <2>3. Covers(<<>>, 0 + 1, d) <=> d = 0
    BY <2>2 DEF Covers
  <2> QED BY <1>1, <1>2, <2>1, <2>3 DEF DepthOK
<1>5. LogOK(<<>>, b, lg) <=> /\ \A x : x \in 1..b <=> x \in lg.ids
                             /\ \A x \in lg.last.notes : x >= lg.last.id
  BY <1>2 DEF LogOK, IsOpen
<1>6. EndOK(<<>>, m, lg) <=> (m # "closed" => lg.last.end = "go")
  BY DEF EndOK
<1> QED BY <1>3, <1>4, <1>5, <1>6 DEF SInv

\* A line arrives.
LEMMA Entered ==
    ASSUME NEW d, NEW ns, NEW st, NEW m, NEW b, NEW lg, SInv(<<>>, d, ns, st, m, b, lg),
           NEW g \in LineFrames, g.rest = LineOf[g.line], m # "closed"
    PROVE  SInv(Append(<<>>, g), d, ns, st, m, b, lg)
<1> DEFINE k == Append(<<>>, g)
<1>0. /\ d = 0 /\ (\A x : x \in 1..b <=> x \in lg.ids)
      /\ (\A x \in lg.last.notes : x >= lg.last.id) /\ lg.last.end = "go"
  BY AtPrompt
<1>1. g \in Frames /\ g.kind = "line"
  BY KindOf DEF Frames
<1>2. k \in Seq(Frames) /\ Len(k) = 1 /\ k[1] = g /\ k # <<>>
  <2>1. k = <<g>>
    OBVIOUS
  <2> QED BY <1>1, <2>1
<1> HIDE DEF k
<1>3. \A i : ~CmdAt(k, i)
  <2>1. \A i \in 1..1 : i = 1
    OBVIOUS
  <2> QED BY <1>1, <1>2, <2>1 DEF CmdAt
<1>4. WellNested(k)
  <2>1. \A i \in 2..1 : FALSE
    OBVIOUS
  <2> QED BY <1>1, <1>2, <1>3, <2>1 DEF WellNested
<1>5. DepthOK(k, d)
  <2>1. MaxScriptDepth \in Nat
    BY ShellAssumption
  <2>2. \A i \in 1..1 : k[i].kind = "line"
    BY <1>1, <1>2
  <2>3. \A j \in 1..(1 + 1) - 1 : j \in 1..1
    OBVIOUS
  <2>4. Covers(k, 1 + 1, d)
    BY <1>0, <2>2, <2>3 DEF Covers
  <2> QED BY <1>0, <1>2, <2>1, <2>2, <2>4 DEF DepthOK
<1>6. IdsOK(k, b, ns) /\ KeptOK(k, ns, lg) /\ LogOK(k, b, lg)
  BY <1>0, <1>3 DEF IdsOK, KeptOK, LogOK, IsOpen
<1>7. StatusOK(k, st) /\ EndOK(k, m, lg)
  BY <1>0, <1>2 DEF StatusOK, EndOK
<1> QED BY <1>4, <1>5, <1>6, <1>7 DEF SInv, k

\* The line of the client is through; an exit or an error closes the shell.
LEMMA Prompted ==
    ASSUME NEW k, NEW d, NEW ns, NEW st, NEW m, NEW b, NEW lg, SInv(k, d, ns, st, m, b, lg),
           Len(k) = 1, k # <<>>, NEW m2, k[Len(k)].last.end # "go" => m2 = "closed",
           NEW lg2, lg2.ids = {}, lg2.last.notes = {}, lg2.last.end = lg.last.end
    PROVE  SInv(<<>>, d, ns, st, m2, 0, lg2)
<1>1. WellNested(k) /\ DepthOK(k, d) /\ EndOK(k, m, lg)
  BY DEF SInv
<1>2. k[1].kind = "line"
  BY <1>1 DEF WellNested
<1>3. d = 0
  <2>1. Covers(k, 1 + 1, d)
    BY <1>1 DEF DepthOK
  <2>2. \A j \in 1..(1 + 1) - 1 : j = 1
    OBVIOUS
  <2> QED BY <1>2, <2>1, <2>2 DEF Covers
<1>4. m2 # "closed" => lg2.last.end = "go"
  BY <1>1, <1>2 DEF EndOK
<1>5. \A x : ~(x \in 1..0)
  OBVIOUS
<1> QED BY <1>3, <1>4, <1>5, AtPrompt

-----------------------------------------------------------------------------
(***************************************************************************)
(* Shells and what they share.                                             *)
(***************************************************************************)

\* A step of s changes what belongs to s.
Moves(s, k, d, ns, st, m, b, lg) ==
    /\ stack' = [stack EXCEPT ![s] = k] /\ depth' = [depth EXCEPT ![s] = d]
    /\ notes' = [notes EXCEPT ![s] = ns] /\ status' = [status EXCEPT ![s] = st]
    /\ mode' = [mode EXCEPT ![s] = m] /\ started' = [started EXCEPT ![s] = b]
    /\ log' = [log EXCEPT ![s] = lg]

\* What is written as unchanged is changed into what it is.
LEMMA Stays ==
    ASSUME ShellTypes, NEW s \in Shells
    PROVE  /\ UNCHANGED depth <=> depth' = [depth EXCEPT ![s] = depth[s]]
           /\ UNCHANGED notes <=> notes' = [notes EXCEPT ![s] = notes[s]]
           /\ UNCHANGED status <=> status' = [status EXCEPT ![s] = status[s]]
           /\ UNCHANGED mode <=> mode' = [mode EXCEPT ![s] = mode[s]]
           /\ UNCHANGED started <=> started' = [started EXCEPT ![s] = started[s]]
           /\ UNCHANGED log <=> log' = [log EXCEPT ![s] = log[s]]
           /\ UNCHANGED stack <=> stack' = [stack EXCEPT ![s] = stack[s]]
BY DEF ShellTypes

\* The invariant of the shells, if it holds for the one that moves.
LEMMA Moved ==
    ASSUME Locals, NEW s \in Shells, NEW k, NEW d \in Nat, NEW ns \in SUBSET Nat,
           NEW st \in 0..255, NEW m \in {"prompt", "command", "closed"}, NEW b \in Nat,
           NEW lg \in Logs, SInv(k, d, ns, st, m, b, lg), Moves(s, k, d, ns, st, m, b, lg)
    PROVE  Locals'
<1>1. k \in Seq(Frames)
  BY DEF SInv, WellNested
<1>2. ShellTypes'
  BY <1>1 DEF Locals, ShellTypes, Moves
<1>3. ASSUME NEW t \in Shells, t # s PROVE Local(t)'
  <2>1. /\ stack'[t] = stack[t] /\ depth'[t] = depth[t] /\ notes'[t] = notes[t]
        /\ status'[t] = status[t] /\ mode'[t] = mode[t] /\ started'[t] = started[t]
        /\ log'[t] = log[t]
    BY <1>3 DEF Locals, ShellTypes, Moves
  <2>2. Local(t)
    BY DEF Locals
  <2> QED BY <2>1, <2>2 DEF Local
<1>4. Local(s)'
  <2>1. /\ stack'[s] = k /\ depth'[s] = d /\ notes'[s] = ns
        /\ status'[s] = st /\ mode'[s] = m /\ started'[s] = b /\ log'[s] = lg
    BY DEF Locals, ShellTypes, Moves
  <2> QED BY <2>1 DEF Local
<1> QED BY <1>2, <1>3, <1>4 DEF Locals

\* The shell that moves keeps its invariant.
MovesWell(s) ==
    \E k, d, ns, st, m, b, lg :
        /\ d \in Nat /\ ns \in SUBSET Nat /\ st \in 0..255
        /\ m \in {"prompt", "command", "closed"} /\ b \in Nat /\ lg \in Logs
        /\ SInv(k, d, ns, st, m, b, lg) /\ Moves(s, k, d, ns, st, m, b, lg)

\* A step of one shell that keeps its part of the invariant keeps all shells'.
LEMMA MovedWell ==
    ASSUME Locals, NEW s \in Shells, MovesWell(s)
    PROVE  Locals'
<1>1. PICK k, d, ns, st, m, b, lg :
        /\ d \in Nat /\ ns \in SUBSET Nat /\ st \in 0..255
        /\ m \in {"prompt", "command", "closed"} /\ b \in Nat /\ lg \in Logs
        /\ SInv(k, d, ns, st, m, b, lg) /\ Moves(s, k, d, ns, st, m, b, lg)
  BY DEF MovesWell
<1> QED BY <1>1, Moved

\* What is known of the shell that moves.
LEMMA Mine ==
    ASSUME Locals, NEW s \in Shells
    PROVE  /\ SInv(stack[s], depth[s], notes[s], status[s], mode[s], started[s], log[s])
           /\ stack[s] \in Seq(Frames) /\ depth[s] \in Nat /\ notes[s] \in SUBSET Nat
           /\ status[s] \in 0..255 /\ mode[s] \in {"prompt", "command", "closed"}
           /\ started[s] \in Nat /\ log[s] \in Logs /\ ShellTypes
BY DEF Locals, ShellTypes, Local

\* The stack of a shell alone decides what it asks for.
LEMMA AskedOnceOf ==
    AskedOnce <=> \A s \in Shells :
        Asks(stack[s]) /\ Cacheable(ArgOf(stack[s]))
            => \A answer \in told[s] : Cacheable(answer[2].of) => answer[1] # KeyOf(stack[s])
BY DEF AskedOnce, InCommand, Top, Asks, KeyOf, ArgOf, Operand, CacheKey

\* A step that gets no answer: a question is new if it is not in the cache.
LEMMA SharedStays ==
    ASSUME Shared, ShellTypes, NEW s \in Shells, NEW k, stack' = [stack EXCEPT ![s] = k],
           UNCHANGED <<cache, told>>,
           Asks(k) => /\ AsksWell(k)
                      /\ Cacheable(ArgOf(k)) => KeyOf(k) \notin DOMAIN cache
    PROVE  Shared'
<1>1. /\ \A t \in Shells : \A answer \in told[t] :
           Cacheable(answer[2].of) => answer[1] \in DOMAIN cache
      /\ AskedOnce
  BY DEF Shared
<1>2. stack'[s] = k /\ told' = told /\ cache' = cache
      /\ \A t \in Shells \ {s} : stack'[t] = stack[t]
  BY DEF ShellTypes
<1>3. ASSUME NEW t \in Shells, Asks(stack'[t]) /\ Cacheable(ArgOf(stack'[t]))
      PROVE  \A answer \in told'[t] : Cacheable(answer[2].of) => answer[1] # KeyOf(stack'[t])
  <2>1. CASE t = s
    <3>1. stack'[t] = k
      BY <1>2, <2>1
    <3>2. Asks(k) /\ Cacheable(ArgOf(k))
      BY <1>3, <3>1
    <3>3. KeyOf(k) \notin DOMAIN cache
      BY <3>2
    <3>4. \A answer \in told[t] : Cacheable(answer[2].of) => answer[1] # KeyOf(k)
      BY <1>1, <3>3
    <3> QED BY <1>2, <3>1, <3>4
  <2>2. CASE t # s
    <3>1. stack'[t] = stack[t]
      BY <1>2, <2>2
    <3> QED BY <1>1, <1>2, <1>3, <3>1, AskedOnceOf
  <2> QED BY <2>1, <2>2
<1>4. AskedOnce'
  <2>1. AskedOnce' <=> \A t \in Shells :
          Asks(stack'[t]) /\ Cacheable(ArgOf(stack'[t]))
              => \A answer \in told'[t] :
                    Cacheable(answer[2].of) => answer[1] # KeyOf(stack'[t])
    BY DEF AskedOnce, InCommand, Top, Asks, KeyOf, ArgOf, Operand, CacheKey
  <2> QED BY <1>3, <2>1
<1>5. (\A t \in Shells : Asks(stack[t]) => AsksWell(stack[t]))'
  <2>1. ASSUME NEW t \in Shells, Asks(stack'[t]) PROVE AsksWell(stack'[t])
    <3>1. stack'[t] = k \/ stack'[t] = stack[t]
      BY <1>2
    <3> QED BY <2>1, <3>1 DEF Shared
  <2> QED BY <2>1
<1> QED BY <1>2, <1>4, <1>5 DEF Shared

-----------------------------------------------------------------------------
(***************************************************************************)
(* Lines, frames and files.                                                *)
(***************************************************************************)

\* The stages of a line, and the operands of their commands.
LEMMA StageFacts ==
    /\ \A l \in Lines : LineOf[l] \in Seq(Stages)
    /\ \A c \in Cmds : /\ c.do = "fixed" => c.arg \in Results
                       /\ c.do = "line" => c.arg \in Lines
                       /\ c.do = "request" => c.arg \in Requests
    /\ \A g \in Stages : g.cmd \in Cmds
<1>1. ASSUME NEW l \in Lines PROVE LineOf[l] \in Seq(Stages)
  <2> DEFINE S == {LineOf[l][i] : i \in DOMAIN LineOf[l]}
  <2>1. LineOf[l] \in Seq(S)
    BY TextAssumption
  <2>2. S \subseteq Stages
    BY DEF Stages
  <2> HIDE DEF S
  <2> QED BY <2>1, <2>2
<1>2. ASSUME NEW c \in Cmds
      PROVE  /\ c.do = "fixed" => c.arg \in Results
             /\ c.do = "line" => c.arg \in Lines
             /\ c.do = "request" => c.arg \in Requests
  <2>1. PICK g \in Stages : c = g.cmd
    BY DEF Cmds
  <2>2. PICK l \in Lines : \E i \in DOMAIN LineOf[l] : g = LineOf[l][i]
    BY DEF Stages
  <2>3. PICK i \in DOMAIN LineOf[l] : g = LineOf[l][i]
    BY <2>2
  <2>4. LET e == LineOf[l][i].cmd
        IN  /\ e.do = "fixed" => e.arg \in Results
            /\ e.do = "line" => e.arg \in Lines
            /\ e.do = "request" => e.arg \in Requests
    BY TextAssumption
  <2> QED BY <2>1, <2>3, <2>4
<1>3. \A g \in Stages : g.cmd \in Cmds
  BY DEF Cmds
<1> QED BY <1>1, <1>2, <1>3

\* The frames of a call.
LEMMA NewFrames ==
    /\ \A l \in Lines : /\ LineFrame(l) \in LineFrames /\ LineFrame(l).kind = "line"
                        /\ LineFrame(l).rest = LineOf[LineFrame(l).line]
    /\ \A text \in Texts, d \in Nat, saved \in Nat :
         /\ ScriptFrame(text, d, saved) \in ScriptFrames
         /\ ScriptFrame(text, d, saved).kind = "script"
         /\ ScriptFrame(text, d, saved).depth = d /\ ScriptFrame(text, d, saved).saved = saved
    /\ \A c \in Cmds, stdin \in Texts, id \in Nat :
         /\ CommandFrame(c, stdin, id) \in CommandFrames
         /\ CommandFrame(c, stdin, id).id = id /\ CommandFrame(c, stdin, id).at = "start"
         /\ ~CommandFrame(c, stdin, id).kept
<1>1. Nothing \in Results /\ <<>> \in Texts
  BY ResultFacts DEF Texts
<1>2. ASSUME NEW l \in Lines
      PROVE  /\ LineFrame(l) \in LineFrames /\ LineFrame(l).kind = "line"
             /\ LineFrame(l).rest = LineOf[LineFrame(l).line]
  <2>1. LineOf[l] \in Seq(Stages)
    BY StageFacts
  <2> QED BY <1>1, <2>1 DEF LineFrame, LineFrames
<1>3. ASSUME NEW text \in Texts, NEW d \in Nat, NEW saved \in Nat
      PROVE  /\ ScriptFrame(text, d, saved) \in ScriptFrames
             /\ ScriptFrame(text, d, saved).kind = "script"
             /\ ScriptFrame(text, d, saved).depth = d
             /\ ScriptFrame(text, d, saved).saved = saved
  BY <1>1 DEF ScriptFrame, ScriptFrames
<1>4. ASSUME NEW c \in Cmds, NEW stdin \in Texts, NEW id \in Nat
      PROVE  /\ CommandFrame(c, stdin, id) \in CommandFrames
             /\ CommandFrame(c, stdin, id).id = id /\ CommandFrame(c, stdin, id).at = "start"
             /\ ~CommandFrame(c, stdin, id).kept
  BY <1>1 DEF CommandFrame, CommandFrames, Places
<1> QED BY <1>2, <1>3, <1>4

\* What follows a pipeline is a part of the line.
LEMMA AfterPipelineType ==
    ASSUME NEW rest \in Seq(Stages)
    PROVE  AfterPipeline(rest) \in Seq(Stages)
<1> DEFINE S == {i \in 1..Len(rest) : \A j \in 2..i : rest[j].op = "|"}
<1>1. Len(rest) \in Nat
  BY LenProperties
<1>2. Cardinality(S) \in Nat
  <2>1. IsFiniteSet(1..Len(rest))
    BY <1>1, FS_Interval
  <2>2. IsFiniteSet(S)
    BY <2>1, FS_Subset
  <2> QED BY <2>2, FS_CardinalityType
<1>3. AfterPipeline(rest) = SubSeq(rest, Cardinality(S) + 1, Len(rest))
  BY DEF AfterPipeline
<1> HIDE DEF S
<1> DEFINE a == Cardinality(S) + 1
           b == Len(rest)
<1>4. a \in Int /\ b \in Int /\ a >= 1 /\ b = Len(rest)
  BY <1>1, <1>2
<1> HIDE DEF a, b
<1>5. \A i \in a..b : i \in 1..Len(rest)
  BY <1>1, <1>4
<1>6. \A i \in a..b : rest[i] \in Stages
  BY <1>5, ElementOfSeq
<1>7. SubSeq(rest, a, b) \in Seq(Stages)
  BY <1>4, <1>6, SubSeqProperties
<1> QED BY <1>3, <1>7 DEF a, b

\* The first element of a sequence that is not empty, and the others.
LEMMA Firsts ==
    ASSUME NEW S, NEW q \in Seq(S), q # <<>>
    PROVE  q[1] \in S /\ Tail(q) \in Seq(S)
BY EmptySeq, HeadTailProperties, ElementOfSeq, LenProperties

\* Files keep their type.
LEMMA FileFacts ==
    ASSUME NEW fs, \A f \in DOMAIN fs : fs[f] \in Texts, NEW k, NEW text \in Texts
    PROVE  /\ \A f \in DOMAIN With(fs, k, text) : With(fs, k, text)[f] \in Texts
           /\ \A f \in DOMAIN Without(fs, k) : Without(fs, k)[f] \in Texts
BY DEF With, Without

\* A simulation is about its command, and to_json and back is the identity.
LEMMA SimulationFacts ==
    /\ \A q \in Requests : Usage(q) \in Simulations /\ Usage(q).of = q
    /\ \A q \in Requests : \A r : r.text \in {"plain", "chatty"} =>
          Answer(r, q) \in Simulations /\ Answer(r, q).of = q
    /\ \A sim \in Simulations : \A q : FromJson(ToJson(sim), q) = sim
<1>1. ASSUME NEW q \in Requests PROVE Usage(q) \in Simulations /\ Usage(q).of = q
  <2>1. UsageCode[q] \in 0..255
    BY UsageAssumption
  <2> QED BY <2>1 DEF Usage, Simulation, Simulations
<1>2. ASSUME NEW q \in Requests, NEW r, r.text \in {"plain", "chatty"}
      PROVE  Answer(r, q) \in Simulations /\ Answer(r, q).of = q
  <2>1. CASE r.shape = "object" /\ r.code \in 0..255 /\ ~Conversational(r.text)
    <3>1. Parse(r, q, q) = Simulation(r.text, q, r.code) /\ r.text = "plain"
      BY <1>2, <2>1 DEF Parse, Conversational
    <3>2. Simulation(r.text, q, r.code) \in Simulations
          /\ Simulation(r.text, q, r.code).of = q
          /\ Simulation(r.text, q, r.code).text = "plain"
      BY <2>1, <3>1 DEF Simulation, Simulations
    <3> QED BY <3>1, <3>2 DEF Answer, Sanitized, Conversational
  <2>2. CASE ~(r.shape = "object" /\ r.code \in 0..255 /\ ~Conversational(r.text))
    <3>1. Parse(r, q, q) = Usage(q)
      BY <2>2 DEF Parse
    <3> QED BY <1>1, <3>1 DEF Answer, Sanitized
  <2> QED BY <2>1, <2>2
<1>3. ASSUME NEW sim \in Simulations, NEW q PROVE FromJson(ToJson(sim), q) = sim
  <2>1. sim.text \in {"plain", "usage"} /\ sim.code \in 0..255
        /\ sim = [text |-> sim.text, of |-> sim.of, code |-> sim.code]
    BY DEF Simulations
  <2>2. ToJson(sim).shape = "object" /\ ToJson(sim).text = sim.text
        /\ ToJson(sim).code = sim.code /\ ToJson(sim).of = sim.of
    BY DEF ToJson
  <2>3. FromJson(ToJson(sim), q) = Simulation(sim.text, sim.of, sim.code)
    BY <2>1, <2>2 DEF FromJson, Parse, Conversational
  <2> QED BY <2>1, <2>3 DEF Simulation
<1> QED BY <1>1, <1>2, <1>3

-----------------------------------------------------------------------------
(***************************************************************************)
(* The actions, by what they do to the stack.                              *)
(***************************************************************************)

\* The command on top of a shell.
LEMMA CmdTop ==
    ASSUME Locals, NEW s \in Shells, stack[s] # <<>>, Top(s).kind = "cmd"
    PROVE  /\ CmdAt(stack[s], Len(stack[s])) /\ Top(s) = stack[s][Len(stack[s])]
           /\ Below(s) = Front(stack[s]) /\ Top(s) \in CommandFrames
           /\ Top(s).cmd \in Cmds /\ Top(s).stdin \in Texts /\ Top(s).id \in Nat
           /\ Top(s).last \in Results /\ Top(s).kept \in BOOLEAN
           /\ Top(s).at \in {"start", "asking", "stream"} => ~Top(s).kept
<1> DEFINE k == stack[s]
<1>1. k \in Seq(Frames) /\ IdsOK(k, started[s], notes[s])
  BY Mine DEF SInv
<1>2. k[Len(k)] \in Frames /\ Len(k) \in 1..Len(k)
  BY <1>1, FrontFacts
<1>3. Top(s) = k[Len(k)] /\ Below(s) = Front(k)
  BY DEF Top, Below, Front
<1>4. CmdAt(k, Len(k)) /\ Top(s) \in CommandFrames
  BY <1>2, <1>3, KindOf DEF CmdAt
<1>5. Top(s).at \in {"start", "asking", "stream"} => ~Top(s).kept
  BY <1>1, <1>3, <1>4 DEF IdsOK
<1> HIDE DEF k
<1>6. /\ Top(s).cmd \in Cmds /\ Top(s).stdin \in Texts /\ Top(s).id \in Nat
      /\ Top(s).last \in Results /\ Top(s).kept \in BOOLEAN
  BY <1>4 DEF CommandFrames
<1> QED BY <1>3, <1>4, <1>5, <1>6 DEF k

\* A command goes on as f, with or without a note.
LEMMA Goes ==
    ASSUME Locals, NEW s \in Shells, stack[s] # <<>>, Top(s).kind = "cmd",
           Top(s).at \in {"start", "asking", "stream"}, NEW f \in CommandFrames,
           f.id = Top(s).id, f.at \in {"asking", "stream", "finish"}, Become(s, f),
           UNCHANGED <<mode, depth, status, started, log>>, NEW saved \in BOOLEAN, Note(s, saved),
           f.kept => saved /\ f.at = "finish"
    PROVE  Locals'
<1> DEFINE k == stack[s]
           ns2 == IF saved THEN notes[s] \cup {f.id} ELSE notes[s]
           k2 == Append(Front(k), f)
<1>1. /\ SInv(k, depth[s], notes[s], status[s], mode[s], started[s], log[s])
      /\ depth[s] \in Nat /\ notes[s] \in SUBSET Nat
      /\ status[s] \in 0..255 /\ mode[s] \in {"prompt", "command", "closed"}
      /\ started[s] \in Nat /\ log[s] \in Logs /\ ShellTypes
  BY Mine
<1>2. CmdAt(k, Len(k)) /\ Top(s) = k[Len(k)] /\ Below(s) = Front(k) /\ Top(s).id \in Nat
  BY CmdTop
<1>3. ns2 \in SUBSET Nat /\ (ns2 = notes[s] \/ ns2 = notes[s] \cup {f.id})
      /\ (f.kept => f.at = "finish" /\ f.id \in ns2)
  BY <1>1, <1>2
<1>4. Moves(s, k2, depth[s], ns2, status[s], mode[s], started[s], log[s])
  <2>1. stack' = [stack EXCEPT ![s] = k2]
    BY <1>2 DEF Become
  <2>2. notes' = [notes EXCEPT ![s] = ns2]
    BY DEF Note
  <2> HIDE DEF k2, ns2, k
  <2> QED BY <1>1, <2>1, <2>2, Stays DEF Moves
<1> HIDE DEF ns2
<1>5. SInv(k2, depth[s], ns2, status[s], mode[s], started[s], log[s])
  BY <1>1, <1>2, <1>3, Working
<1> HIDE DEF k2
<1>6. MovesWell(s)
  BY <1>1, <1>3, <1>4, <1>5 DEF MovesWell
<1> QED BY <1>6, MovedWell

\* A command goes on and notes nothing; the new question is not in the cache.
LEMMA GoesOn ==
    ASSUME Locals, Shared, NEW s \in Shells, stack[s] # <<>>, Top(s).kind = "cmd",
           Top(s).at \in {"start", "asking", "stream"}, NEW f \in CommandFrames,
           f.id = Top(s).id, f.at \in {"asking", "stream", "finish"}, Become(s, f),
           ~f.kept, UNCHANGED <<mode, depth, notes, status, started, log, cache, told>>,
           f.at = "asking" =>
             /\ f.cmd.arg \in Requests /\ f.cmd.arg \in Dispatched(DispatchLine(f.cmd))
             /\ Cacheable(f.cmd.arg) => <<DispatchLine(f.cmd), f.stdin>> \notin DOMAIN cache
    PROVE  Locals' /\ Shared'
<1>0. ShellTypes
  BY DEF Locals
<1>1. Note(s, FALSE)
  BY <1>0 DEF Note, ShellTypes
<1>2. Locals'
  BY <1>1, Goes
<1> DEFINE k == Append(Front(stack[s]), f)
<1>3. stack' = [stack EXCEPT ![s] = k]
  BY CmdTop DEF Become
<1>4. k[Len(k)] = f
  BY Mine, Replacing
<1> HIDE DEF k
<1>5. Asks(k) => /\ AsksWell(k)
                 /\ Cacheable(ArgOf(k)) => KeyOf(k) \notin DOMAIN cache
  BY <1>4 DEF Asks, AsksWell, KeyOf, ArgOf
<1>6. UNCHANGED <<cache, told>>
  OBVIOUS
<1>7. Shared'
  BY <1>0, <1>3, <1>5, <1>6, SharedStays
<1> QED BY <1>2, <1>7

\* A command is through with its dispatch.
LEMMA Settles ==
    ASSUME Locals, Shared, NEW s \in Shells, stack[s] # <<>>, Top(s).kind = "cmd",
           Top(s).at \in {"start", "asking", "stream"}, NEW r \in Results, Settle(s, r),
           UNCHANGED <<mode, depth, notes, status, started, log, cache, told>>
    PROVE  Locals' /\ Shared'
<1> DEFINE f == Receive(Top(s), r)
<1>1. Top(s) \in CommandFrames /\ ~Top(s).kept
  BY CmdTop
<1>2. f \in CommandFrames /\ f.at = "finish" /\ f.id = Top(s).id /\ ~f.kept
  BY <1>1, CmdReceives
<1>3. Become(s, f)
  BY DEF Settle
<1> HIDE DEF f
<1> QED BY <1>2, <1>3, GoesOn

\* It is, and has noted something or not.
LEMMA SettlesNoted ==
    ASSUME Locals, Shared, NEW s \in Shells, stack[s] # <<>>, Top(s).kind = "cmd",
           Top(s).at = "start", NEW r \in Results, NEW saved \in BOOLEAN,
           SettleNoted(s, r, saved), UNCHANGED <<mode, depth, status, started, log, cache, told>>
    PROVE  Locals' /\ Shared'
<1> DEFINE e == Receive(Top(s), r)
           f == [e EXCEPT !.kept = saved]
           k == Append(Front(stack[s]), f)
<1>1. Top(s) \in CommandFrames
  BY CmdTop
<1>2. e \in CommandFrames /\ e.at = "finish" /\ e.id = Top(s).id
  BY <1>1, CmdReceives
<1>3. Become(s, f) /\ Note(s, saved)
  BY DEF SettleNoted
<1> HIDE DEF e
<1>4. f \in CommandFrames /\ f.at = "finish" /\ f.id = Top(s).id /\ f.kept = saved
  BY <1>2 DEF CommandFrames
<1> HIDE DEF f
<1>5. Locals'
  BY <1>3, <1>4, Goes
<1>6. stack' = [stack EXCEPT ![s] = k] /\ ShellTypes
  BY <1>3, CmdTop, Mine DEF Become
<1>7. k[Len(k)] = f
  <2>1. f \in Frames
    BY <1>4 DEF Frames
  <2> QED BY <2>1, Mine, Replacing
<1> HIDE DEF k
<1>8. ~Asks(k)
  BY <1>4, <1>7 DEF Asks
<1>9. UNCHANGED <<cache, told>>
  OBVIOUS
<1> QED BY <1>5, <1>6, <1>8, <1>9, SharedStays

\* The frame on top of a shell; only a line can be the last one.
LEMMA AnyTop ==
    ASSUME Locals, NEW s \in Shells, stack[s] # <<>>
    PROVE  /\ Top(s) = stack[s][Len(stack[s])] /\ Below(s) = Front(stack[s])
           /\ Top(s) \in Frames /\ Len(stack[s]) \in Nat /\ Len(stack[s]) >= 1
           /\ Top(s).kind # "line" => Len(stack[s]) > 1
<1> DEFINE k == stack[s]
<1>1. k \in Seq(Frames) /\ k[1].kind = "line"
  BY Mine DEF SInv, WellNested
<1>2. k[Len(k)] \in Frames /\ Len(k) \in Nat /\ Len(k) >= 1
  BY <1>1, FrontFacts
<1>3. Top(s) = k[Len(k)] /\ Below(s) = Front(k)
  BY DEF Top, Below, Front
<1>4. Len(k) = 1 \/ Len(k) > 1
  <2> DEFINE n == Len(k)
  <2>1. n \in Nat /\ n >= 1
    BY <1>2
  <2> HIDE DEF n
  <2>2. n = 1 \/ n > 1
    BY <2>1
  <2> QED BY <2>2 DEF n
<1> QED BY <1>1, <1>2, <1>3, <1>4

\* A frame calls another one, and no command begins.
LEMMA Calls ==
    ASSUME Locals, Shared, NEW s \in Shells, stack[s] # <<>>, NEW f \in Frames, NEW g \in Frames,
           Alike(Top(s), f),
           f.kind = "cmd" => /\ f.at = "inner" /\ f.id = Top(s).id
                             /\ f.kept = Top(s).kept /\ Top(s).at = "start",
           f.kind \in Callers(g.kind), g.kind # "cmd", log[s].last.end = "go",
           g.kind = "line" => g.rest = LineOf[g.line], NEW d2 \in Nat,
           \/ g.kind = "line" /\ d2 = depth[s]
           \/ g.kind = "script" /\ g.saved = depth[s] /\ g.depth = d2 /\ d2 <= MaxScriptDepth,
           stack' = [stack EXCEPT ![s] = Below(s) \o <<f, g>>],
           depth' = [depth EXCEPT ![s] = d2],
           UNCHANGED <<mode, notes, status, started, log, cache, told>>
    PROVE  Locals' /\ Shared'
<1> DEFINE k == stack[s]
           k2 == Front(k) \o <<f, g>>
<1>1. /\ SInv(k, depth[s], notes[s], status[s], mode[s], started[s], log[s])
      /\ k \in Seq(Frames) /\ notes[s] \in SUBSET Nat
      /\ status[s] \in 0..255 /\ mode[s] \in {"prompt", "command", "closed"}
      /\ started[s] \in Nat /\ log[s] \in Logs /\ ShellTypes
  BY Mine
<1>2. Top(s) = k[Len(k)] /\ Below(s) = Front(k)
  BY AnyTop
<1>3. SInv(k2, d2, notes[s], status[s], mode[s], started[s], log[s])
  BY <1>1, <1>2, Called
<1>4. stack' = [stack EXCEPT ![s] = k2]
  BY <1>2
<1>5. k2[Len(k2)] = g
  BY <1>1, Pushing
<1> HIDE DEF k, k2
<1>6. Moves(s, k2, d2, notes[s], status[s], mode[s], started[s], log[s])
  BY <1>1, <1>4, Stays DEF Moves
<1>7. MovesWell(s)
  BY <1>1, <1>3, <1>6 DEF MovesWell
<1>8. Locals'
  BY <1>7, MovedWell
<1>9. ~Asks(k2)
  BY <1>5 DEF Asks
<1>10. UNCHANGED <<cache, told>>
  OBVIOUS
<1> QED BY <1>1, <1>4, <1>8, <1>9, <1>10, SharedStays

\* The frame on top returns r.
LEMMA Returns ==
    ASSUME Locals, Shared, NEW s \in Shells, stack[s] # <<>>, Len(stack[s]) > 1,
           Top(s).kind = "cmd" => Top(s).at = "record",
           NEW r \in Results, r.end = Top(s).last.end, Return(s, r),
           NEW d2 \in Nat, d2 = IF Top(s).kind = "script" THEN Top(s).saved ELSE depth[s],
           NEW st2 \in 0..255, Top(s).kind = "cmd" /\ r.end = "go" => st2 = r.code,
           depth' = [depth EXCEPT ![s] = d2], status' = [status EXCEPT ![s] = st2],
           UNCHANGED <<mode, notes, started, log, cache, told>>
    PROVE  Locals' /\ Shared'
<1> DEFINE k == stack[s]
           k2 == Returned(k, r)
           f == k[Len(k) - 1]
<1>1. /\ SInv(k, depth[s], notes[s], status[s], mode[s], started[s], log[s])
      /\ k \in Seq(Frames) /\ notes[s] \in SUBSET Nat
      /\ mode[s] \in {"prompt", "command", "closed"}
      /\ started[s] \in Nat /\ log[s] \in Logs /\ ShellTypes
  BY Mine
<1>2. Top(s) = k[Len(k)] /\ Below(s) = Front(k)
  BY AnyTop
<1>3. SInv(k2, d2, notes[s], st2, mode[s], started[s], log[s])
  BY <1>1, <1>2, Popped
<1>4. stack' = [stack EXCEPT ![s] = k2]
  BY <1>2 DEF Return, Returned
<1>5. k2[Len(k2)] = Receive(f, r) /\ f \in Frames
  <2>1. Len(k) \in Nat /\ Len(k) > 1
    BY AnyTop
  <2>2. Len(k) - 1 \in 1..Len(k) - 1
    <3> DEFINE n == Len(k)
    <3> HIDE DEF n
    <3>1. n \in Nat /\ n > 1
      BY <2>1 DEF n
    <3>2. n - 1 \in 1..n - 1
      BY <3>1
    <3> QED BY <3>2 DEF n
  <2>3. k2[Len(k2)] = Receive(f, r)
    BY <1>1, <2>1, Popping
  <2>4. f \in Frames
    BY <1>1, <2>2, FrontFacts
  <2> QED BY <2>3, <2>4
<1> HIDE DEF k, k2, f
<1>6. Moves(s, k2, d2, notes[s], st2, mode[s], started[s], log[s])
  BY <1>1, <1>4, Stays DEF Moves
<1>7. MovesWell(s)
  BY <1>1, <1>3, <1>6 DEF MovesWell
<1>8. Locals'
  BY <1>7, MovedWell
<1>9. ~Asks(k2)
  BY <1>5, KindOf, CmdReceives, ScriptReceives, LineReceives, SMTT(30) DEF Asks
<1>10. UNCHANGED <<cache, told>>
  OBVIOUS
<1> QED BY <1>1, <1>4, <1>8, <1>9, <1>10, SharedStays

\* A line or a script goes on by itself.
LEMMA CallerGoes ==
    ASSUME Locals, Shared, NEW s \in Shells, stack[s] # <<>>, Top(s).kind # "cmd",
           NEW f \in Frames, Alike(Top(s), f), f.last = Top(s).last,
           f.kind = "line" /\ f.last.end = "go" => status[s] = f.last.code,
           stack' = [stack EXCEPT ![s] = Append(Below(s), f)],
           UNCHANGED <<mode, depth, notes, status, started, log, cache, told>>
    PROVE  Locals' /\ Shared'
<1> DEFINE k == stack[s]
           k2 == Append(Front(k), f)
<1>1. /\ SInv(k, depth[s], notes[s], status[s], mode[s], started[s], log[s])
      /\ k \in Seq(Frames) /\ depth[s] \in Nat /\ notes[s] \in SUBSET Nat
      /\ status[s] \in 0..255 /\ mode[s] \in {"prompt", "command", "closed"}
      /\ started[s] \in Nat /\ log[s] \in Logs /\ ShellTypes
  BY Mine
<1>2. Top(s) = k[Len(k)] /\ Below(s) = Front(k)
  BY AnyTop
<1>3. SInv(k2, depth[s], notes[s], status[s], mode[s], started[s], log[s])
  BY <1>1, <1>2, CallerReplaced
<1>4. stack' = [stack EXCEPT ![s] = k2]
  BY <1>2
<1>5. k2[Len(k2)] = f
  BY <1>1, Replacing
<1> HIDE DEF k, k2
<1>6. Moves(s, k2, depth[s], notes[s], status[s], mode[s], started[s], log[s])
  BY <1>1, <1>4, Stays DEF Moves
<1>7. MovesWell(s)
  BY <1>1, <1>3, <1>6 DEF MovesWell
<1>8. Locals'
  BY <1>7, MovedWell
<1>9. ~Asks(k2)
  BY <1>5 DEF Asks, Alike
<1>10. UNCHANGED <<cache, told>>
  OBVIOUS
<1> QED BY <1>1, <1>4, <1>8, <1>9, <1>10, SharedStays

-----------------------------------------------------------------------------
(***************************************************************************)
(* Lines and scripts.                                                      *)
(***************************************************************************)

\* Nothing has ended what the frame on top belongs to.
LEMMA StillGoing ==
    ASSUME Locals, NEW s \in Shells, stack[s] # <<>>,
           \/ Top(s).kind # "cmd" /\ Top(s).last.end = "go"
           \/ Top(s).kind = "cmd" /\ Top(s).at \in {"start", "asking", "stream"}
    PROVE  log[s].last.end = "go"
<1>1. EndOK(stack[s], mode[s], log[s])
  BY Mine DEF SInv
<1>2. Top(s) = stack[s][Len(stack[s])] /\ Top(s).kind \in {"line", "script", "cmd"}
  BY AnyTop, KindOf
<1> QED BY <1>1, <1>2 DEF EndOK

\* The line and the script on top of a shell.
LEMMA CallerTop ==
    ASSUME Locals, NEW s \in Shells
    PROVE  /\ InLine(s) => /\ stack[s] # <<>> /\ Top(s) \in LineFrames /\ Top(s).kind = "line"
                           /\ Top(s).last \in Results /\ Top(s).out \in Texts
                           /\ Top(s).rest \in Seq(Stages) /\ Top(s).line \in Lines
           /\ InScript(s) => /\ stack[s] # <<>> /\ Top(s) \in ScriptFrames
                             /\ Top(s).kind = "script" /\ Top(s).last \in Results
                             /\ Top(s).out \in Texts /\ Top(s).rest \in Texts
                             /\ Top(s).saved \in Nat
<1>1. ASSUME InLine(s) PROVE stack[s] # <<>> /\ Top(s) \in LineFrames /\ Top(s).kind = "line"
  BY <1>1, AnyTop, KindOf DEF InLine
<1>2. ASSUME InScript(s)
      PROVE  stack[s] # <<>> /\ Top(s) \in ScriptFrames /\ Top(s).kind = "script"
  BY <1>2, AnyTop, KindOf DEF InScript
<1> QED BY <1>1, <1>2 DEF LineFrames, ScriptFrames

\* A stage that is passed over is not the first of its line.
LEMMA LineSkipKeeps ==
    ASSUME Locals, Shared, NEW s \in Shells, LineSkip(s)
    PROVE  Locals' /\ Shared'
<1> DEFINE t == Top(s)
           f == [t EXCEPT !.rest = AfterPipeline(t.rest)]
<1>1. /\ InLine(s) /\ t.last.end = "go" /\ t.rest # <<>> /\ Passed(t)
      /\ stack' = [stack EXCEPT ![s] = Append(Below(s), f)]
      /\ UNCHANGED <<mode, depth, notes, status, started, log, cache, told>>
  BY DEF LineSkip, Become, shared
<1>2. stack[s] # <<>> /\ t \in LineFrames /\ t.kind = "line" /\ t.rest \in Seq(Stages)
      /\ t.line \in Lines
  BY <1>1, CallerTop
<1>3. t.rest # LineOf[t.line]
  <2>1. t.rest[1].op \in {"&&", "||"}
    BY <1>1 DEF Passed
  <2>2. LineOf[t.line] # <<>> => LineOf[t.line][1].op = ";"
    BY <1>2, ShellAssumption
  <2> QED BY <1>1, <2>1, <2>2
<1>4. status[s] = t.last.code
  <2>1. StatusOK(stack[s], status[s]) /\ t = stack[s][Len(stack[s])]
    BY <1>2, Mine, AnyTop DEF SInv
  <2> HIDE DEF t
  <2> QED BY <1>1, <1>2, <1>3, <2>1 DEF StatusOK
<1>5. AfterPipeline(t.rest) \in Seq(Stages)
  BY <1>2, AfterPipelineType
<1> HIDE DEF t
<1>6. f \in LineFrames /\ f.last = t.last /\ f.kind = "line"
  BY <1>2, <1>5 DEF LineFrames
<1> HIDE DEF f
<1>7. f \in Frames /\ Alike(t, f)
  BY <1>2, <1>6 DEF Frames, Alike
<1> QED BY <1>1, <1>2, <1>4, <1>6, <1>7, CallerGoes DEF t

\* Starting the next stage of a line keeps the invariant.
LEMMA LineRunKeeps ==
    ASSUME Locals, Shared, NEW s \in Shells, LineRun(s)
    PROVE  Locals' /\ Shared'
<1> DEFINE t == Top(s)
           k == stack[s]
           f == [t EXCEPT !.rest = Tail(t.rest)]
           c == t.rest[1].cmd
           stdin == IF t.rest[1].op = "|" THEN t.last.out ELSE <<>>
           g == CommandFrame(c, stdin, started[s] + 1)
           k2 == Front(k) \o <<f, g>>
<1>1. /\ InLine(s) /\ t.last.end = "go" /\ t.rest # <<>> /\ Start(s, c, stdin)
  BY DEF LineRun
<1>2. /\ stack[s] # <<>> /\ t \in LineFrames /\ t.kind = "line" /\ t.rest \in Seq(Stages)
      /\ t.last \in Results
  BY <1>1, CallerTop
<1>3. /\ SInv(k, depth[s], notes[s], status[s], mode[s], started[s], log[s])
      /\ k \in Seq(Frames) /\ depth[s] \in Nat
      /\ status[s] \in 0..255 /\ mode[s] \in {"prompt", "command", "closed"}
      /\ started[s] \in Nat /\ log[s] \in Logs /\ ShellTypes
  BY Mine
<1>4. t = k[Len(k)] /\ Below(s) = Front(k)
  BY <1>2, AnyTop
<1>5. /\ stack' = [stack EXCEPT ![s] = k2]
      /\ started' = [started EXCEPT ![s] = started[s] + 1] /\ notes' = [notes EXCEPT ![s] = {}]
      /\ UNCHANGED <<mode, depth, status, log, cache, told>>
  BY <1>1, <1>4 DEF Start, shared
<1>6. log[s].last.end = "go"
  BY <1>1, <1>2, StillGoing
<1>7. t.rest[1] \in Stages /\ Tail(t.rest) \in Seq(Stages)
  BY <1>1, <1>2, Firsts
<1>8. c \in Cmds
  BY <1>7, StageFacts
<1>9. stdin \in Texts
  <2>1. t.last.out \in Texts
    BY <1>2, ResultFacts
  <2>2. <<>> \in Texts
    BY DEF Texts
  <2> QED BY <2>1, <2>2
<1> HIDE DEF c, stdin
<1>10. g \in CommandFrames /\ g.id = started[s] + 1 /\ g.at = "start" /\ ~g.kept
  BY <1>3, <1>8, <1>9, NewFrames
<1> HIDE DEF g, t
<1>11. f \in LineFrames /\ f.kind = "line"
  BY <1>2, <1>7 DEF LineFrames
<1> HIDE DEF f
<1>12. f \in Frames /\ g \in Frames
  BY <1>10, <1>11 DEF Frames
<1>13. SInv(k2, depth[s], {}, status[s], mode[s], started[s] + 1, log[s])
  BY <1>2, <1>3, <1>4, <1>6, <1>10, <1>11, <1>12, Begun
<1>14. k2[Len(k2)] = g
  BY <1>2, <1>3, <1>12, Pushing
<1> HIDE DEF k, k2
<1>15. Moves(s, k2, depth[s], {}, status[s], mode[s], started[s] + 1, log[s])
  BY <1>3, <1>5, Stays DEF Moves
<1>16. started[s] + 1 \in Nat /\ {} \in SUBSET Nat
  BY <1>3
<1>17. MovesWell(s)
  BY <1>3, <1>13, <1>15, <1>16 DEF MovesWell
<1>18. Locals'
  BY <1>17, MovedWell
<1>19. ~Asks(k2)
  BY <1>10, <1>14 DEF Asks
<1> QED BY <1>3, <1>5, <1>18, <1>19, SharedStays

\* So does the end of a line, which hands its result to its caller,
LEMMA LineDoneKeeps ==
    ASSUME Locals, Shared, NEW s \in Shells, LineDone(s)
    PROVE  Locals' /\ Shared'
<1> DEFINE t == Top(s)
           r == [t.last EXCEPT !.out = t.out]
<1>1. /\ InLine(s) /\ Len(stack[s]) > 1 /\ Return(s, r)
      /\ UNCHANGED <<mode, depth, notes, status, started, log, cache, told>>
  BY DEF LineDone, shared
<1>2. stack[s] # <<>> /\ t.kind = "line" /\ t.last \in Results /\ t.out \in Texts
  BY <1>1, CallerTop
<1>3. r \in Results /\ r.end = t.last.end
  BY <1>2, OutReplaced
<1>4. depth[s] \in Nat /\ status[s] \in 0..255 /\ depth' = [depth EXCEPT ![s] = depth[s]]
      /\ status' = [status EXCEPT ![s] = status[s]]
  BY <1>1, Mine, Stays
<1> HIDE DEF r
<1>5. /\ t.kind = "cmd" => t.at = "record"
      /\ depth[s] = IF t.kind = "script" THEN t.saved ELSE depth[s]
      /\ t.kind = "cmd" /\ r.end = "go" => status[s] = r.code
  BY <1>2
<1>6. Return(s, r) /\ Len(stack[s]) > 1 /\ UNCHANGED <<mode, notes, started, log, cache, told>>
  BY <1>1
<1> QED BY <1>2, <1>3, <1>4, <1>5, <1>6, Returns

\* the end of a script, which restores the depth,
LEMMA ScriptDoneKeeps ==
    ASSUME Locals, Shared, NEW s \in Shells, ScriptDone(s)
    PROVE  Locals' /\ Shared'
<1> DEFINE t == Top(s)
           r == [t.last EXCEPT !.out = t.out]
<1>1. /\ InScript(s) /\ Return(s, r) /\ depth' = [depth EXCEPT ![s] = t.saved]
      /\ UNCHANGED <<mode, notes, status, started, log, cache, told>>
  BY DEF ScriptDone, shared
<1>2. stack[s] # <<>> /\ t.kind = "script" /\ t.last \in Results /\ t.out \in Texts
      /\ t.saved \in Nat
  BY <1>1, CallerTop
<1>3. Len(stack[s]) > 1
  BY <1>2, AnyTop
<1>4. r \in Results /\ r.end = t.last.end
  BY <1>2, OutReplaced
<1>5. status[s] \in 0..255 /\ status' = [status EXCEPT ![s] = status[s]]
  BY <1>1, Mine, Stays
<1> HIDE DEF r
<1> QED BY <1>1, <1>2, <1>3, <1>4, <1>5, Returns

\* the next line of a script,
LEMMA ScriptLineKeeps ==
    ASSUME Locals, Shared, NEW s \in Shells, ScriptLine(s)
    PROVE  Locals' /\ Shared'
<1> DEFINE t == Top(s)
           f == [t EXCEPT !.rest = Tail(t.rest)]
           l == t.rest[1]
<1>1. /\ InScript(s) /\ t.rest # <<>> /\ t.last.end = "go"
      /\ stack' = [stack EXCEPT ![s] =
                     Below(s) \o IF LineOf[l] = <<>> THEN <<f>> ELSE <<f, LineFrame(l)>>]
      /\ UNCHANGED <<mode, depth, notes, status, started, log, cache, told>>
  BY DEF ScriptLine, shared
<1>2. stack[s] # <<>> /\ t \in ScriptFrames /\ t.kind = "script" /\ t.rest \in Seq(Lines)
  BY <1>1, CallerTop DEF Texts
<1>3. l \in Lines /\ Tail(t.rest) \in Texts
  BY <1>1, <1>2, Firsts DEF Texts
<1>4. depth[s] \in Nat /\ depth' = [depth EXCEPT ![s] = depth[s]]
  BY <1>1, Mine, Stays
<1>5. log[s].last.end = "go"
  BY <1>1, <1>2, StillGoing
<1> HIDE DEF t, l
<1>6. f \in ScriptFrames /\ f.kind = "script" /\ f.last = t.last /\ f.depth = t.depth
      /\ f.saved = t.saved
  BY <1>2, <1>3 DEF ScriptFrames
<1> HIDE DEF f
<1>7. f \in Frames /\ Alike(t, f)
  BY <1>2, <1>6 DEF Frames, Alike
<1>8. CASE LineOf[l] = <<>>
  <2>1. stack' = [stack EXCEPT ![s] = Below(s) \o <<f>>]
    BY <1>1, <1>8
  <2>2. Below(s) \o <<f>> = Append(Below(s), f)
    <3>1. Below(s) \in Seq(Frames)
      BY <1>2, AnyTop, Mine, FrontFacts
    <3> QED BY <1>7, <3>1, AppendIsConcat
  <2>3. stack' = [stack EXCEPT ![s] = Append(Below(s), f)]
    BY <2>1, <2>2
  <2> QED BY <1>1, <1>2, <1>6, <1>7, <2>3, CallerGoes DEF t
<1>9. CASE LineOf[l] # <<>>
  <2> DEFINE g == LineFrame(l)
  <2>1. stack' = [stack EXCEPT ![s] = Below(s) \o <<f, g>>]
    BY <1>1, <1>9
  <2>2. g \in Frames /\ g.kind = "line" /\ g.rest = LineOf[g.line]
    BY <1>3, NewFrames DEF Frames
  <2>3. f.kind \in Callers(g.kind)
    BY <1>6, <2>2 DEF Callers
  <2>4. /\ f.kind = "cmd" => /\ f.at = "inner" /\ f.id = t.id
                              /\ f.kept = t.kept /\ t.at = "start"
        /\ g.kind # "cmd" /\ (g.kind = "line" => g.rest = LineOf[g.line])
        /\ \/ g.kind = "line" /\ depth[s] = depth[s]
           \/ /\ g.kind = "script" /\ g.saved = depth[s] /\ g.depth = depth[s]
              /\ depth[s] <= MaxScriptDepth
    BY <1>6, <2>2
  <2> HIDE DEF g
  <2>5. UNCHANGED <<mode, notes, status, started, log, cache, told>>
    BY <1>1
  <2> QED BY <1>2, <1>4, <1>5, <1>7, <2>1, <2>2, <2>3, <2>4, <2>5, Calls DEF t
<1> QED BY <1>8, <1>9

\* the return to the prompt or the end of the session,
LEMMA PromptKeeps ==
    ASSUME Locals, Shared, NEW s \in Shells, Prompt(s)
    PROVE  Locals' /\ Shared'
<1> DEFINE t == Top(s)
           m == mode[s]
           m2 == IF t.last.end # "go" \/ m = "command" THEN "closed" ELSE m
           lg == log[s]
           lg2 == [EmptyLog EXCEPT !.last.end = lg.last.end]
<1>1. /\ InLine(s) /\ Len(stack[s]) = 1
      /\ stack' = [stack EXCEPT ![s] = <<>>] /\ mode' = [mode EXCEPT ![s] = m2]
      /\ started' = [started EXCEPT ![s] = 0] /\ log' = [log EXCEPT ![s] = lg2]
      /\ UNCHANGED <<cache, told, depth, notes, status>>
  BY DEF Prompt, shared
<1>2. /\ SInv(stack[s], depth[s], notes[s], status[s], m, started[s], lg)
      /\ depth[s] \in Nat /\ notes[s] \in SUBSET Nat /\ status[s] \in 0..255
      /\ m \in {"prompt", "command", "closed"} /\ lg \in Logs /\ ShellTypes
  BY Mine
<1>3. stack[s] # <<>> /\ t = stack[s][Len(stack[s])]
  BY <1>1, CallerTop, AnyTop
<1>4. m2 \in {"prompt", "command", "closed"} /\ (t.last.end # "go" => m2 = "closed")
  BY <1>2
<1> HIDE DEF t, m, m2, lg
<1>5. lg2 \in Logs /\ lg2.ids = {} /\ lg2.last.notes = {} /\ lg2.last.end = lg.last.end
  BY <1>2 DEF Logs, EmptyLog
<1> HIDE DEF lg2
<1>6. SInv(<<>>, depth[s], notes[s], status[s], m2, 0, lg2)
  BY <1>1, <1>2, <1>3, <1>4, <1>5, Prompted
<1>7. Moves(s, <<>>, depth[s], notes[s], status[s], m2, 0, lg2)
  BY <1>1, <1>2, Stays DEF Moves
<1>8. MovesWell(s)
  BY <1>2, <1>4, <1>5, <1>6, <1>7 DEF MovesWell
<1>9. Locals'
  BY <1>8, MovedWell
<1>10. ~Asks(<<>>)
  BY DEF Asks
<1> QED BY <1>1, <1>2, <1>9, <1>10, SharedStays

\* the entry of a line at the prompt,
LEMMA EnterLineKeeps ==
    ASSUME Locals, Shared, NEW s \in Shells, EnterLine(s)
    PROVE  Locals' /\ Shared'
<1>1. PICK l \in Typed :
        /\ mode[s] # "closed" /\ stack[s] = <<>> /\ Push(s, LineFrame(l))
        /\ UNCHANGED <<cache, mode, depth, notes, status, started, log, told>>
  BY DEF EnterLine
<1> DEFINE g == LineFrame(l)
           k2 == Append(<<>>, g)
<1>2. g \in LineFrames /\ g.kind = "line" /\ g.rest = LineOf[g.line]
  <2>1. l \in Lines
    BY ShellAssumption
  <2> QED BY <2>1, NewFrames
<1> HIDE DEF g
<1>3. stack' = [stack EXCEPT ![s] = k2]
  BY <1>1 DEF Push, g
<1>4. /\ SInv(<<>>, depth[s], notes[s], status[s], mode[s], started[s], log[s])
      /\ depth[s] \in Nat /\ notes[s] \in SUBSET Nat /\ status[s] \in 0..255
      /\ mode[s] \in {"prompt", "command", "closed"} /\ started[s] \in Nat
      /\ log[s] \in Logs /\ ShellTypes
  <2>1. SInv(stack[s], depth[s], notes[s], status[s], mode[s], started[s], log[s])
    BY Mine
  <2>2. SInv(<<>>, depth[s], notes[s], status[s], mode[s], started[s], log[s])
    BY <1>1, <2>1
  <2> QED BY <2>2, Mine
<1>5. SInv(k2, depth[s], notes[s], status[s], mode[s], started[s], log[s])
  BY <1>1, <1>2, <1>4, Entered
<1>6. k2[Len(k2)] = g
  <2>1. k2 = <<g>> /\ Len(<<g>>) = 1 /\ <<g>>[1] = g
    OBVIOUS
  <2> QED BY <2>1
<1> HIDE DEF k2
<1>7. Moves(s, k2, depth[s], notes[s], status[s], mode[s], started[s], log[s])
  BY <1>1, <1>3, <1>4, Stays DEF Moves
<1>8. MovesWell(s)
  BY <1>4, <1>5, <1>7 DEF MovesWell
<1>9. Locals'
  BY <1>8, MovedWell
<1>10. ~Asks(k2)
  BY <1>2, <1>6 DEF Asks
<1> QED BY <1>1, <1>3, <1>4, <1>9, <1>10, SharedStays

\* and a client that leaves at the prompt.
LEMMA HangupKeeps ==
    ASSUME Locals, Shared, NEW s \in Shells, Hangup(s)
    PROVE  Locals' /\ Shared'
<1>1. /\ stack[s] = <<>> /\ mode' = [mode EXCEPT ![s] = "closed"]
      /\ UNCHANGED <<cache, told, stack, depth, notes, status, started, log>>
  BY DEF Hangup, shared
<1>2. /\ SInv(stack[s], depth[s], notes[s], status[s], mode[s], started[s], log[s])
      /\ depth[s] \in Nat /\ notes[s] \in SUBSET Nat /\ status[s] \in 0..255
      /\ started[s] \in Nat /\ log[s] \in Logs /\ ShellTypes
  BY Mine
<1>3. SInv(<<>>, depth[s], notes[s], status[s], mode[s], started[s], log[s])
  BY <1>1, <1>2
<1>4. SInv(<<>>, depth[s], notes[s], status[s], "closed", started[s], log[s])
  BY <1>3, AtPrompt
<1>5. stack' = [stack EXCEPT ![s] = <<>>]
  BY <1>1, <1>2, Stays
<1>6. Moves(s, <<>>, depth[s], notes[s], status[s], "closed", started[s], log[s])
  BY <1>1, <1>2, <1>5, Stays DEF Moves
<1>7. MovesWell(s)
  <2>1. "closed" \in {"prompt", "command", "closed"}
    OBVIOUS
  <2> QED BY <1>2, <1>4, <1>6, <2>1 DEF MovesWell
<1>8. Locals'
  BY <1>7, MovedWell
<1>9. ~Asks(<<>>)
  BY DEF Asks
<1> QED BY <1>1, <1>2, <1>5, <1>8, <1>9, SharedStays

-----------------------------------------------------------------------------
(***************************************************************************)
(* Commands.  Rest is all of the invariant but the count of lines.         *)
(***************************************************************************)
Rest == FilesOK /\ Locals /\ Shared

\* The command that runs.
LEMMA RunsTop ==
    ASSUME NEW s, NEW do, Runs(s, do)
    PROVE  stack[s] # <<>> /\ Top(s).kind = "cmd" /\ Top(s).at = "start" /\ Top(s).cmd.do = do
BY DEF Runs, InCommand

\* Commands that end at once, with a file or without, keep the invariant.
LEMMA FixedCatRm ==
    ASSUME Rest, NEW s \in Shells, RunFixed(s) \/ RunCat(s) \/ RunRm(s)
    PROVE  Rest'
<1>0. Locals /\ Shared /\ FilesOK
  BY DEF Rest
<1>1. CASE RunFixed(s)
  <2>1. /\ stack[s] # <<>> /\ Top(s).kind = "cmd" /\ Top(s).at = "start"
        /\ Top(s).cmd.do = "fixed"
    BY <1>1, RunsTop DEF RunFixed
  <2>2. Operand(s) \in Results
    BY <1>0, <2>1, CmdTop, StageFacts DEF Operand
  <2>3. Settle(s, Operand(s)) /\ UNCHANGED files
        /\ UNCHANGED <<mode, depth, notes, status, started, log, cache, told>>
    BY <1>1 DEF RunFixed, Quiet
  <2>4. Locals' /\ Shared'
    BY <1>0, <2>1, <2>2, <2>3, Settles
  <2> QED BY <1>0, <2>3, <2>4 DEF Rest, FilesOK
<1>2. CASE RunCat(s)
  <2>1. stack[s] # <<>> /\ Top(s).kind = "cmd" /\ Top(s).at = "start"
    BY <1>2, RunsTop DEF RunCat
  <2>2. PICK r : /\ \/ r = Result(Top(s).stdin, 0)
                    \/ Operand(s) \in DOMAIN files /\ r = Result(files[Operand(s)], 0)
                    \/ r = Failure(1)
                 /\ Settle(s, r)
    <3>1. CASE Operand(s) = None
      BY <1>2, <3>1 DEF RunCat
    <3>2. CASE Operand(s) # None /\ Operand(s) \in DOMAIN files
      BY <1>2, <3>2 DEF RunCat
    <3>3. CASE Operand(s) # None /\ Operand(s) \notin DOMAIN files
      BY <1>2, <3>3 DEF RunCat
    <3> QED BY <3>1, <3>2, <3>3
  <2>3. r \in Results
    <3>1. Top(s).stdin \in Texts
      BY <1>0, <2>1, CmdTop
    <3>2. 0 \in 0..255 /\ 1 \in 0..255
      OBVIOUS
    <3>3. Operand(s) \in DOMAIN files => files[Operand(s)] \in Texts
      BY <1>0 DEF FilesOK
    <3>4. Failure(1) \in Results
      BY <3>2, ResultFacts
    <3>5. \A text \in Texts : Result(text, 0) \in Results
      BY <3>2, ResultFacts
    <3> QED BY <2>2, <3>1, <3>3, <3>4, <3>5
  <2>4. UNCHANGED files /\ UNCHANGED <<mode, depth, notes, status, started, log, cache, told>>
    BY <1>2 DEF RunCat, Quiet
  <2>5. Locals' /\ Shared'
    BY <1>0, <2>1, <2>2, <2>3, <2>4, Settles
  <2> QED BY <1>0, <2>4, <2>5 DEF Rest, FilesOK
<1>3. CASE RunRm(s)
  <2>1. stack[s] # <<>> /\ Top(s).kind = "cmd" /\ Top(s).at = "start"
    BY <1>3, RunsTop DEF RunRm
  <2>2. PICK r : r \in {Nothing, Failure(1)} /\ Settle(s, r)
    BY <1>3 DEF RunRm
  <2>3. r \in Results
    BY <2>2, PlainResults
  <2>4. files' = Without(files, Operand(s))
        /\ UNCHANGED <<mode, depth, notes, status, started, log, cache, told>>
    BY <1>3 DEF RunRm, Quiet
  <2>5. Locals' /\ Shared'
    BY <1>0, <2>1, <2>2, <2>3, <2>4, Settles
  <2>6. FilesOK'
    BY <1>0, <2>4 DEF FilesOK, Without
  <2> QED BY <2>5, <2>6 DEF Rest
<1> QED BY <1>1, <1>2, <1>3

\* A download notes a sample for its own record.
LEMMA FetchKeeps ==
    ASSUME Rest, NEW s \in Shells, RunFetch(s)
    PROVE  Rest'
<1>0. Locals /\ Shared /\ FilesOK
  BY DEF Rest
<1>1. PICK written \in BOOLEAN, saved \in BOOLEAN :
        /\ Runs(s, "fetch")
        /\ IF written
           THEN /\ files' = IF Operand(s) = None THEN files
                            ELSE With(files, Operand(s), <<Comment>>)
                /\ SettleNoted(s, Result(<<IF Operand(s) = None THEN Comment ELSE Noise>>, 0),
                               saved)
           ELSE /\ Operand(s) # None
                /\ Settle(s, Failure(1))
                /\ UNCHANGED <<files, notes>>
        /\ Quiet(s) /\ UNCHANGED <<cache, told>>
  BY DEF RunFetch
<1>2. stack[s] # <<>> /\ Top(s).kind = "cmd" /\ Top(s).at = "start"
  BY <1>1, RunsTop
<1>3. UNCHANGED <<mode, depth, status, started, log, cache, told>>
  BY <1>1 DEF Quiet
<1>4. <<Comment>> \in Texts /\ <<Noise>> \in Texts
  <2>1. Comment \in Lines /\ Noise \in Lines
    BY ShellAssumption
  <2> QED BY <2>1 DEF Texts
<1>5. CASE written
  <2> DEFINE r == Result(<<IF Operand(s) = None THEN Comment ELSE Noise>>, 0)
  <2>1. r \in Results
    <3>1. 0 \in 0..255 /\ <<IF Operand(s) = None THEN Comment ELSE Noise>> \in Texts
      BY <1>4
    <3> QED BY <3>1, ResultFacts
  <2>2. SettleNoted(s, r, saved)
    BY <1>1, <1>5
  <2> HIDE DEF r
  <2>3. Locals' /\ Shared'
    BY <1>0, <1>2, <1>3, <2>1, <2>2, SettlesNoted
  <2>4. FilesOK'
    <3>1. files' = files \/ files' = With(files, Operand(s), <<Comment>>)
      BY <1>1, <1>5
    <3> QED BY <1>0, <1>4, <3>1, FileFacts DEF FilesOK
  <2> QED BY <2>3, <2>4 DEF Rest
<1>6. CASE ~written
  <2>1. Settle(s, Failure(1)) /\ UNCHANGED <<files, notes>>
    BY <1>1, <1>6
  <2>2. Failure(1) \in Results
    <3>1. 1 \in 0..255
      OBVIOUS
    <3> QED BY <3>1, ResultFacts
  <2>3. UNCHANGED <<mode, depth, notes, status, started, log, cache, told>>
    BY <1>3, <2>1
  <2>4. Locals' /\ Shared'
    BY <1>0, <1>2, <2>1, <2>2, <2>3, Settles
  <2> QED BY <1>0, <2>1, <2>4 DEF Rest, FilesOK
<1> QED BY <1>5, <1>6

\* A file that would be executed is noted for the record of the command itself.
LEMMA TrapKeeps ==
    ASSUME Rest, NEW s \in Shells, RunTrap(s)
    PROVE  Rest'
<1>0. Locals /\ Shared /\ FilesOK
  BY DEF Rest
<1>1. PICK executable \in BOOLEAN :
        /\ Runs(s, "trap")
        /\ SettleNoted(s, CASE executable -> Nothing
                            [] ~executable /\ Operand(s) \in DOMAIN files -> Failure(126)
                            [] OTHER -> Failure(127), executable)
        /\ Quiet(s) /\ UNCHANGED <<files, cache, told>>
  BY DEF RunTrap
<1>2. stack[s] # <<>> /\ Top(s).kind = "cmd" /\ Top(s).at = "start"
  BY <1>1, RunsTop
<1>3. UNCHANGED <<mode, depth, status, started, log, cache, told>> /\ UNCHANGED files
  BY <1>1 DEF Quiet
<1>4. PICK r : r \in {Nothing, Failure(126), Failure(127)} /\ SettleNoted(s, r, executable)
  <2>1. CASE executable
    BY <1>1, <2>1
  <2>2. CASE ~executable /\ Operand(s) \in DOMAIN files
    BY <1>1, <2>2
  <2>3. CASE ~executable /\ Operand(s) \notin DOMAIN files
    BY <1>1, <2>3
  <2> QED BY <2>1, <2>2, <2>3
<1>5. r \in Results
  BY <1>4, PlainResults
<1>6. Locals' /\ Shared'
  BY <1>0, <1>2, <1>3, <1>4, <1>5, SettlesNoted
<1> QED BY <1>0, <1>3, <1>6 DEF Rest, FilesOK

\* sh -c
LEMMA RunLineKeeps ==
    ASSUME Rest, NEW s \in Shells, RunLine(s)
    PROVE  Rest'
<1> DEFINE t == Top(s)
           f == [t EXCEPT !.at = "inner"]
           g == LineFrame(Operand(s))
<1>0. Locals /\ Shared /\ FilesOK
  BY DEF Rest
<1>1. stack[s] # <<>> /\ t.kind = "cmd" /\ t.at = "start" /\ t.cmd.do = "line"
  BY RunsTop DEF RunLine
<1>2. /\ stack' = [stack EXCEPT ![s] = Below(s) \o <<f, g>>]
      /\ UNCHANGED files /\ UNCHANGED depth
      /\ UNCHANGED <<mode, notes, status, started, log, cache, told>>
  BY DEF RunLine, Call, Quiet
<1>3. t \in CommandFrames /\ Operand(s) \in Lines
  BY <1>0, <1>1, CmdTop, StageFacts DEF Operand
<1>4. g \in LineFrames /\ g.kind = "line" /\ g.rest = LineOf[g.line]
  BY <1>3, NewFrames
<1>5. log[s].last.end = "go"
  BY <1>0, <1>1, StillGoing
<1>6. depth[s] \in Nat /\ depth' = [depth EXCEPT ![s] = depth[s]]
  BY <1>0, <1>2, Mine, Stays
<1> HIDE DEF t, g
<1>7. f \in CommandFrames /\ f.kind = "cmd" /\ f.at = "inner" /\ f.id = t.id /\ f.kept = t.kept
  BY <1>3 DEF CommandFrames, Places
<1> HIDE DEF f
<1>8. f \in Frames /\ g \in Frames /\ Alike(t, f) /\ f.kind \in Callers(g.kind)
  BY <1>1, <1>4, <1>7 DEF Frames, Alike, Callers
<1>9. g.kind # "cmd" /\ (g.kind = "line" /\ depth[s] = depth[s])
  BY <1>4
<1>10. Locals' /\ Shared'
  BY <1>0, <1>1, <1>2, <1>4, <1>5, <1>6, <1>7, <1>8, <1>9, Calls DEF t
<1> QED BY <1>0, <1>2, <1>10 DEF Rest, FilesOK

\* _execute_script_lines
LEMMA EnterScriptKeeps ==
    ASSUME Rest, NEW s \in Shells, stack[s] # <<>>, Top(s).kind = "cmd", Top(s).at = "start",
           NEW text \in Texts, NEW d \in Nat, EnterScript(s, text, d)
    PROVE  Rest'
<1>0. Locals /\ Shared /\ FilesOK
  BY DEF Rest
<1>1. UNCHANGED files /\ UNCHANGED <<mode, notes, status, started, log, cache, told>>
  BY DEF EnterScript, shared
<1>2. CASE d > MaxScriptDepth \/ Len(text) > MaxScriptLines
  <2>1. Settle(s, Failure(1)) /\ UNCHANGED depth
    BY <1>2 DEF EnterScript
  <2>2. Failure(1) \in Results
    <3>1. 1 \in 0..255
      OBVIOUS
    <3> QED BY <3>1, ResultFacts
  <2>3. UNCHANGED <<mode, depth, notes, status, started, log, cache, told>>
    BY <1>1, <2>1
  <2>4. Locals' /\ Shared'
    BY <1>0, <2>1, <2>2, <2>3, Settles
  <2> QED BY <1>0, <1>1, <2>4 DEF Rest, FilesOK
<1>3. CASE ~(d > MaxScriptDepth \/ Len(text) > MaxScriptLines)
  <2> DEFINE t == Top(s)
             f == [t EXCEPT !.at = "inner"]
             g == ScriptFrame(text, d, depth[s])
  <2>1. /\ stack' = [stack EXCEPT ![s] = Below(s) \o <<f, g>>]
        /\ depth' = [depth EXCEPT ![s] = d]
    BY <1>3 DEF EnterScript, Call
  <2>2. d <= MaxScriptDepth
    <3>1. MaxScriptDepth \in Nat
      BY ShellAssumption
    <3> QED BY <1>3, <3>1
  <2>3. t \in CommandFrames /\ t.kind = "cmd" /\ t.at = "start" /\ depth[s] \in Nat
    BY <1>0, CmdTop, Mine
  <2>4. g \in ScriptFrames /\ g.kind = "script" /\ g.depth = d /\ g.saved = depth[s]
    BY <2>3, NewFrames
  <2>5. log[s].last.end = "go"
    BY <1>0, StillGoing
  <2> HIDE DEF t, g
  <2>6. /\ f \in CommandFrames /\ f.kind = "cmd" /\ f.at = "inner" /\ f.id = t.id
        /\ f.kept = t.kept
    BY <2>3 DEF CommandFrames, Places
  <2> HIDE DEF f
  <2>7. f \in Frames /\ g \in Frames /\ Alike(t, f) /\ f.kind \in Callers(g.kind)
    BY <2>3, <2>4, <2>6 DEF Frames, Alike, Callers
  <2>8. g.kind # "cmd" /\ g.kind # "line"
    BY <2>4
  <2>9. Locals' /\ Shared'
    BY <1>0, <1>1, <2>1, <2>2, <2>3, <2>4, <2>5, <2>6, <2>7, <2>8, Calls DEF t
  <2> QED BY <1>0, <1>1, <2>9 DEF Rest, FilesOK
<1> QED BY <1>2, <1>3

\* sh with a file, and without one.
LEMMA ScriptKeeps ==
    ASSUME Rest, NEW s \in Shells, RunScript(s) \/ RunStdin(s)
    PROVE  Rest'
<1>0. Locals /\ Shared /\ FilesOK
  BY DEF Rest
<1>1. stack[s] # <<>> /\ Top(s).kind = "cmd" /\ Top(s).at = "start"
  BY RunsTop DEF RunScript, RunStdin
<1>2. Top(s).stdin \in Texts /\ depth[s] \in Nat /\ depth[s] + 1 \in Nat
  <2>1. Top(s).stdin \in Texts /\ depth[s] \in Nat
    BY <1>0, <1>1, CmdTop, Mine
  <2> QED BY <2>1
<1>3. \/ \E text \in Texts, d \in Nat : EnterScript(s, text, d)
      \/ \E r \in {Nothing, Failure(126), Failure(127)} :
            Settle(s, r) /\ Quiet(s) /\ UNCHANGED <<files, cache, told, notes>>
  <2>1. CASE RunStdin(s)
    <3>1. CASE Top(s).stdin = <<>>
      BY <2>1, <3>1 DEF RunStdin
    <3>2. CASE Top(s).stdin # <<>>
      BY <1>2, <2>1, <3>2 DEF RunStdin
    <3> QED BY <3>1, <3>2
  <2>2. CASE RunScript(s)
    <3>1. CASE Operand(s) \notin DOMAIN files
      BY <2>2, <3>1 DEF RunScript
    <3>2. CASE Operand(s) \in DOMAIN files /\ IsBinary(files[Operand(s)])
      BY <2>2, <3>2 DEF RunScript
    <3>3. CASE Operand(s) \in DOMAIN files /\ ~IsBinary(files[Operand(s)])
      <4>1. files[Operand(s)] \in Texts
        BY <1>0, <3>3 DEF FilesOK
      <4>2. EnterScript(s, files[Operand(s)], depth[s] + 1)
        BY <2>2, <3>3 DEF RunScript
      <4> QED BY <1>2, <4>1, <4>2
    <3> QED BY <3>1, <3>2, <3>3
  <2> QED BY <2>1, <2>2
<1>4. CASE \E text \in Texts, d \in Nat : EnterScript(s, text, d)
  BY <1>1, <1>4, EnterScriptKeeps
<1>5. CASE \E r \in {Nothing, Failure(126), Failure(127)} :
             Settle(s, r) /\ Quiet(s) /\ UNCHANGED <<files, cache, told, notes>>
  <2>1. PICK r \in {Nothing, Failure(126), Failure(127)} :
           Settle(s, r) /\ Quiet(s) /\ UNCHANGED <<files, cache, told, notes>>
    BY <1>5
  <2>2. r \in Results
    BY PlainResults
  <2>3. UNCHANGED files /\ UNCHANGED <<mode, depth, notes, status, started, log, cache, told>>
    BY <2>1 DEF Quiet
  <2>4. Locals' /\ Shared'
    BY <1>0, <1>1, <2>1, <2>2, <2>3, Settles
  <2> QED BY <1>0, <2>3, <2>4 DEF Rest, FilesOK
<1> QED BY <1>3, <1>4, <1>5

-----------------------------------------------------------------------------
(***************************************************************************)
(* The provider and the stream.                                            *)
(***************************************************************************)

\* What is shown of a simulation.
LEMMA ShowFacts ==
    ASSUME NEW sim \in Simulations
    PROVE  Show(sim) \in Results
<1>1. sim.code \in 0..255
  BY DEF Simulations
<1>2. <<Noise>> \in Texts
  <2>1. Noise \in Lines
    BY ShellAssumption
  <2> QED BY <2>1 DEF Texts
<1> QED BY <1>1, <1>2, ResultFacts DEF Show

\* A request is one of those that are dispatched with its line.
LEMMA AskingFacts ==
    ASSUME NEW c \in Cmds, c.do = "request"
    PROVE  c.arg \in Dispatched(DispatchLine(c))
<1>1. PICK g \in Stages : c = g.cmd
  BY DEF Cmds
<1>2. PICK l \in Lines : \E i \in DOMAIN LineOf[l] : g = LineOf[l][i]
  BY DEF Stages
<1>3. c \in Asking
  BY <1>1, <1>2 DEF Asking
<1> QED BY <1>3 DEF Dispatched

\* A request is answered from the cache or asked for, and never asked for if it
\* is in the cache.
LEMMA RequestKeeps ==
    ASSUME Rest, NEW s \in Shells, RunRequest(s)
    PROVE  Rest'
<1> DEFINE q == Operand(s)
           key == CacheKey(s)
           t == Top(s)
<1>0. Locals /\ Shared /\ FilesOK
  BY DEF Rest
<1>1. stack[s] # <<>> /\ t.kind = "cmd" /\ t.at = "start" /\ t.cmd.do = "request"
  BY RunsTop DEF RunRequest
<1>2. t \in CommandFrames /\ ~t.kept /\ t.cmd \in Cmds
  BY <1>0, <1>1, CmdTop
<1>3. /\ q \in Requests /\ q = t.cmd.arg /\ key = <<DispatchLine(t.cmd), t.stdin>>
      /\ key[1] = DispatchLine(t.cmd) /\ q \in Dispatched(DispatchLine(t.cmd))
  BY <1>1, <1>2, StageFacts, AskingFacts DEF Operand, CacheKey
<1>4. UNCHANGED files /\ UNCHANGED <<mode, depth, notes, status, started, log, cache, told>>
  BY DEF RunRequest, Quiet
<1>5. \/ \E sim \in Simulations : Settle(s, Show(sim))
      \/ /\ Become(s, [t EXCEPT !.at = "asking"])
         /\ Cacheable(q) => key \notin DOMAIN cache
  <2>1. CASE q \in Unsafe
    <3>1. Settle(s, Show(Usage(q)))
      BY <2>1 DEF RunRequest
    <3>2. Usage(q) \in Simulations
      BY <1>3, SimulationFacts
    <3> QED BY <3>1, <3>2
  <2>2. CASE q \notin Unsafe /\ Cacheable(q) /\ key \in DOMAIN cache
    <3>1. Settle(s, Show(FromJson(cache[key], q)))
      BY <2>2 DEF RunRequest
    <3>2. q \in Dispatched(key[1])
      BY <1>3
    <3> HIDE DEF q, key
    <3>3. PICK u \in Shells : <<key, FromJson(cache[key], q)>> \in told[u]
      BY <1>0, <2>2, <3>2 DEF Shared
    <3>4. <<key, FromJson(cache[key], q)>>[2] \in Simulations
      BY <1>0, <3>3 DEF Shared
    <3>5. FromJson(cache[key], q) \in Simulations
      BY <3>4
    <3> QED BY <3>1, <3>5
  <2>3. CASE q \notin Unsafe /\ ~(Cacheable(q) /\ key \in DOMAIN cache)
    <3>1. Become(s, [t EXCEPT !.at = "asking"])
      BY <2>3 DEF RunRequest
    <3> QED BY <2>3, <3>1
  <2> QED BY <2>1, <2>2, <2>3
<1>6. CASE \E sim \in Simulations : Settle(s, Show(sim))
  <2>1. PICK sim \in Simulations : Settle(s, Show(sim))
    BY <1>6
  <2>2. Show(sim) \in Results
    BY ShowFacts
  <2>3. Locals' /\ Shared'
    BY <1>0, <1>1, <1>4, <2>1, <2>2, Settles
  <2> QED BY <1>0, <1>4, <2>3 DEF Rest, FilesOK
<1>7. CASE /\ Become(s, [t EXCEPT !.at = "asking"])
           /\ Cacheable(q) => key \notin DOMAIN cache
  <2> DEFINE f == [t EXCEPT !.at = "asking"]
  <2>1. Become(s, f) /\ (Cacheable(q) => key \notin DOMAIN cache)
    BY <1>7
  <2> HIDE DEF t, q, key
  <2>2. /\ f \in CommandFrames /\ f.at = "asking" /\ f.id = t.id /\ ~f.kept
        /\ f.cmd = t.cmd /\ f.stdin = t.stdin
    BY <1>2 DEF CommandFrames, Places
  <2> HIDE DEF f
  <2>3. /\ f.cmd.arg \in Requests /\ f.cmd.arg \in Dispatched(DispatchLine(f.cmd))
        /\ Cacheable(f.cmd.arg) => <<DispatchLine(f.cmd), f.stdin>> \notin DOMAIN cache
    BY <1>3, <2>1, <2>2
  <2>4. f.at \in {"asking", "stream", "finish"} /\ t.at \in {"start", "asking", "stream"}
    BY <1>1, <2>2
  <2>5. Locals' /\ Shared'
    BY <1>0, <1>1, <1>4, <2>1, <2>2, <2>3, <2>4, GoesOn DEF t
  <2> QED BY <1>0, <1>4, <2>5 DEF Rest, FilesOK
<1> QED BY <1>5, <1>6, <1>7

\* An answer is shown, told and kept for the next shell that asks.
LEMMA AnsweredKeeps ==
    ASSUME Rest, NEW s \in Shells, NEW sim \in Simulations, sim.of = Operand(s), Answered(s, sim)
    PROVE  Rest'
<1> DEFINE q == Operand(s)
           key == CacheKey(s)
           f == Receive(Top(s), Show(sim))
           k2 == Append(Front(stack[s]), f)
<1>0. Locals /\ Shared /\ FilesOK /\ ShellTypes
  BY DEF Rest, Locals
<1>1. stack[s] # <<>> /\ Top(s).kind = "cmd" /\ Top(s).at = "asking"
  BY DEF Answered, InCommand
<1>2. /\ Become(s, f) /\ UNCHANGED files
      /\ UNCHANGED <<mode, depth, notes, status, started, log>>
      /\ cache' = IF Cacheable(q) THEN With(cache, key, ToJson(sim)) ELSE cache
      /\ told' = [told EXCEPT ![s] = told[s] \cup {<<key, sim>>}]
  BY DEF Answered, Settle, Quiet
<1>3. Top(s) \in CommandFrames /\ ~Top(s).kept /\ Below(s) = Front(stack[s])
  BY <1>0, <1>1, CmdTop
<1>4. q \in Dispatched(key[1]) /\ sim.of = q
  <2>1. Asks(stack[s]) /\ KeyOf(stack[s]) = key /\ ArgOf(stack[s]) = q
    BY <1>1 DEF Asks, KeyOf, ArgOf, CacheKey, Operand, Top
  <2> QED BY <1>0, <2>1 DEF Shared, AsksWell
<1>5. f \in CommandFrames /\ f.at = "finish" /\ f.id = Top(s).id /\ ~f.kept
  BY <1>3, ShowFacts, CmdReceives
<1>6. stack' = [stack EXCEPT ![s] = k2]
  BY <1>2, <1>3 DEF Become
<1> HIDE DEF f
<1>7. Locals'
  <2>1. Note(s, FALSE)
    BY <1>0, <1>2 DEF Note, ShellTypes
  <2>2. f.at \in {"asking", "stream", "finish"} /\ Top(s).at \in {"start", "asking", "stream"}
    BY <1>1, <1>5
  <2>3. UNCHANGED <<mode, depth, status, started, log>> /\ FALSE \in BOOLEAN
    BY <1>2
  <2> QED BY <1>0, <1>1, <1>2, <1>5, <2>1, <2>2, <2>3, Goes
<1>8. k2[Len(k2)] = f
  <2>1. f \in Frames
    BY <1>5 DEF Frames
  <2> QED BY <1>0, <1>1, <2>1, Mine, Replacing
<1> HIDE DEF k2, key, q
<1>9. ~Asks(k2)
  BY <1>5, <1>8 DEF Asks
<1>10. /\ told'[s] = told[s] \cup {<<key, sim>>}
       /\ \A u \in Shells \ {s} : told'[u] = told[u]
       /\ told' = [u \in Shells |-> told'[u]]
  <2>1. told = [u \in Shells |-> told[u]]
    BY <1>0 DEF Shared
  <2> QED BY <1>2, <2>1
<1>11. /\ \A x \in DOMAIN cache : x \in DOMAIN cache'
       /\ Cacheable(q) => key \in DOMAIN cache' /\ cache'[key] = ToJson(sim)
       /\ \A x \in DOMAIN cache' : (Cacheable(q) /\ x = key)
                                   \/ (x \in DOMAIN cache /\ cache'[x] = cache[x])
  BY <1>2 DEF With
<1>12. ASSUME NEW u \in Shells, NEW answer \in told'[u]
       PROVE  /\ answer[2] \in Simulations /\ answer[2].of \in Dispatched(answer[1][1])
              /\ Cacheable(answer[2].of) => answer[1] \in DOMAIN cache'
  <2>1. answer \in told[u] \/ answer = <<key, sim>>
    BY <1>10, <1>12
  <2>2. CASE answer \in told[u]
    BY <1>0, <1>11, <2>2 DEF Shared
  <2>3. CASE answer = <<key, sim>>
    <3>1. answer[1] = key /\ answer[2] = sim
      BY <2>3
    <3> QED BY <1>4, <1>11, <3>1
  <2> QED BY <2>1, <2>2, <2>3
<1>13. ASSUME NEW x \in DOMAIN cache', NEW p \in Dispatched(x[1])
       PROVE  \E u \in Shells : <<x, FromJson(cache'[x], p)>> \in told'[u]
  <2>1. CASE Cacheable(q) /\ x = key
    <3>1. FromJson(cache'[x], p) = sim
      BY <1>11, <2>1, SimulationFacts
    <3> QED BY <1>10, <2>1, <3>1
  <2>2. CASE x \in DOMAIN cache /\ cache'[x] = cache[x]
    <3>1. PICK u \in Shells : <<x, FromJson(cache[x], p)>> \in told[u]
      BY <1>0, <2>2 DEF Shared
    <3>2. told[u] \subseteq told'[u]
      BY <1>10
    <3> QED BY <2>2, <3>1, <3>2
  <2> QED BY <1>11, <2>1, <2>2
<1>14. stack'[s] = k2 /\ \A u \in Shells \ {s} : stack'[u] = stack[u]
  BY <1>0, <1>6 DEF ShellTypes
<1>15. AskedOnce'
  <2>1. ASSUME NEW u \in Shells, Asks(stack'[u]), Cacheable(ArgOf(stack'[u]))
        PROVE  \A answer \in told'[u] :
                  Cacheable(answer[2].of) => answer[1] # KeyOf(stack'[u])
    <3>1. u # s
      BY <1>9, <1>14, <2>1
    <3>2. stack'[u] = stack[u] /\ told'[u] = told[u]
      BY <1>10, <1>14, <3>1
    <3>3. AskedOnce
      BY <1>0 DEF Shared
    <3> QED BY <2>1, <3>2, <3>3, AskedOnceOf
  <2>2. AskedOnce' <=> \A u \in Shells :
          Asks(stack'[u]) /\ Cacheable(ArgOf(stack'[u]))
              => \A answer \in told'[u] :
                    Cacheable(answer[2].of) => answer[1] # KeyOf(stack'[u])
    BY DEF AskedOnce, InCommand, Top, Asks, KeyOf, ArgOf, Operand, CacheKey
  <2> QED BY <2>1, <2>2
<1>16. (\A u \in Shells : Asks(stack[u]) => AsksWell(stack[u]))'
  BY <1>0, <1>9, <1>14 DEF Shared
<1>17. Shared'
  BY <1>10, <1>12, <1>13, <1>15, <1>16 DEF Shared
<1> QED BY <1>0, <1>2, <1>7, <1>17 DEF Rest, FilesOK

\* What comes of a request: an answer, a usage error in its place, an error.
LEMMA RepliesKeep ==
    ASSUME Rest, NEW s \in Shells, Replied(s) \/ NotReplied(s) \/ NoChoices(s)
    PROVE  Rest'
<1>0. Locals /\ Shared /\ FilesOK
  BY DEF Rest
<1>1. stack[s] # <<>> /\ Top(s).kind = "cmd" /\ Top(s).at = "asking"
  BY DEF Replied, NotReplied, NoChoices, InCommand
<1>2. Operand(s) \in Requests
  <2>1. Asks(stack[s]) /\ ArgOf(stack[s]) = Operand(s)
    BY <1>1 DEF Asks, ArgOf, Operand, Top
  <2> QED BY <1>0, <2>1 DEF Shared, AsksWell
<1>3. CASE Replied(s)
  <2>1. PICK r \in Replies(Codes) : Answered(s, Answer(r, Operand(s)))
    BY <1>3 DEF Replied
  <2>2. r.text \in {"plain", "chatty"}
    BY DEF Replies
  <2>3. Answer(r, Operand(s)) \in Simulations /\ Answer(r, Operand(s)).of = Operand(s)
    BY <1>2, <2>2, SimulationFacts
  <2> QED BY <2>1, <2>3, AnsweredKeeps
<1>4. CASE NotReplied(s)
  <2>1. Usage(Operand(s)) \in Simulations /\ Usage(Operand(s)).of = Operand(s)
    BY <1>2, SimulationFacts
  <2> QED BY <1>4, <2>1, AnsweredKeeps DEF NotReplied
<1>5. CASE NoChoices(s)
  <2>1. Settle(s, Raised) /\ UNCHANGED files
        /\ UNCHANGED <<mode, depth, notes, status, started, log, cache, told>>
    BY <1>5 DEF NoChoices, Quiet
  <2>2. Locals' /\ Shared'
    BY <1>0, <1>1, <2>1, ResultFacts, Settles
  <2> QED BY <1>0, <2>1, <2>2 DEF Rest, FilesOK
<1> QED BY <1>3, <1>4, <1>5

\* A round of the stream.
LEMMA RoundKeeps ==
    ASSUME Rest, NEW s \in Shells, stack[s] # <<>>, Top(s).kind = "cmd",
           Top(s).at \in {"start", "stream"}, NEW chunk \in Results, StreamRound(s, chunk),
           Quiet(s), UNCHANGED <<cache, told, notes>>
    PROVE  Rest'
<1> DEFINE t == Top(s)
           f == [t EXCEPT !.at = "stream", !.last = chunk]
<1>0. Locals /\ Shared /\ FilesOK
  BY DEF Rest
<1>1. /\ Become(s, f) /\ files' = With(files, t.cmd.to, chunk.out)
      /\ UNCHANGED <<mode, depth, notes, status, started, log, cache, told>>
  BY DEF StreamRound, Quiet
<1>2. t \in CommandFrames /\ ~t.kept
  BY <1>0, CmdTop
<1>3. chunk.out \in Texts
  BY ResultFacts
<1> HIDE DEF t
<1>4. f \in CommandFrames /\ f.at = "stream" /\ f.id = t.id /\ ~f.kept
  BY <1>2 DEF CommandFrames, Places
<1> HIDE DEF f
<1>5. f.at \in {"asking", "stream", "finish"} /\ t.at \in {"start", "asking", "stream"}
      /\ f.at # "asking"
  BY <1>4 DEF t
<1>6. Locals' /\ Shared'
  BY <1>0, <1>1, <1>4, <1>5, GoesOn DEF t
<1>7. FilesOK'
  BY <1>0, <1>1, <1>3, FileFacts DEF FilesOK
<1> QED BY <1>6, <1>7 DEF Rest

\* _stream_infinite_redirect
LEMMA StreamKeeps ==
    ASSUME Rest, NEW s \in Shells, RunEndless(s) \/ StreamChunk(s) \/ StreamOver(s)
    PROVE  Rest'
<1>0. Locals /\ Shared /\ FilesOK
  BY DEF Rest
<1>1. stack[s] # <<>> /\ Top(s).kind = "cmd" /\ Top(s).at \in {"start", "stream"}
  BY RunsTop DEF RunEndless, StreamChunk, StreamOver, InCommand
<1>2. Quiet(s) /\ UNCHANGED <<cache, told, notes>>
  BY DEF RunEndless, StreamChunk, StreamOver
<1>3. \/ \E chunk \in Results : StreamRound(s, chunk)
      \/ \E r \in {Failure(1), Raised} : Settle(s, r) /\ UNCHANGED files
  <2>1. CASE RunEndless(s)
    <3>1. CASE Device \in DOMAIN files
      <4>1. Result(files[Device], 0) \in Results
        <5>1. files[Device] \in Texts /\ 0 \in 0..255
          BY <1>0, <3>1 DEF FilesOK
        <5> QED BY <5>1, ResultFacts
      <4>2. \/ StreamRound(s, Result(files[Device], 0))
            \/ Settle(s, Failure(1)) /\ UNCHANGED files
        BY <2>1, <3>1 DEF RunEndless
      <4> QED BY <4>1, <4>2
    <3>2. CASE Device \notin DOMAIN files
      BY <2>1, <3>2 DEF RunEndless
    <3> QED BY <3>1, <3>2
  <2>2. CASE StreamChunk(s)
    <3>1. Top(s).last \in Results
      BY <1>0, <1>1, CmdTop
    <3> QED BY <2>2, <3>1 DEF StreamChunk
  <2>3. CASE StreamOver(s)
    BY <2>3 DEF StreamOver
  <2> QED BY <2>1, <2>2, <2>3
<1>4. CASE \E chunk \in Results : StreamRound(s, chunk)
  BY <1>1, <1>2, <1>4, RoundKeeps
<1>5. CASE \E r \in {Failure(1), Raised} : Settle(s, r) /\ UNCHANGED files
  <2>1. PICK r \in {Failure(1), Raised} : Settle(s, r) /\ UNCHANGED files
    BY <1>5
  <2>2. r \in Results
    BY PlainResults
  <2>3. UNCHANGED <<mode, depth, notes, status, started, log, cache, told>>
    BY <1>2 DEF Quiet
  <2>4. Top(s).at \in {"start", "asking", "stream"}
    BY <1>1
  <2>5. Locals' /\ Shared'
    BY <1>0, <1>1, <2>1, <2>2, <2>3, <2>4, Settles
  <2> QED BY <1>0, <2>1, <2>5 DEF Rest, FilesOK
<1> QED BY <1>3, <1>4, <1>5

-----------------------------------------------------------------------------
(***************************************************************************)
(* The end of a command.                                                   *)
(***************************************************************************)

\* A command is recorded, with all that was noted.
LEMMA SubmitKeeps ==
    ASSUME Rest, NEW s \in Shells, InCommand(s, "finish"), NEW r \in Results,
           NEW saved \in BOOLEAN, Note(s, saved), Submit(s, r, saved, notes'[s])
    PROVE  Locals' /\ Shared'
<1> DEFINE t == Top(s)
           k == stack[s]
           f == [t EXCEPT !.last = r, !.at = "record", !.kept = @ \/ saved]
           k2 == Append(Front(k), f)
           ns2 == IF saved THEN notes[s] \cup {t.id} ELSE notes[s]
           lg == log[s]
           lg2 == [ids |-> lg.ids \cup {t.id},
                   last |-> [id |-> t.id, notes |-> ns2, end |-> r.end]]
<1>0. Locals /\ Shared /\ ShellTypes
  BY DEF Rest, Locals
<1>1. stack[s] # <<>> /\ t.kind = "cmd" /\ t.at = "finish"
  BY DEF InCommand
<1>2. /\ SInv(k, depth[s], notes[s], status[s], mode[s], started[s], lg)
      /\ k \in Seq(Frames) /\ depth[s] \in Nat /\ notes[s] \in SUBSET Nat
      /\ status[s] \in 0..255 /\ mode[s] \in {"prompt", "command", "closed"}
      /\ started[s] \in Nat /\ lg \in Logs
  BY <1>0, Mine
<1>3. /\ CmdAt(k, Len(k)) /\ t = k[Len(k)] /\ Below(s) = Front(k) /\ t \in CommandFrames
      /\ t.id \in Nat /\ t.kept \in BOOLEAN
  BY <1>0, <1>1, CmdTop
<1>4. notes' = [notes EXCEPT ![s] = ns2]
  BY DEF Note
<1>5. notes'[s] = ns2
  BY <1>0, <1>4 DEF ShellTypes
<1>6. /\ Become(s, f) /\ log' = [log EXCEPT ![s] = lg2]
      /\ UNCHANGED <<cache, mode, depth, status, started, told>>
  BY <1>5 DEF Submit
<1>7. stack' = [stack EXCEPT ![s] = k2]
  BY <1>3, <1>6 DEF Become
<1>8. KeptOK(k, notes[s], lg)
  BY <1>2 DEF SInv
<1>9. /\ ns2 \in SUBSET Nat /\ (ns2 = notes[s] \/ ns2 = notes[s] \cup {t.id})
      /\ t.kept \/ saved => t.id \in ns2
  <2>1. t.kept => t.id \in notes[s]
    BY <1>1, <1>3, <1>8 DEF KeptOK
  <2> HIDE DEF t
  <2> QED BY <1>2, <1>3, <2>1
<1>10. r.end \in {"go", "exit", "raise"}
  BY ResultFacts
<1> HIDE DEF t, ns2, lg, k
<1>11. /\ f \in CommandFrames /\ f.id = t.id /\ f.at = "record" /\ f.last = r
       /\ f.kept <=> t.kept \/ saved
  <2>1. t.kept \/ saved \in BOOLEAN
    BY <1>3
  <2> QED BY <1>3, <2>1 DEF CommandFrames, Places
<1>12. /\ lg2 \in Logs /\ lg2.ids = lg.ids \cup {t.id} /\ lg2.last.notes = ns2
       /\ lg2.last.id = t.id /\ lg2.last.end = r.end
  BY <1>2, <1>3, <1>9, <1>10 DEF Logs
<1> HIDE DEF f, lg2
<1>13. SInv(k2, depth[s], ns2, status[s], mode[s], started[s], lg2)
  <2>1. /\ f.id = k[Len(k)].id /\ (ns2 = notes[s] \/ ns2 = notes[s] \cup {f.id})
        /\ (f.kept => f.id \in ns2) /\ lg2.ids = lg.ids \cup {f.id}
        /\ lg2.last.id = f.id /\ lg2.last.end = f.last.end
    BY <1>3, <1>9, <1>11, <1>12
  <2> QED BY <1>1, <1>2, <1>3, <1>11, <1>12, <2>1, Submitted, SMTT(30)
<1>14. k2[Len(k2)] = f
  <2>1. f \in Frames /\ k # <<>>
    BY <1>1, <1>11 DEF Frames, k
  <2> QED BY <1>2, <2>1, Replacing
<1> HIDE DEF k2
<1>15. Moves(s, k2, depth[s], ns2, status[s], mode[s], started[s], lg2)
  BY <1>0, <1>4, <1>6, <1>7, Stays DEF Moves
<1>16. MovesWell(s)
  BY <1>2, <1>9, <1>12, <1>13, <1>15 DEF MovesWell
<1>17. Locals'
  BY <1>0, <1>16, MovedWell
<1>18. ~Asks(k2)
  BY <1>11, <1>14 DEF Asks
<1> QED BY <1>0, <1>6, <1>7, <1>17, <1>18, SharedStays

\* The redirect and the finally block: what was noted goes into the record.
LEMMA FinishKeeps ==
    ASSUME Rest, NEW s \in Shells, Finish(s) \/ FinishRedirected(s)
    PROVE  Rest'
<1> DEFINE t == Top(s)
<1>0. Locals /\ FilesOK /\ ShellTypes
  BY DEF Rest, Locals
<1>1. InCommand(s, "finish")
  BY DEF Finish, FinishRedirected
<1>2. t.last \in Results /\ t.last.out \in Texts
  <2>1. t.last \in Results
    BY <1>0, <1>1, CmdTop DEF InCommand
  <2> QED BY <2>1, ResultFacts
<1>3. CASE Finish(s)
  <2>1. Submit(s, t.last, FALSE, notes[s]) /\ UNCHANGED <<files, notes>>
    BY <1>3 DEF Finish
  <2>2. Note(s, FALSE) /\ notes'[s] = notes[s]
    BY <1>0, <2>1 DEF Note, ShellTypes
  <2>3. Submit(s, t.last, FALSE, notes'[s])
    BY <2>1, <2>2
  <2>4. Locals' /\ Shared'
    BY <1>1, <1>2, <2>2, <2>3, SubmitKeeps
  <2> QED BY <1>0, <2>1, <2>4 DEF Rest, FilesOK
<1>4. CASE FinishRedirected(s)
  <2>1. PICK written \in BOOLEAN, saved \in BOOLEAN :
          /\ files' = IF written THEN Overwritten(t.cmd, t.last.out) ELSE files
          /\ Note(s, written /\ saved)
          /\ Submit(s, IF written THEN [t.last EXCEPT !.out = <<>>] ELSE Failure(1),
                    written /\ saved, notes'[s])
    BY <1>4 DEF FinishRedirected
  <2> DEFINE r == IF written THEN [t.last EXCEPT !.out = <<>>] ELSE Failure(1)
             kept == written /\ saved
  <2>2. r \in Results
    <3>1. 1 \in 0..255
      OBVIOUS
    <3>2. Failure(1) \in Results
      BY <3>1, ResultFacts
    <3>3. <<>> \in Texts
      BY DEF Texts
    <3>4. [t.last EXCEPT !.out = <<>>] \in Results
      BY <1>2, <3>3, ResultFacts
    <3> QED BY <3>2, <3>4
  <2>3. kept \in BOOLEAN /\ Note(s, kept) /\ Submit(s, r, kept, notes'[s])
    BY <2>1
  <2> HIDE DEF r, kept
  <2>4. Locals' /\ Shared'
    BY <1>1, <2>2, <2>3, SubmitKeeps
  <2>5. FilesOK'
    <3> DEFINE c == t.cmd
               text == t.last.out
               new == IF c.more /\ c.to \in DOMAIN files THEN files[c.to] \o text ELSE text
    <3>1. text \in Texts
      BY <1>2
    <3> HIDE DEF text
    <3>2. c.to \in DOMAIN files => files[c.to] \o text \in Texts
      BY <1>0, <3>1, TextsJoin DEF FilesOK
    <3>3. new \in Texts
      BY <3>1, <3>2
    <3>4. files' = files \/ files' = With(files, c.to, new)
      BY <2>1 DEF Overwritten, text
    <3> HIDE DEF new
    <3> QED BY <1>0, <3>3, <3>4, FileFacts DEF FilesOK
  <2> QED BY <2>4, <2>5 DEF Rest
<1> QED BY <1>3, <1>4

\* Only a command that was recorded returns, with its result.
LEMMA RecordedKeeps ==
    ASSUME Rest, NEW s \in Shells, Recorded(s)
    PROVE  Rest'
<1> DEFINE t == Top(s)
           r == t.last
           st2 == IF r.end = "raise" THEN status[s] ELSE r.code
<1>0. Locals /\ Shared /\ FilesOK /\ ShellTypes
  BY DEF Rest, Locals
<1>1. /\ stack[s] # <<>> /\ t.kind = "cmd" /\ t.at = "record" /\ Return(s, r)
      /\ status' = IF r.end = "raise" THEN status ELSE [status EXCEPT ![s] = r.code]
      /\ UNCHANGED files /\ UNCHANGED depth
      /\ UNCHANGED <<mode, notes, started, log, cache, told>>
  BY DEF Recorded, InCommand, shared
<1>2. Len(stack[s]) > 1
  BY <1>0, <1>1, AnyTop
<1>3. r \in Results /\ r.end = t.last.end
  BY <1>0, <1>1, CmdTop
<1>4. depth[s] \in Nat /\ status[s] \in 0..255 /\ depth' = [depth EXCEPT ![s] = depth[s]]
  BY <1>0, <1>1, Mine, Stays
<1>5. st2 \in 0..255 /\ (r.end = "go" => st2 = r.code)
  BY <1>3, <1>4, ResultFacts
<1>6. status' = [status EXCEPT ![s] = st2]
  BY <1>0, <1>1 DEF ShellTypes
<1>7. /\ t.kind = "cmd" => t.at = "record"
      /\ depth[s] = IF t.kind = "script" THEN t.saved ELSE depth[s]
      /\ t.kind = "cmd" /\ r.end = "go" => st2 = r.code
  BY <1>1, <1>5
<1>8. Return(s, r) /\ UNCHANGED <<mode, notes, started, log, cache, told>>
  BY <1>1
<1>9. stack[s] # <<>>
  BY <1>1
<1> HIDE DEF st2, r
<1>10. Locals' /\ Shared'
  BY <1>0, <1>2, <1>3, <1>4, <1>5, <1>6, <1>7, <1>8, <1>9, Returns
<1> QED BY <1>0, <1>1, <1>10 DEF Rest, FilesOK

\* A cancelled shell unwinds whatever it was waiting for.
LEMMA CancelKeeps ==
    ASSUME Rest, NEW s \in Shells, Cancel(s)
    PROVE  Rest'
<1> DEFINE t == Top(s)
<1>0. Locals /\ Shared /\ FilesOK /\ ShellTypes
  BY DEF Rest, Locals
<1>1. UNCHANGED files /\ UNCHANGED <<mode, depth, notes, status, started, log, cache, told>>
  BY DEF Cancel, Quiet
<1>2. CASE (InCommand(s, "asking") \/ InCommand(s, "stream")) /\ Settle(s, Raised)
  <2>1. stack[s] # <<>> /\ t.kind = "cmd" /\ t.at \in {"start", "asking", "stream"}
    BY <1>2 DEF InCommand
  <2>2. Locals' /\ Shared'
    BY <1>0, <1>1, <1>2, <2>1, ResultFacts, Settles
  <2> QED BY <1>0, <1>1, <2>2 DEF Rest, FilesOK
<1>3. CASE InCommand(s, "record") /\ Become(s, [t EXCEPT !.last = Raised])
  <2> DEFINE k == stack[s]
             f == [t EXCEPT !.last = Raised]
             k2 == Append(Front(k), f)
  <2>1. k # <<>> /\ t.kind = "cmd" /\ t.at = "record"
    BY <1>3 DEF InCommand
  <2>2. /\ SInv(k, depth[s], notes[s], status[s], mode[s], started[s], log[s])
        /\ k \in Seq(Frames) /\ depth[s] \in Nat /\ notes[s] \in SUBSET Nat
        /\ status[s] \in 0..255 /\ mode[s] \in {"prompt", "command", "closed"}
        /\ started[s] \in Nat /\ log[s] \in Logs
    BY <1>0, Mine
  <2>3. CmdAt(k, Len(k)) /\ t = k[Len(k)] /\ Below(s) = Front(k) /\ t \in CommandFrames
    BY <1>0, <2>1, CmdTop
  <2>4. stack' = [stack EXCEPT ![s] = k2]
    BY <1>3, <2>3 DEF Become
  <2> HIDE DEF t
  <2>5. /\ f \in CommandFrames /\ f.id = t.id /\ f.at = "record" /\ f.kept = t.kept
        /\ f.last.end = "raise"
    BY <2>1, <2>3, PlainResults DEF CommandFrames
  <2> HIDE DEF f
  <2>6. SInv(k2, depth[s], notes[s], status[s], mode[s], started[s], log[s])
    BY <2>1, <2>2, <2>3, <2>5, RecordCancelled
  <2>7. k2[Len(k2)] = f
    <3>1. f \in Frames
      BY <2>5 DEF Frames
    <3> QED BY <2>1, <2>2, <3>1, Replacing
  <2> HIDE DEF k2
  <2>8. Moves(s, k2, depth[s], notes[s], status[s], mode[s], started[s], log[s])
    BY <1>0, <1>1, <2>4, Stays DEF Moves
  <2>9. MovesWell(s)
    BY <2>2, <2>6, <2>8 DEF MovesWell
  <2>10. Locals'
    BY <1>0, <2>9, MovedWell
  <2>11. ~Asks(k2)
    BY <2>5, <2>7 DEF Asks
  <2>12. UNCHANGED <<cache, told>>
    BY <1>1
  <2>13. Shared'
    BY <1>0, <2>4, <2>11, <2>12, SharedStays
  <2> QED BY <1>0, <1>1, <2>10, <2>13 DEF Rest, FilesOK
<1> QED BY <1>2, <1>3 DEF Cancel

-----------------------------------------------------------------------------
(***************************************************************************)
(* The invariant.                                                          *)
(***************************************************************************)
\* The fields of a shell, as the server opens it, satisfy every part of it.
LEMMA InitInv == Init => IInv
<1> SUFFICES ASSUME Init PROVE IInv
  OBVIOUS
<1>1. EmptyLog \in Logs /\ EmptyLog.ids = {} /\ EmptyLog.last.notes = {}
      /\ EmptyLog.last.end = "go"
  BY DEF EmptyLog, Logs
<1>2. typed \in 0..MaxLines
  <2>1. MaxLines \in Nat
    BY ShellAssumption
  <2> QED BY <2>1 DEF Init
<1>3. FilesOK
  BY TextAssumption DEF Init, FilesOK
<1>4. ShellTypes
  <2>1. <<>> \in Seq(Frames)
    OBVIOUS
  <2> QED BY <1>1, <2>1 DEF Init, ShellTypes
<1>5. ASSUME NEW s \in Shells PROVE Local(s)
  <2>1. stack[s] = <<>> /\ depth[s] = 0 /\ started[s] = 0 /\ log[s] = EmptyLog
    BY DEF Init
  <2>2. \A x : ~(x \in 1..0)
    OBVIOUS
  <2>3. SInv(<<>>, 0, notes[s], status[s], mode[s], 0, EmptyLog)
    BY <1>1, <2>2, AtPrompt
  <2> QED BY <2>1, <2>3 DEF Local
<1>6. Shared
  <2>1. (\A s \in Shells : told[s] = {}) /\ told = [s \in Shells |-> told[s]]
    BY DEF Init
  <2>2. \A s \in Shells : ~Asks(stack[s])
    BY DEF Init, Asks
  <2>3. \A key : key \notin DOMAIN cache
    BY DEF Init
  <2>4. AskedOnce
    BY <2>1 DEF AskedOnce
  <2> QED BY <2>1, <2>2, <2>3, <2>4 DEF Shared
<1> QED BY <1>2, <1>3, <1>4, <1>5, <1>6 DEF IInv, Locals

\* Every step of a shell keeps it.
LEMMA StepInv ==
    ASSUME Rest, NEW s \in Shells,
           Step(s) \/ EnterLine(s) \/ Hangup(s) \/ Replied(s) \/ NoChoices(s) \/ Cancel(s)
    PROVE  Rest'
<1>0. Locals /\ Shared /\ FilesOK
  BY DEF Rest
<1>1. CASE \/ LineSkip(s) \/ LineRun(s) \/ LineDone(s) \/ Prompt(s) \/ ScriptLine(s)
           \/ ScriptDone(s) \/ EnterLine(s) \/ Hangup(s)
  <2>1. Locals' /\ Shared'
    BY <1>0, <1>1, LineSkipKeeps, LineRunKeeps, LineDoneKeeps, PromptKeeps, ScriptLineKeeps,
       ScriptDoneKeeps, EnterLineKeeps, HangupKeeps
  <2>2. UNCHANGED files
    <3>1. CASE LineRun(s)
      BY <3>1 DEF LineRun, Start, shared
    <3>2. CASE EnterLine(s)
      BY <3>2 DEF EnterLine
    <3>3. CASE \/ LineSkip(s) \/ LineDone(s) \/ Prompt(s) \/ ScriptLine(s)
               \/ ScriptDone(s) \/ Hangup(s)
      BY <3>3 DEF LineSkip, LineDone, Prompt, ScriptLine, ScriptDone, Hangup, shared
    <3> QED BY <1>1, <3>1, <3>2, <3>3
  <2> QED BY <1>0, <2>1, <2>2 DEF Rest, FilesOK
<1>2. CASE RunFixed(s) \/ RunCat(s) \/ RunRm(s)
  BY <1>2, FixedCatRm
<1>3. CASE RunFetch(s)
  BY <1>3, FetchKeeps
<1>4. CASE RunTrap(s)
  BY <1>4, TrapKeeps
<1>5. CASE RunLine(s)
  BY <1>5, RunLineKeeps
<1>6. CASE RunScript(s) \/ RunStdin(s)
  BY <1>6, ScriptKeeps
<1>7. CASE RunRequest(s)
  BY <1>7, RequestKeeps
<1>8. CASE Replied(s) \/ NotReplied(s) \/ NoChoices(s)
  BY <1>8, RepliesKeep
<1>9. CASE RunEndless(s) \/ StreamChunk(s) \/ StreamOver(s)
  BY <1>9, StreamKeeps
<1>10. CASE Finish(s) \/ FinishRedirected(s)
  BY <1>10, FinishKeeps
<1>11. CASE Recorded(s)
  BY <1>11, RecordedKeeps
<1>12. CASE Cancel(s)
  BY <1>12, CancelKeeps
<1> QED BY <1>1, <1>2, <1>3, <1>4, <1>5, <1>6, <1>7, <1>8, <1>9, <1>10, <1>11, <1>12 DEF Step

\* Only a new line is counted.
LEMMA CountStays ==
    ASSUME NEW s \in Shells, typed \in 0..MaxLines,
           Step(s) \/ EnterLine(s) \/ Hangup(s) \/ Replied(s) \/ NoChoices(s) \/ Cancel(s)
    PROVE  typed' \in 0..MaxLines
<1>0. MaxLines \in Nat
  BY ShellAssumption
<1>1. CASE EnterLine(s)
  <2>1. typed < MaxLines /\ typed' = typed + 1
    BY <1>1 DEF EnterLine
  <2> QED BY <1>0, <2>1
<1>2. CASE \/ LineSkip(s) \/ LineRun(s) \/ LineDone(s) \/ Prompt(s) \/ ScriptLine(s)
           \/ ScriptDone(s) \/ Hangup(s) \/ Recorded(s)
  <2>1. typed' = typed
    BY <1>2 DEF LineSkip, LineRun, Start, LineDone, Prompt, ScriptLine, ScriptDone, Hangup,
                Recorded, shared
  <2> QED BY <2>1
<1>3. CASE \/ RunFixed(s) \/ RunCat(s) \/ RunRm(s) \/ RunFetch(s) \/ RunTrap(s) \/ RunLine(s)
           \/ RunRequest(s) \/ RunEndless(s) \/ StreamChunk(s) \/ StreamOver(s) \/ Replied(s)
           \/ NotReplied(s) \/ NoChoices(s) \/ Cancel(s)
  <2>1. Quiet(s)
    BY <1>3 DEF RunFixed, RunCat, RunRm, RunFetch, RunTrap, RunLine, RunRequest, RunEndless,
                StreamChunk, StreamOver, Replied, NotReplied, NoChoices, Cancel, Answered
  <2> QED BY <2>1 DEF Quiet
<1>4. CASE RunScript(s)
  BY <1>4 DEF RunScript, EnterScript, Quiet, shared
<1>5. CASE RunStdin(s)
  BY <1>5 DEF RunStdin, EnterScript, Quiet, shared
<1>6. CASE Finish(s) \/ FinishRedirected(s)
  BY <1>6 DEF Finish, FinishRedirected, Submit
<1> QED BY <1>1, <1>2, <1>3, <1>4, <1>5, <1>6 DEF Step

\* The invariant holds in every reachable state, for any lines, files and shells.
THEOREM Invariance == Spec => []IInv
<1>1. Init => IInv
  BY InitInv
<1>2. IInv /\ [Next]_vars => IInv'
  <2> SUFFICES ASSUME IInv, [Next]_vars PROVE IInv'
    OBVIOUS
  <2>1. CASE Next
    <3>1. PICK s \in Shells :
            Step(s) \/ EnterLine(s) \/ Hangup(s) \/ Replied(s) \/ NoChoices(s) \/ Cancel(s)
      BY <2>1 DEF Next
    <3>2. Rest /\ typed \in 0..MaxLines
      BY DEF IInv, Rest
    <3>3. Rest'
      BY <3>1, <3>2, StepInv
    <3>4. typed' \in 0..MaxLines
      BY <3>1, <3>2, CountStays
    <3> QED BY <3>3, <3>4 DEF IInv, Rest
  <2>2. CASE UNCHANGED vars
    BY <2>2 DEF vars, IInv, FilesOK, Locals, ShellTypes, Local, Shared, AskedOnce, InCommand, Top,
                Operand, CacheKey
  <2> QED BY <2>1, <2>2
<1> QED BY <1>1, <1>2, PTL DEF Spec

-----------------------------------------------------------------------------
(***************************************************************************)
(* What follows from it.                                                   *)
(***************************************************************************)
\* The types of the variables are among its parts.
LEMMA TypesFollow == IInv => TypeOK
<1> SUFFICES ASSUME IInv PROVE TypeOK
  OBVIOUS
<1>1. /\ FilesOK /\ ShellTypes /\ typed \in 0..MaxLines /\ Locals
  BY DEF IInv, Locals
<1>2. ASSUME NEW s \in Shells, NEW i \in DOMAIN stack[s]
      PROVE  /\ stack[s][i].last \in Results
             /\ i = 1 => stack[s][i].kind = "line"
             /\ i > 1 => stack[s][i - 1].kind \in Callers(stack[s][i].kind)
             /\ stack[s][i].kind = "cmd" => (stack[s][i].at = "inner" <=> i < Len(stack[s]))
  <2> DEFINE k == stack[s]
  <2>1. WellNested(k) /\ k \in Seq(Frames)
    BY <1>1, Mine DEF SInv
  <2>2. Len(k) \in Nat /\ DOMAIN k = 1..Len(k) /\ i \in 1..Len(k) /\ k[i] \in Frames
    BY <2>1, LenProperties, ElementOfSeq
  <2>3. k # <<>>
    <3>1. Len(<<>>) = 0
      OBVIOUS
    <3> QED BY <2>2, <3>1
  <2> HIDE DEF k
  <2>4. k[i].last \in Results
    BY <2>2, KindOf
  <2>5. i > 1 => i \in 2..Len(k)
    BY <2>2
  <2>6. k[i].kind = "cmd" => CmdAt(k, i)
    BY <2>2 DEF CmdAt
  <2> QED BY <2>1, <2>3, <2>4, <2>5, <2>6 DEF WellNested, k
<1>3. \A s \in Shells : started[s] \in Nat /\ notes[s] \subseteq Nat
  BY <1>1 DEF ShellTypes
<1> QED BY <1>1, <1>2, <1>3 DEF TypeOK, FilesOK, ShellTypes

\* The state is well formed: lines and scripts call commands, commands lines and
\* scripts, and no exit status ever leaves its byte.
THEOREM Typing == Spec => []TypeOK
BY Invariance, TypesFollow, PTL

\* The depth of the innermost script below a place is what Covers says it is.
LEMMA DepthIs ==
    ASSUME NEW s, stack[s] \in Seq(Frames), NEW i \in Nat, i <= Len(stack[s]) + 1,
           NEW d, Covers(stack[s], i, d)
    PROVE  DepthBelow(s, i) = d
<1> DEFINE k == stack[s]
           S == {j \in Scripts(s) : j < i}
<1>1. Len(k) \in Nat /\ DOMAIN k = 1..Len(k) /\ i <= Len(k) + 1
  BY LenProperties
<1>2. \A j : j \in S <=> j \in 1..Len(k) /\ k[j].kind = "script" /\ j < i
  BY <1>1 DEF Scripts
<1>3. DepthBelow(s, i) = IF S = {} THEN 0
                         ELSE k[CHOOSE j \in S : \A m \in S : m <= j].depth
  BY DEF DepthBelow
<1>4. Covers(k, i, d)
  OBVIOUS
<1> HIDE DEF k, S
<1> DEFINE n == Len(k)
<1>5. n \in Nat /\ i <= n + 1 /\ \A j : j \in S <=> j \in 1..n /\ k[j].kind = "script" /\ j < i
  BY <1>1, <1>2
<1> HIDE DEF n
<1>6. \A j : j \in S <=> j \in 1..i - 1 /\ k[j].kind = "script"
  BY <1>5
<1>7. CASE d = 0 /\ \A j \in 1..i - 1 : k[j].kind # "script"
  <2>1. S = {}
    BY <1>6, <1>7
  <2> QED BY <1>3, <1>7, <2>1
<1>8. ASSUME NEW j \in 1..i - 1, k[j].kind = "script", k[j].depth = d,
             \A m \in j + 1..i - 1 : k[m].kind # "script"
      PROVE  DepthBelow(s, i) = d
  <2>1. j \in S
    BY <1>6, <1>8
  <2>2. \A m \in S : m <= j
    BY <1>6, <1>8
  <2> DEFINE c == CHOOSE x \in S : \A m \in S : m <= x
  <2>3. c \in S /\ \A m \in S : m <= c
    BY <2>1, <2>2
  <2> HIDE DEF c
  <2>4. c <= j /\ j <= c /\ c \in 1..i - 1
    BY <1>6, <2>1, <2>2, <2>3
  <2>5. c = j
    BY <2>4
  <2> QED BY <1>3, <1>8, <2>1, <2>5 DEF c
<1> QED BY <1>4, <1>7, <1>8 DEF Covers

\* The depth is that of the innermost script on the stack.
LEMMA DepthFollows == IInv => DepthBalanced
<1> SUFFICES ASSUME IInv, NEW s \in Shells
             PROVE  /\ depth[s] = DepthBelow(s, Len(stack[s]) + 1)
                    /\ depth[s] <= MaxScriptDepth
                    /\ \A i \in Scripts(s) : stack[s][i].saved = DepthBelow(s, i)
  BY DEF DepthBalanced
<1> DEFINE k == stack[s]
           n == Len(k)
<1>1. DepthOK(k, depth[s]) /\ k \in Seq(Frames)
  BY Mine DEF IInv, SInv
<1>2. n \in Nat /\ DOMAIN k = 1..n
  BY <1>1, LenProperties
<1>3. /\ Covers(k, n + 1, depth[s]) /\ depth[s] <= MaxScriptDepth
      /\ \A i \in 1..n : k[i].kind = "script" => Covers(k, i, k[i].saved)
  BY <1>1 DEF DepthOK
<1>4. n + 1 \in Nat /\ n + 1 <= n + 1 /\ \A i \in 1..n : i \in Nat /\ i <= n + 1
  <2> HIDE DEF n
  <2> QED BY <1>2
<1>5. depth[s] = DepthBelow(s, n + 1)
  BY <1>1, <1>3, <1>4, DepthIs
<1>6. ASSUME NEW i \in Scripts(s) PROVE k[i].saved = DepthBelow(s, i)
  <2>1. i \in 1..n /\ k[i].kind = "script"
    BY <1>2 DEF Scripts
  <2> QED BY <1>1, <1>3, <1>4, <2>1, DepthIs
<1> QED BY <1>3, <1>5, <1>6

\* _script_depth is the depth of the innermost script that runs and 0 at the
\* prompt, and never above its limit, however the scripts before it ended.
THEOREM DepthStaysBalanced == Spec => []DepthBalanced
BY Invariance, DepthFollows, PTL

\* Commands that were started are open or logged, and not both.
LEMMA LoggedFollows == IInv => EveryCommandLogged
<1> SUFFICES ASSUME IInv, NEW s \in Shells
             PROVE  Open(s) \cap log[s].ids = {} /\ Open(s) \cup log[s].ids = 1..started[s]
  BY DEF EveryCommandLogged
<1> DEFINE k == stack[s]
<1>1. LogOK(k, started[s], log[s]) /\ k \in Seq(Frames)
  BY Mine DEF IInv, SInv
<1>2. DOMAIN k = 1..Len(k)
  BY <1>1, LenProperties
<1>3. \A x : x \in Open(s) <=> IsOpen(k, x)
  BY <1>2 DEF Open, IsOpen, CmdAt
<1>4. (\A x \in log[s].ids : ~IsOpen(k, x))
      /\ \A x : x \in 1..started[s] <=> x \in log[s].ids \/ IsOpen(k, x)
  BY <1>1 DEF LogOK
<1> HIDE DEF k
<1> QED BY <1>3, <1>4

\* Every simple command, however deep in scripts, is handed to the session log
\* exactly once, whatever ends it or what is around it.
THEOREM CommandsAreLogged == Spec => []EveryCommandLogged
BY Invariance, LoggedFollows, PTL

\* The status is that of the stage before.
LEMMA StatusFollows == IInv => StatusIsLast
<1> SUFFICES ASSUME IInv, NEW s \in Shells, InLine(s), Top(s).last.end = "go",
                    Top(s).rest # LineOf[Top(s).line]
             PROVE  status[s] = Top(s).last.code
  BY DEF StatusIsLast
<1>1. StatusOK(stack[s], status[s])
  BY Mine DEF IInv, SInv
<1>2. stack[s] # <<>> /\ Top(s).kind = "line" /\ Top(s) = stack[s][Len(stack[s])]
  BY DEF InLine, Top
<1> QED BY <1>1, <1>2 DEF StatusOK

\* Between two commands of a line, $? is the exit code that && and || look at,
\* across nested scripts, failed redirects and cached answers.
THEOREM StatusStaysLast == Spec => []StatusIsLast
BY Invariance, StatusFollows, PTL

\* The notes of a record are its command's own.
LEMMA ArtifactsFollow == IInv => ArtifactsExact
<1> SUFFICES ASSUME IInv PROVE ArtifactsRecorded /\ NoStrayArtifacts
  BY DEF ArtifactsExact
<1>1. ASSUME NEW s \in Shells, InCommand(s, "record"), Top(s).kept
      PROVE  Top(s).id \in log[s].last.notes
  <2>1. Locals /\ stack[s] # <<>> /\ Top(s).kind = "cmd" /\ Top(s).at = "record"
    BY <1>1 DEF IInv, InCommand
  <2>2. KeptOK(stack[s], notes[s], log[s])
    BY <2>1, Mine DEF SInv
  <2>3. CmdAt(stack[s], Len(stack[s])) /\ Top(s) = stack[s][Len(stack[s])]
    BY <2>1, CmdTop
  <2> QED BY <1>1, <2>1, <2>2, <2>3 DEF KeptOK
<1>2. ASSUME NEW s \in Shells PROVE \A id \in log[s].last.notes : id >= log[s].last.id
  BY Mine DEF IInv, SInv, LogOK
<1> QED BY <1>1, <1>2 DEF ArtifactsRecorded, NoStrayArtifacts

\* A record names the artifacts of its command, and none of a command before it,
\* although the list is a field that every nested command replaces.
THEOREM ArtifactsStayExact == Spec => []ArtifactsExact
BY Invariance, ArtifactsFollow, PTL

\* An answer from the cache is one that was given to the line.
LEMMA CacheFollows == IInv => CacheIsSound
BY DEF IInv, Shared, CacheIsSound, HitRepeats

\* The cache the shells of an address share saves the question, and what it shows
\* was an answer to that line with that input, to these arguments or to others that
\* are joined to the same line.
THEOREM CacheStaysSound == Spec => []CacheIsSound
BY Invariance, CacheFollows, PTL

\* Of the steps of a shell, one begins a command and one takes a line.
LEMMA WhoBegins ==
    ASSUME ShellTypes, NEW s \in Shells,
           Step(s) \/ EnterLine(s) \/ Hangup(s) \/ Replied(s) \/ NoChoices(s) \/ Cancel(s)
    PROVE  /\ LineRun(s) \/ Prompt(s) \/ UNCHANGED started
           /\ EnterLine(s) \/ stack[s] # <<>> \/ UNCHANGED stack
<1>1. CASE LineSkip(s) \/ LineRun(s) \/ LineDone(s) \/ Prompt(s) \/ ScriptLine(s) \/ ScriptDone(s)
  <2>1. stack[s] # <<>>
    BY <1>1 DEF LineSkip, LineRun, LineDone, Prompt, ScriptLine, ScriptDone, InLine, InScript
  <2>2. LineRun(s) \/ Prompt(s) \/ UNCHANGED started
    BY <1>1 DEF LineSkip, LineDone, ScriptLine, ScriptDone
  <2> QED BY <2>1, <2>2
<1>2. CASE \/ RunFixed(s) \/ RunCat(s) \/ RunRm(s) \/ RunFetch(s) \/ RunTrap(s) \/ RunLine(s)
           \/ RunRequest(s) \/ RunEndless(s) \/ StreamChunk(s) \/ StreamOver(s) \/ Replied(s)
           \/ NotReplied(s) \/ NoChoices(s) \/ Cancel(s)
  <2>1. Quiet(s)
    BY <1>2 DEF RunFixed, RunCat, RunRm, RunFetch, RunTrap, RunLine, RunRequest, RunEndless,
                StreamChunk, StreamOver, Replied, NotReplied, NoChoices, Cancel, Answered
  <2>2. stack[s] # <<>>
    BY <1>2 DEF RunFixed, RunCat, RunRm, RunFetch, RunTrap, RunLine, RunRequest, RunEndless,
                StreamChunk, StreamOver, Replied, NotReplied, NoChoices, Cancel, Runs, InCommand
  <2> QED BY <2>1, <2>2 DEF Quiet
<1>3. CASE RunScript(s) \/ RunStdin(s)
  <2>1. stack[s] # <<>>
    BY <1>3 DEF RunScript, RunStdin, Runs, InCommand
  <2>2. CASE RunScript(s)
    BY <2>1, <2>2 DEF RunScript, EnterScript, Quiet
  <2>3. CASE RunStdin(s)
    BY <2>1, <2>3 DEF RunStdin, EnterScript, Quiet
  <2> QED BY <1>3, <2>2, <2>3
<1>4. CASE Finish(s) \/ FinishRedirected(s) \/ Recorded(s)
  BY <1>4 DEF Finish, FinishRedirected, Recorded, Submit, InCommand
<1>5. CASE EnterLine(s)
  BY <1>5 DEF EnterLine
<1>6. CASE Hangup(s)
  BY <1>6 DEF Hangup
<1> QED BY <1>1, <1>2, <1>3, <1>4, <1>5, <1>6 DEF Step

\* A step of a shell changes the stack and the commands begun of no other one.
LEMMA OthersStay ==
    ASSUME Locals, NEW s \in Shells, NEW t \in Shells, t # s,
           Step(s) \/ EnterLine(s) \/ Hangup(s) \/ Replied(s) \/ NoChoices(s) \/ Cancel(s)
    PROVE  started'[t] = started[t] /\ stack'[t] = stack[t]
<1>0. ShellTypes
  BY DEF Locals
<1>1. started'[t] = started[t]
  <2>1. CASE UNCHANGED started
    BY <2>1
  <2>2. CASE LineRun(s)
    BY <1>0, <2>2 DEF LineRun, Start, ShellTypes
  <2>3. CASE Prompt(s)
    BY <1>0, <2>3 DEF Prompt, ShellTypes
  <2> QED BY <1>0, <2>1, <2>2, <2>3, WhoBegins
<1>2. (\E k : stack' = [stack EXCEPT ![s] = k]) \/ UNCHANGED stack
  <2>1. CASE \/ LineSkip(s) \/ LineRun(s) \/ LineDone(s) \/ Prompt(s) \/ ScriptLine(s)
             \/ ScriptDone(s) \/ EnterLine(s) \/ Hangup(s) \/ Recorded(s)
    BY <2>1 DEF LineSkip, LineRun, Start, LineDone, Prompt, ScriptLine, ScriptDone, EnterLine,
                Hangup, Recorded, Become, Return, Push
  <2>2. CASE \/ RunFixed(s) \/ RunCat(s) \/ RunRm(s) \/ RunFetch(s) \/ RunTrap(s) \/ RunLine(s)
             \/ RunRequest(s)
    BY <2>2 DEF RunFixed, RunCat, RunRm, RunFetch, RunTrap, RunLine, RunRequest, Settle,
                SettleNoted, Become, Call
  <2>3. CASE RunScript(s) \/ RunStdin(s)
    BY <2>3 DEF RunScript, RunStdin, EnterScript, Settle, Become, Call
  <2>4. CASE \/ RunEndless(s) \/ StreamChunk(s) \/ StreamOver(s) \/ Replied(s)
             \/ NotReplied(s) \/ NoChoices(s) \/ Cancel(s)
    BY <2>4 DEF RunEndless, StreamChunk, StreamOver, StreamRound, Replied, NotReplied, NoChoices,
                Cancel, Answered, Settle, Become
  <2>5. CASE Finish(s) \/ FinishRedirected(s)
    BY <2>5 DEF Finish, FinishRedirected, Submit, Become
  <2> QED BY <2>1, <2>2, <2>3, <2>4, <2>5 DEF Step
<1>3. stack'[t] = stack[t]
  BY <1>0, <1>2 DEF ShellTypes
<1> QED BY <1>1, <1>3

\* Nothing is started after an exit was recorded.
LEMMA ExitFollows ==
    IInv /\ [Next]_vars =>
      [\A s \in Shells :
         started'[s] > started[s] \/ (stack[s] = <<>> /\ stack'[s] # <<>>)
             => log[s].last.end = "go"]_vars
<1> SUFFICES ASSUME IInv, Next, NEW s \in Shells,
                    started'[s] > started[s] \/ (stack[s] = <<>> /\ stack'[s] # <<>>)
             PROVE  log[s].last.end = "go"
  OBVIOUS
<1>1. PICK t \in Shells :
        Step(t) \/ EnterLine(t) \/ Hangup(t) \/ Replied(t) \/ NoChoices(t) \/ Cancel(t)
  BY DEF Next
<1>2. Locals /\ ShellTypes /\ started[s] \in Nat
  BY Mine DEF IInv
<1>3. ~(started[s] > started[s])
  BY <1>2
<1>4. t = s
  <2> SUFFICES ASSUME t # s PROVE FALSE
    OBVIOUS
  <2>1. started'[s] = started[s] /\ stack'[s] = stack[s]
    BY <1>1, <1>2, OthersStay
  <2> QED BY <1>3, <2>1
<1>5. ~Prompt(s) \/ ~(started'[s] > started[s])
  <2> SUFFICES ASSUME Prompt(s) PROVE ~(started'[s] > started[s])
    OBVIOUS
  <2>1. started'[s] = 0
    BY <1>2 DEF Prompt, ShellTypes
  <2> QED BY <1>2, <2>1
<1>6. LineRun(s) \/ EnterLine(s)
  <2>1. CASE started'[s] > started[s]
    BY <1>1, <1>2, <1>3, <1>4, <1>5, <2>1, WhoBegins
  <2>2. CASE stack[s] = <<>> /\ stack'[s] # <<>>
    BY <1>1, <1>2, <1>4, <2>2, WhoBegins
  <2> QED BY <2>1, <2>2
<1>7. CASE LineRun(s)
  <2>1. InLine(s) /\ Top(s).last.end = "go"
    BY <1>7 DEF LineRun
  <2> QED BY <1>2, <2>1, CallerTop, StillGoing
<1>8. CASE EnterLine(s)
  <2>1. mode[s] # "closed" /\ stack[s] = <<>>
    BY <1>8 DEF EnterLine
  <2>2. EndOK(stack[s], mode[s], log[s])
    BY <1>2, Mine DEF SInv
  <2> QED BY <2>1, <2>2 DEF EndOK
<1> QED BY <1>6, <1>7, <1>8

\* After an exit or an error nothing else is run, neither by the scripts it was in
\* nor by a new line, unless the redirect of a script failed and was recorded last.
THEOREM ExitStaysFinal == Spec => ExitIsFinal
BY Invariance, ExitFollows, PTL DEF Spec, ExitIsFinal
=============================================================================
