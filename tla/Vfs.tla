-------------------------------- MODULE Vfs ---------------------------------
(***************************************************************************)
(* vfs.py: the in-memory file system of a client address, its limits and   *)
(* its quota counter; with the one long operation of shell.py on it, the   *)
(* redirect of an endless device, which yields after every chunk while the *)
(* other shells of the address go on.                                      *)
(*                                                                         *)
(* A path is the sequence of names canonicalize leaves of what was typed;  *)
(* the tree maps the paths that exist to their nodes.  Of a file only the  *)
(* size of its content and its dynamic flag are kept: text, modes and      *)
(* times play no part in the limits.                                       *)
(***************************************************************************)
EXTENDS Naturals, Sequences, SequencesExt, FiniteSets

CONSTANTS Names, MaxDepth,   \* bound: the paths used
          Base,              \* build_honeypot_tree
          DevNull, DevZero,  \* two of its devices
          MaxFile,           \* max_file_size_bytes
          MaxTotal,          \* max_total_vfs_bytes
          ReadChunk,         \* max_read_chunk_bytes
          Sizes,             \* bound: sizes of what is written
          Shells             \* shells that may run an endless redirect

Paths == UNION {[1..n -> Names] : n \in 0..MaxDepth}

Root == <<>>

Nodes == [kind : {"dir", "file", "dev"}, size : Nat, dynamic : BOOLEAN]

Dir == [kind |-> "dir", size |-> 0, dynamic |-> FALSE]

Device == [kind |-> "dev", size |-> 0, dynamic |-> FALSE]

File(size, dynamic) == [kind |-> "file", size |-> size, dynamic |-> dynamic]

ASSUME LimitAssumption ==
    /\ MaxFile \in Nat \ {0} /\ MaxTotal \in Nat \ {0} /\ ReadChunk \in Nat \ {0}
    /\ Sizes \subseteq Nat /\ MaxDepth \in Nat
    /\ DevNull \in Paths \ {Root} /\ DevZero \in Paths \ {Root, DevNull}

\* The tree the honeypot starts with, of which no file counts towards the quota.
ASSUME BaseAssumption ==
    /\ IsFiniteSet(DOMAIN Base) /\ Root \in DOMAIN Base /\ Base[Root].kind = "dir"
    /\ \A p \in DOMAIN Base :
         /\ p \in Paths /\ Base[p] \in Nodes /\ ~Base[p].dynamic
         /\ p # Root => Front(p) \in DOMAIN Base /\ Base[Front(p)].kind = "dir"

VARIABLES tree,    \* _root, as a function from paths to nodes
          used,    \* _dynamic_bytes_used
          stream   \* _stream_infinite_redirect, per shell

vars == <<tree, used, stream>>

NoStream == [left |-> 0]

Init ==
    /\ tree = Base
    /\ used = 0
    /\ stream = [s \in Shells |-> NoStream]

-----------------------------------------------------------------------------
(***************************************************************************)
(* The methods of VirtualFileSystem.  Each gives the error it raises, or   *)
(* "ok", and the tree and the counter it leaves behind.                    *)
(***************************************************************************)
Outcome(e, t, u) == [err |-> e, tree |-> t, used |-> u]

Fail(e) == Outcome(e, tree, used)

IsDir(p) == p \in DOMAIN tree /\ tree[p].kind = "dir"

\* resolve: the error it raises.
Resolve(p) ==
    CASE p \in DOMAIN tree -> "ok"
      [] p \notin DOMAIN tree
            /\ \E i \in 1..Len(p) - 1 : /\ SubSeq(p, 1, i) \in DOMAIN tree
                                        /\ ~IsDir(SubSeq(p, 1, i)) -> "notdir"
      [] OTHER -> "missing"

\* resolve on the parent, which has to be a directory.
ResolveParent(p) ==
    LET e == Resolve(Front(p))
    IN  IF e = "ok" /\ ~IsDir(Front(p)) THEN "notdir" ELSE e

\* read_file of a file or a device: the number of bytes.
ReadFile(p) ==
    CASE tree[p].kind = "file" -> tree[p].size
      [] tree[p].kind = "dev" /\ p = DevZero -> ReadChunk
      [] OTHER -> 0

With(t, p, node) == [q \in DOMAIN t \cup {p} |-> IF q = p THEN node ELSE t[q]]

Below(t, p) == {q \in DOMAIN t : Len(q) >= Len(p) /\ SubSeq(q, 1, Len(p)) = p}

Without(t, p) == [q \in DOMAIN t \ Below(t, p) |-> t[q]]

Counted(t, ps) ==
    MapThenSumSet(LAMBDA q : IF t[q].dynamic THEN t[q].size ELSE 0, ps)

\* _release_dynamic_bytes, clamped at zero as in the code.
Released(p) ==
    LET n == Counted(tree, Below(tree, p)) IN IF n <= used THEN used - n ELSE 0

\* touch: an empty file, which is not dynamic until it is written.
Touch(p) ==
    CASE p = Root -> Fail("ok")
      [] p # Root /\ ResolveParent(p) # "ok" -> Fail(ResolveParent(p))
      [] OTHER -> IF p \in DOMAIN tree THEN Fail("ok")
                  ELSE Outcome("ok", With(tree, p, File(0, FALSE)), used)

\* Mutation: the counter is moved before the limit is looked at.
AccountFirst(old, n) ==
    LET projected == (used + n) - (IF old.dynamic THEN old.size ELSE 0)
    IN  CASE n > MaxFile -> [err |-> "toobig", used |-> used]
          [] n <= MaxFile /\ projected > MaxTotal ->
                 [err |-> "nospace", used |-> projected]
          [] OTHER -> [err |-> "ok", used |-> projected]

\* _account_write for content of n bytes in place of the file old.
AccountWrite(old, n) ==
    LET projected == (used + n) - (IF old.dynamic THEN old.size ELSE 0)
    IN  CASE n > MaxFile -> [err |-> "toobig", used |-> used]
          [] n <= MaxFile /\ projected > MaxTotal -> [err |-> "nospace", used |-> used]
          [] OTHER -> [err |-> "ok", used |-> projected]

\* write_file: a static file becomes dynamic, with all of its content.
WriteFile(p, n, append) ==
    LET old == IF p \in DOMAIN tree THEN tree[p] ELSE File(0, FALSE)
        size == IF append THEN old.size + n ELSE n
        acc == AccountWrite(old, size)
    IN  CASE p = DevNull -> Fail("ok")
          [] p = Root -> Fail("isdir")
          [] p \notin {DevNull, Root} /\ ResolveParent(p) # "ok" ->
                 Fail(ResolveParent(p))
          [] OTHER ->
                 CASE old.kind = "dir" -> Fail("isdir")
                   [] old.kind = "dev" -> Fail("ok")
                   [] OTHER -> Outcome(acc.err,
                                  IF acc.err = "ok"
                                  THEN With(tree, p, File(size, TRUE)) ELSE tree,
                                  acc.used)

\* The loop of mkdir with parents: it makes directories as it walks down.
Walk(p) ==
    LET walk[i \in 0..Len(p)] ==
          IF i = 0 THEN Fail("ok")
          ELSE LET w == walk[i - 1]
                   q == SubSeq(p, 1, i)
               IN  CASE w.err # "ok" -> w
                     [] w.err = "ok" /\ w.tree[Front(q)].kind # "dir" ->
                            [w EXCEPT !.err = "notdir"]
                     [] OTHER -> IF q \in DOMAIN w.tree THEN w
                                 ELSE [w EXCEPT !.tree = With(@, q, Dir)]
        end == walk[Len(p)]
    IN  IF end.err = "ok" /\ end.tree[p].kind # "dir"
        THEN [end EXCEPT !.err = "exists"] ELSE end

\* mkdir
Mkdir(p, parents) ==
    CASE p = Root -> Fail(IF parents THEN "ok" ELSE "exists")
      [] p # Root /\ parents -> Walk(p)
      [] p # Root /\ ~parents /\ ResolveParent(p) # "ok" -> Fail(ResolveParent(p))
      [] OTHER -> IF p \in DOMAIN tree THEN Fail("exists")
                  ELSE Outcome("ok", With(tree, p, Dir), used)

\* Mutation: a directory is removed without a look at the files in it.
RemoveShallow(p, recursive, force) ==
    IF p = Root \/ p \notin DOMAIN tree \/ (tree[p].kind = "dir" /\ ~recursive)
    THEN Fail("missing")
    ELSE Outcome("ok", Without(tree, p),
                 IF tree[p].dynamic THEN used - tree[p].size ELSE used)

\* remove: force only forgives what does not exist.
RemoveNode(p, recursive, force) ==
    LET e == ResolveParent(p)
    IN  CASE p = Root -> Fail("notempty")
          [] p # Root /\ e # "ok" -> Fail(IF e = "missing" /\ force THEN "ok" ELSE e)
          [] p # Root /\ e = "ok" /\ p \notin DOMAIN tree ->
                 Fail(IF force THEN "ok" ELSE "missing")
          [] OTHER -> IF tree[p].kind = "dir" /\ ~recursive THEN Fail("isdir")
                      ELSE Outcome("ok", Without(tree, p), Released(p))

\* rmdir
Rmdir(p) ==
    CASE p = Root -> Fail("notempty")
      [] p # Root /\ ResolveParent(p) # "ok" -> Fail(ResolveParent(p))
      [] p # Root /\ ResolveParent(p) = "ok" /\ p \notin DOMAIN tree -> Fail("missing")
      [] OTHER -> CASE tree[p].kind # "dir" -> Fail("notdir")
                    [] Below(tree, p) # {p} -> Fail("notempty")
                    [] OTHER -> Outcome("ok", Without(tree, p), Released(p))

-----------------------------------------------------------------------------
(***************************************************************************)
(* The shells of the address.  A command of one shell is a step.           *)
(***************************************************************************)
Do(o) == tree' = o.tree /\ used' = o.used /\ UNCHANGED stream

\* > and >>
DoWrite == \E p \in Paths, n \in Sizes, append \in BOOLEAN : Do(WriteFile(p, n, append))

\* wget, and curl with an output file; what they fetch is never empty.
DoDownload == \E p \in Paths, n \in Sizes \ {0} : Do(WriteFile(p, n, FALSE))

DoTouch == \E p \in Paths : Do(Touch(p))

DoMkdir == \E p \in Paths, parents \in BOOLEAN : Do(Mkdir(p, parents))

DoRemove == \E p \in Paths, r, f \in BOOLEAN : Do(RemoveNode(p, r, f))

DoRmdir == \E p \in Paths : Do(Rmdir(p))

\* Mutation: the loop goes on for as long as the writes succeed.
ChunkForever(s, job) ==
    LET o == WriteFile(job.path, job.chunk, job.append)
    IN  /\ tree' = o.tree /\ used' = o.used
        /\ stream' = [stream EXCEPT ![s] =
                        IF o.err = "ok" THEN [job EXCEPT !.append = TRUE]
                        ELSE NoStream]

\* One round of the loop, up to its sleep; an error ends it.
Chunk(s, job) ==
    LET o == WriteFile(job.path, job.chunk, job.append)
    IN  /\ tree' = o.tree /\ used' = o.used
        /\ stream' = [stream EXCEPT ![s] =
                        IF o.err = "ok" /\ job.left > 1
                        THEN [job EXCEPT !.append = TRUE, !.left = @ - 1]
                        ELSE NoStream]

\* cat of an endless device into a file.  The device is looked up by its path:
\* another file may be there by now, and an empty one gives a single write.  A
\* redirect into a device, or from a device that was removed, does nothing here.
StartStream(s) ==
    \E p \in Paths, append \in BOOLEAN :
        LET chunk == ReadFile(DevZero)
        IN  /\ stream[s] = NoStream
            /\ DevZero \in DOMAIN tree /\ ~IsDir(DevZero)
            /\ p \in DOMAIN tree => tree[p].kind # "dev"
            /\ Chunk(s, [path |-> p, append |-> append, chunk |-> chunk,
                         left |-> IF chunk = 0 THEN 1 ELSE MaxTotal \div chunk + 2])

StreamChunk(s) == stream[s] # NoStream /\ Chunk(s, stream[s])

Next ==
    \/ DoWrite
    \/ DoDownload
    \/ DoTouch
    \/ DoMkdir
    \/ DoRemove
    \/ DoRmdir
    \/ \E s \in Shells : StartStream(s)
    \/ \E s \in Shells : StreamChunk(s)

\* sleep(0) returns: a redirect that has yielded is resumed.
Spec == Init /\ [][Next]_vars /\ \A s \in Shells : WF_vars(StreamChunk(s))

-----------------------------------------------------------------------------
\* The state is well formed, and the paths make up one tree: every node but the
\* root lies in a directory.
TypeOK ==
    /\ DOMAIN tree \subseteq Paths /\ Root \in DOMAIN tree
    /\ \A p \in DOMAIN tree : tree[p] \in Nodes
    /\ used \in Nat
    /\ \A s \in Shells : stream[s].left \in 0..MaxTotal + 2

\* What the dynamic files of the tree really hold.
Stored == Counted(tree, DOMAIN tree)

\* The quota counter never drifts from what is there, after any sequence of
\* writes, appends, overwrites and removals of trees; so the limits hold for the
\* files and not only for the counter, also when static files are appended to and
\* while an endless redirect is under way.  And what is there can be reached:
\* every node lies in a directory.
TreeIsSound ==
    /\ used = Stored
    /\ Stored <= MaxTotal
    /\ \A p \in DOMAIN tree :
          /\ tree[p].dynamic => tree[p].size <= MaxFile
          /\ p # Root => IsDir(Front(p))

\* An operation that raises an error leaves the tree and the counter as they
\* were, mkdir -p half way down included.
FailureIsAtomic ==
    LET clean(o) == o.err # "ok" => o.tree = tree /\ o.used = used
    IN  \A p \in Paths : \A b, c \in BOOLEAN :
          /\ clean(Mkdir(p, b)) /\ clean(RemoveNode(p, b, c))
          /\ \A n \in Sizes : clean(WriteFile(p, n, b))

\* An endless redirect ends, even if other shells keep removing or truncating the
\* file it writes to, so that no limit ever stops it.
StreamEnds == \A s \in Shells : (stream[s] # NoStream) ~> (stream[s] = NoStream)
=============================================================================
