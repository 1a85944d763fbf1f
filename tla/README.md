# Verification of dynamic-honeypot

TLA+ models of the honeypot's concurrent and stateful parts, model-checked with
TLC on small instances. The safety properties of all of them but the splitters
are also proved with TLAPS, for every value of their parameters.
Source paths below are relative to the repository.

## The system

A client connects to a C++ proxy, which limits connections per address and
relays each accepted one to a Python SSH server. The proxy puts a PROXY v1 line
in front of the client's bytes; the server reads the line, authenticates the
client against a password it invents for the address, and gives it a shell on a
virtual file system. Commands the shell does not know are answered by an LLM.
What an address did is kept between its connections.

| Component | State | Operations | Interacts with |
|---|---|---|---|
| Rate limiter (`proxy/src/rate_limiter.cpp`) | an entry per address (live connections, token bucket, times), a global counter, the leases handed out | `try_admit`, `~Lease`, `maybe_sweep` | the accept path takes a lease, a session holds it until it is destroyed |
| Session relay (`proxy_server.cpp`, from `spawn_session` down) | per session: state, two buffers, end-of-stream and shutdown flags, registered epoll masks, the header | `handle_session_event`, `finish_connect`, `flush_write`, `pump_read`, `on_read_eof`, `maybe_complete`, `refresh_events`, `destroy_session` | the kernel and two peers that send, close, reset and stop reading when they like |
| Start, loop, stop (`main.cpp`, `init`, `run`, `teardown`, `stop`) | `running_`, the eventfd and its raw copy, `g_server`, open descriptors | set-up, the epoll loop, teardown, the signal handler | a signal runs between any two steps of the only thread |
| Accept path and session table | `sessions_`, event tokens | `accept_ready`, `spawn_session` | limiter, relay |
| Session manager (`session_manager.py`) | an ordered dictionary from address to record, with `last_seen` | `get_or_create`, `touch`, `sweep` | `handle_client`, `connection_lost`, `_periodic_sweep` |
| Auth manager (`auth.py`) and the SSH callbacks (`server.py`) | pinned passwords and failure counters, both bounded and with a time to live; per connection its place in a login | `create_session`, `validate_login`, `is_locked_out`, `sweep`, the disconnect | connections of one address interleave at the tarpit's `await` |
| PROXY preamble (`server.py`) | the bytes of the line read so far | `data_received` and end of stream before the hand-over to asyncssh | the relay, asyncssh |
| Virtual file system (`vfs.py`) | tree, byte counter | `touch`, `write_file`, `mkdir`, `remove`, `rmdir`, `chmod`, `resolve` | all shells of an address share one |
| Shell (`shell.py`) | working directory, exit status, artifacts of the command, nesting depth; the LLM cache of the address | splitting of a line, `execute`, redirections, pipes, scripts | file system, LLM, telemetry; shells of one address interleave at every `await` |
| LLM providers (`llm.py`) | none | requests with a timeout and a fallback, validation of replies | the shell |
| Telemetry, sinkhole | a log file, a directory of samples | appends on a worker thread, file writes | the shell, the auth manager |

What is hard here: stale epoll batches and back pressure in the relay; signals
between any two steps of start and stop; a sweep that erases entries whose owners
come back; counters that are decremented by destructors on many paths; two
bounded stores whose eviction order has to agree with their times; a tarpit that
separates a decision from its use; records and file systems shared by
shells that outlive them; coroutines nested in each other, whose shared fields
(depth, artifacts, status) have to survive exits, exceptions and cancellation; a
cache that is read before an await and filled after it. The hazards, each at its line, are listed in
`PROJECT.json` with the properties that cover them.

## Modules

| Module | Models |
|---|---|
| `AdmissionControl` | the abstract promise of the limiter: exact, never forgotten token buckets |
| `RateLimiter` | `rate_limiter.cpp`; its instance `AC` of `AdmissionControl` is the refinement mapping |
| `AdmissionWindow` | `RateLimiter` and an observer who counts admissions from a moment of its choice |
| `RateLimiterProofs` | the theorems about these |
| `ProxySessionProofs` | the theorems about `ProxySession` and about `ProxyLifecycle` |
| `SessionManagerProofs`, `AuthManagerProofs`, `PreambleProofs`, `VfsProofs`, `ShellProofs` | the theorems about the module they are named after |
| `LruStoreProofs` | lemmas about the store, for both managers |
| `ProxySession` | one relayed session, its sockets, the peers and the epoll loop |
| `ProxyLifecycle` | `main`, `run`, `teardown` and the signal handler |
| `LruStore` | the ordered dictionary with a time to live that both managers use |
| `SessionManager` | `session_manager.py` and its callers in `server.py` |
| `AuthManager` | `auth.py` and the authentication callbacks of `server.py` |
| `Preamble` | the PROXY line from the proxy's writer to the server's parser |
| `Vfs` | the file system, its quota, and the shell's redirect of an endless device |
| `CommandLine` | the three splitters of a line, and a reference scan with the rules of `shlex` |
| `Llm` | what `llm.py` makes of a reply, and the JSON of the cache |
| `Shell` | execution of lines by the shells of an address, with `Llm`, the session log and the loop of `handle_client` |
| `MC*` | one per specification, with symmetry sets and structured constants; the `.cfg` files give the bounds |

`TypeOK` of a module says what its variables may hold. The runs list it only for the
limiter; elsewhere the safety invariants say more. The inductive invariants of the
proofs contain the types.

Definitions called "Mutation" are plausible bugs of the definition that follows
them. No specification uses them; each shows that a property can fail.

### RateLimiter

`entries`, `active_global` and `last_sweep` are the members of the class. `lease`
is the set of `Lease` objects alive anywhere, `verdict` the latest answer. The
event loop is the only thread, so a call is a step, and the clock moves between
calls. `try_admit` is three actions, one for each way out: `RefuseGlobal` (before
an entry is created or refreshed), `RefusePerIp` (after the refill) and `Admit`.
`Release` is the destructor of a lease on any path that drops one. Buckets are
doubles in the code; here they count units, of which `TokenCost` make a token, so
a rate below one token per tick stays an integer. Rounding of doubles is not
modelled.

The abstract `AdmissionControl` has a level for each address and no entries,
counters or sweep. The mapping takes `Level(ip)`: a full bucket when there is no
entry, otherwise the bucket as a refill at this moment would leave it. The sweep
is a stuttering step exactly if an entry idle for `StaleTtl` has a full bucket,
which is the condition `SweepIsLossless` (`TokensMax <= StaleTtl *
RefillPerTick`). The defaults satisfy it with room to spare (a burst of 15, 10
tokens per second, 30 seconds). The options of the proxy allow settings that do
not, for instance a burst of 100 at one token per second, and there the promise is lost: an
address that waits 30 seconds gets 100 tokens instead of 30.

### ProxySession

`ses` holds the members of the C++ `ProxySession` and, per socket, what the kernel
knows (received and unread bytes, FIN, failure, bytes it accepted for a peer that
has not read them). A handler runs to completion on the only thread, so each is
a function from the session to the session, and `HandleEvent` is one step. `EpollWait` is
separate: between it and the handlers the peers go on, and the second event of a
batch is handled after the first one changed or destroyed the session. Bytes are
numbered, 0 is the PROXY line. `wire`, `sent` and `end` are history.

### ProxyLifecycle

`pc` is the thread's place in `main`, `run` and `teardown`. `Signal` may come
between any two steps and runs `handle_signal` and `stop` whole; before the
handlers are installed it kills the process. Every call that can fail has a failing branch.
Its names begin with `Loop` where `ProxySession` has one of its own: `ProxySessionProofs` extends both.

### SessionManager, AuthManager, LruStore

A store is the sequence of its entries, least recently used first; an entry has
an age in place of `last_seen`, and ages stop one past the time to live, where
all comparisons have the same outcome. So these models have no bound on time.
asyncio runs one callback at a time: what lies between two awaits is a step. A
failed login is two steps, before and after the tarpit; other connections,
the sweep and the clock run in between. A record (`rec`) is an object identity: a
shell keeps the one it was opened with, whatever the store does. `used`,
`idle`, `busy`, `tries`, `quiet` and `others` are history: they say what happened
to an address without a look at the store.

### Preamble

The stream is what the proxy writes first (a line with the client's address, a
line that says `UNKNOWN`, or nothing) and what the client sends. It arrives in
pieces of any size, `DataReceived(n)` for each, until it ends or the connection is
lost. A byte is a symbol: three stand for `"PROXY "`, since the code treats one
byte, fewer than the prefix and the whole prefix differently, and one for the
fields of the line, which either parse or do not. `TryHandoff` is `_try_handoff`,
branch by branch. asyncssh is the sequence of bytes it is given (`inner`).
`ProxyIsBelieved` together with `RelayIsExact` of `ProxySession` is the end-to-end
statement: the line is the first thing on the wire, and only the first line counts.

### Vfs

The tree is a function from paths (after `canonicalize`) to nodes with a kind, a
size and the `dynamic` flag. Each method is an operator that gives the error it
raises and the tree and counter it leaves. `mkdir -p` is a recursive
function, since it creates directories as it walks. A command is a step;
`_stream_infinite_redirect` yields after every chunk, so it is `StartStream` and a
`StreamChunk` per round. The redirect looks its device up by path, so another
file may have taken its place. Text, modes and times are left out.

### Shell, CommandLine, Llm

The coroutines of a shell are a stack of frames. `execute` and the two loops below
it make a "line" frame, `_execute_script_lines` a "script" frame and
`_execute_single_command` with `_dispatch` a "cmd" frame, which waits in one of
the places `at`: before its dispatch, in a callee, for the provider (`asking`), in
the endless redirect (`stream`), before its `finally` (`finish`) or for the log
(`record`). A frame that ends hands its `CommandResult`, or the exception in its
place, to the one below (`Return`, `Receive`). asyncio has one thread: `Scheduled`
lets a shell run only if every other one is at an await. What the shells of an address
share are `files` and `cache`.

| Code | Actions |
|---|---|
| `handle_client` | `EnterLine`, `Hangup`, `Prompt`, `Cancel` (shutdown) |
| `execute`, `_execute_conditionals`, `_execute_pipeline` | `LineSkip`, `LineRun` (with `Start`), `LineDone` |
| `_execute_script_lines` | `EnterScript`, `ScriptLine`, `ScriptDone` |
| `_dispatch` and handlers | `RunFixed`, `RunCat`, `RunRm`, `RunFetch`, `RunTrap`, `RunLine` (`sh -c`), `RunScript` (`sh file`), `RunStdin` (`... | sh`), `RunRequest` |
| `generate_response` | `Replied`, `NotReplied` (timeout, error, no content, no key), `NoChoices` |
| `_stream_infinite_redirect` | `RunEndless`, `StreamChunk`, `StreamOver` |
| redirect, `finally`, `record_command` | `Finish`, `FinishRedirected`, `Recorded` |

A text is a sequence of lines and a line is the sequence of its commands with the operator in front of
each, which is what `CommandLine!Commands` computes from characters. Lines in which one
operator follows another, or that begin with one, are left to `CommandLine`; `_execute_conditionals` starts each
statement with a success, so it would run `b` of `false; && b`, and `Passed` looks further back. Whether a
write or a sample succeeds is a choice; when it does is the subject of `Vfs`.
A request has its arguments and the text it was written as. The cache goes by text: `DispatchLine` is the
text as written, or the arguments `Joined` if the command is redirected or has a path in front of
its name, and the key is that and the input. Lines with a NUL, which could run into the
separator of the two, are left out. Commands with results that depend on nothing in the model (the static outputs,
`uname`, unknown names, lines that do not tokenize) are `RunFixed`.

`Llm` has a reply as a shape (no JSON, no object, wrong types, an object), a text that
is conversational or not, and a code, which may be out of range. `Parse` and
`Sanitized` are the two filters; the second also stands between the provider and
the shell. `told`, `started`, `log` and the field `kept` are history.

`CommandLine` works on characters. `Split` is the scan, with the index, buffer
and quote of the code, once per level. `Reference` decides the mode of every
character, the operators among the bare ones, and the commands between them.

## Runs

| Run | Shows |
|---|---|
| `limiter` | counters equal leases; limits hold; any window of `w` ticks admits an address at most burst + `w` * rate times; the verdicts are those of `AdmissionControl` |
| `relay` | no byte is lost, repeated or reordered in a live session, the PROXY line comes first, buffers are bounded, the epoll masks are never out of date, the proxy causes no error itself; ends of streams and bytes get through, and a session both peers left ends |
| `relay_truncation` | violated: see the findings |
| `lifecycle` | the handler never writes to a closed descriptor, a stop wakes the loop wherever it comes in, is final and ends the process, and every exit leaves nothing open |
| `lifecycle_lost_stop` | violated: see the findings |
| `sessions` | eviction order, no mixing of two addresses' records, no record dropped before it is due, none coming back, and none kept for ever |
| `sessions_active` | violated: see the findings |
| `auth` | an address gets `max_attempts` guesses over all its connections together, also when one of them waits in the tarpit while others use them up; refused attempts do not prolong a lockout; both stores are bounded and ordered |
| `preamble` | no byte is lost or doubled at the hand-over, a proxied client is known by the address the proxy saw whatever it sends, the cuts make no difference, and a stream that ends reaches asyncssh |
| `vfs` | the quota counter equals what is there, limits hold, a failing operation changes nothing, and an endless redirect ends although other shells keep undoing its work |
| `shell` | every command is logged once, with its own artifacts and no stale ones, whatever ends the scripts around it; depth, exit status and exits are right across nesting; a shell asks once for a line that can be cached, and a hit shows an answer that was given to the same line and input, also where requests with other arguments share the line; splitting agrees with `shlex`; a line ends even if the provider never answers |
| `shell_depth` | violated: see the findings |

### Bounds

The bounds matter for what is only model-checked; a proved property (see below) holds without
them.

- `limiter`: two addresses, three leases, two connections in all and one per
  address. That makes both limits bind, with a lease to spare. A token is two units,
  a bucket holds two tokens and a tick refills half a token, so partial tokens
  occur. `StaleTtl` is 4 and `MaxTime` is 5: an address can empty its
  bucket, stay away, be swept and come back.
- `relay`: each peer sends two bytes, a buffer holds two and the kernel one. With
  the PROXY line the direction to the backend carries three bytes, so direct
  sends, short sends, a full buffer, and bytes left in the kernel behind it all
  occur, and each of FIN and reset can arrive at any of these points. Sessions
  start connecting or connected, with and without the line.
- `relay_truncation`: a buffer of one and three bytes from each peer, the smallest
  that shows it.
- `lifecycle`: three signals (before, during and after the stop) and two sessions.
- `sessions`: three addresses for two places, so eviction takes place; two shells,
  so that two may hold a record of one address, or a dropped and a current one;
  three records are created in a behaviour. `sessions_active` needs two addresses.
- `auth`: three addresses for two places in each store, two connections, two
  guesses; the pin expires before the attempts, as any order is allowed.
- `preamble`: every client message of up to three symbols, and up to two behind a
  whole line, a half line and a line without a break; with each header. The longest line is
  as long as the proxy's, so the limit is met exactly, and it is exceeded as well.
- `vfs`: the root, two names and depth two make seven paths, with a device, a
  static file and the null device among them. A file holds two bytes and all
  files three, so each limit can be the one that stops a write. Sizes of 0 and 1
  make the appends and overwrites that reach them.
- `shell`: two shells and two lines in all, so that each pair of lines is run by one shell in
  turn or by two at once. The lines are small programs: a script that runs itself up to
  the limit with its output redirected, a download piped into a shell that overwrites the script it
  may be running, three LLM requests, of which one may not be cached and the other two have different arguments and one cache key, and a refused one, an exit inside `sh -c` inside
  a script with a redirect, the removal of a device that the other shell is about
  to read, an endless redirect and an execution of what it wrote. Depth and
  length of scripts are limited to 2, so both limits are met. Codes of replies are -1, 0 and 256.
  `MaxFrames` (20) is never reached here. `SplitsAgree` looks at every line of up to four characters of
  eight: a letter, a blank, the operators' characters, both quotes and the backslash.
- `shell_depth`: one shell, a file that pipes itself into `sh`, and a limit of 3 as in the code.

### Fairness

- `ProxySession!LiveSpec`: `epoll_wait` returns when something is ready and `run`
  handles every event of the batch (weak fairness of `EpollWait` and, on `batch`, of
  `TakeEvent`, as a handler may leave the session as it was). A peer that has something to read
  reads in the end and a connect does not stay undecided. Both are assumptions
  about the network: the code has no timeout of its own, and a peer that neither
  reads nor closes keeps its session and its lease.
- `ProxyLifecycle!LoopSpec`: weak fairness of the thread. `epoll_wait` has a
  timeout of 250 ms, so the thread never sleeps for good. No fairness for signals.
- `SessionManager!LiveSpec`: time passes, and `_periodic_sweep` runs again and
  again since `asyncio.sleep` returns. The loop catches no errors (`server.py:416`); the two sweeps only compare
  times and delete entries, and are taken to raise none.
- `Preamble!Spec`: what was sent arrives and so does its end, or the connection is lost.
- `Vfs!Spec`: a coroutine that awaited `sleep(0)` is resumed.
- `Shell!Spec`: the event loop resumes what is ready. That includes a request whose
  time is up, since `wait_for` has a timeout (`NotReplied`), and the end of an
  endless redirect, since its loop has a limit (`StreamEnds` of `Vfs`). Nothing is assumed of clients
  or of the provider.

`lifecycle`, `relay`, `preamble` and `shell` switch the deadlock check off: an exited process,
a destroyed session, a lost connection and closed shells have nothing more to do. All other models must never get stuck.

## Proofs

A theorem holds for every value of the constants that satisfies the assumptions of its module:
any sets of addresses, connections, shells, lines and files, any limits and times.

| Theorem | States |
|---|---|
| **`RateLimiterProofs`** | |
| `TypeCorrect` | `TypeOK`; in particular no bucket is overdrawn |
| `LeasesAccounted` | `LeaseAccounting`: the counters equal the leases out |
| `CapsRespected` | `AdmissionCaps`: the limits hold in total and per address |
| `LimiterRefines` | if `SweepIsLossless`, `Spec` implements `AdmissionControl` |
| `AdmissionRateBounded` | if `SweepIsLossless`, `WindowBound` |
| **`ProxySessionProofs`** | |
| `RelayStaysExact` | `RelayIsExact`: nothing is lost, repeated or reordered in a live session, buffers are bounded |
| `WatchStaysFresh` | `WatchIsFresh`: the epoll masks are up to date between events |
| `NoErrorIsSelfInflicted` | `NoSelfInflictedError`: a session fails only if a connection did |
| **`ProxySessionProofs`**, about `ProxyLifecycle` | |
| `WakeupFdStaysValid` | `WakeupFdValid`: the signal handler writes to no closed descriptor |
| `StopStaysPrompt` | `StopIsPrompt`: no stop is slept through |
| `ExitIsClean` | `CleanExit`: nothing is open at the end |
| `StopStaysFinal` | `StopIsFinal`: a stop that came in the loop is not taken back |
| **`SessionManagerProofs`** | |
| `StoreStaysOrdered` | `StoreOrdered`: bound, one record per address, order of use |
| `ClientsStayIsolated` | `Isolated`: records are not mixed |
| `DropsAreDue` | `DroppedOnlyWhenDue` |
| `DropsAreForGood` | `DroppedForGood` |
| **`AuthManagerProofs`** | |
| `StoresStayOrdered` | `StoresOrdered`: bound and order of pins and counters |
| `GuessesStayLimited` | `GuessLimit`: guesses of an address over all its connections |
| `LockoutStaysTimed` | `LockoutIsTimed`: refused attempts do not prolong a lockout |
| `SpentGuessesEndTheSession` | `NoGuessWhenSpent`: the tarpit's late decision is taken on fresh counters |
| **`PreambleProofs`** | |
| `HandOverStaysExact` | `HandOverIsExact`: no byte lost or doubled |
| `PiecesNeverMatter` | `PiecesDoNotMatter`: the cuts of the stream make no difference |
| `ProxyStaysBelieved` | `ProxyIsBelieved`: the client has the address the proxy wrote |
| **`VfsProofs`** | |
| `TypeCorrect` | `TypeOK` |
| `TreeStaysSound` | `TreeIsSound`: the quota counter is what the dynamic files hold, the limits hold, every node is in a directory |
| `FailuresAreAtomic` | `FailureIsAtomic`: an operation that raises an error has written nothing, `mkdir -p` included |
| `RedirectsRunDown` | `RunsDown`: a round of an endless redirect ends it or leaves it fewer rounds, and no other step gives it more |
| **`ShellProofs`** | |
| `Typing` | `TypeOK` |
| `DepthStaysBalanced` | `DepthBalanced` |
| `CommandsAreLogged` | `EveryCommandLogged`: exactly once |
| `StatusStaysLast` | `StatusIsLast` |
| `ArtifactsStayExact` | `ArtifactsExact` |
| `CacheStaysSound` | `CacheIsSound`: asked once per shell and key, and only answers given to the same line and input are shown |
| `ExitStaysFinal` | `ExitIsFinal` |

### Limiter

The assumptions are those of `RateLimiter`: limits and rates are at least one
(`main.cpp` rejects zero), the burst holds at least one token, leases are a
finite set, and the markers `NoIp` and `NoEntry` are no addresses or entries.

The inductive invariant is `TypeOK /\ LeaseAccounting /\ AdmissionCaps /\
EntryOrder`. The limits alone are not inductive: `try_admit` tests counters, so
one needs that the counters are the number of leases. That in turn needs that an
entry with leases is never erased, which the sweep's test of `active` gives once
`active` is known to be exact. `EntryOrder` (refilled no later than seen, seen no
later than now, tokens within the burst) is what the refinement needs: an entry
that was not seen for `StaleTtl` was not refilled since either, so its level is at least
`StaleTtl * RefillPerTick`, hence full. Two lemmas on cardinalities (`TakeLease`,
`DropLease`) carry the counting, and one lemma per action says what it does to
`Level`. `AdmissionRateBounded` rests on `BudgetInv`: what an address has spent
since the window opened plus what is in its bucket is at most the burst plus what
time has brought.

### Relay

The invariant is `Core(ses) /\ Fresh(ses) /\ BatchInv`. `Core` has for each direction the
equation wire + PROXY line + buffer + kernel = line and stream (`Whole`), and what makes each handler keep it:
nothing is buffered or shut before the backend is connected, the line
waits no longer than that, and a direction is shut only when it has ended and
drained. Handlers are functions of the session that call each other, so
there is a lemma per part of a handler (the send loop, the receive loop, the shutdown
behind them, `finish_connect`, `maybe_complete`), each from `Core` to `Core`, and they are put
together in the order of the code. A destroyed session keeps only that
what went out is a prefix. `Fresh` is lost inside a handler and restored by its
`refresh_events`. `BatchInv` is for the second event of a batch, which is handled when
the session has changed: the failures and ends it reports are still true, so no live
session is destroyed for an error that did not happen.

### Start and stop

`Handled`, `EventfdByPlace` and `TornDown` say for each place in `main`, `run` and
`teardown` whether the handlers are installed, the eventfd is open and published, and sessions are left.
`RunningInRun` says where `running_` may be set and that a stop that found it set has cleared it. Each
step of the thread and the signal, which may come at any place, keep their conjunction together
with `StopIsPrompt`, which is inductive only with them.

### Stores

`LruStoreProofs` shows what each operation of the store does to the set of its
entries and that it keeps `WellOrdered` (one entry per key, at most the bound, ages
not increasing from front to back). `EvictedWhenDue` is the argument about eviction: if every
entry behind one was used since the one was (`Since`) and the store is full, at least the bound of other keys were used since.
`SessionManager` and `AuthManager` then relate the store to the history, which the properties are
stated in: the age of an entry is the time its address was idle, a counter covers the
guesses that were judged, and an address with guesses that count has an entry. Without these, neither
`DroppedOnlyWhenDue` nor `GuessLimit` is inductive, since the code looks only at the store.

`Selected`, the entries at given places, is a recursive function. That such functions exist and what their
values are is shown by descent to a least number (`LeastNumber`, from the well-foundedness of the naturals).

### Preamble

Before the hand-over the buffer is the part of the stream that has arrived and asyncssh has nothing;
after it asyncssh has, with what is still to come, what the whole stream in one piece
would have given it (`Delivered`). The lemmas about `TryHandoff` say that a decision on a prefix of a stream is that on
the stream: a mismatch stays one, and the first line break is the same. The exception is a line longer than
`_PROXY_MAX_LINE`, where the cuts do make a difference and the property says so.
Assumed: the proxy's line fits, the two markers are no addresses, messages are sequences.

### File system

The invariant is `Sound(tree, used)`, with the types of the redirects under way. `Sound` says that the tree is
finite, closed under taking the parent, and has directories for inner nodes (`GoodTree`), that only files count towards the quota
and none of those is too large (`GoodNode`), and that the counter is the sum over the tree, within the limit. `TreeIsSound` alone is not
inductive: that nothing lies below a file is what makes overwriting one safe, and that the root is a directory is what makes
every look-up begin somewhere. Each method has a lemma that it gives a sound
tree and counter, and those it was given if it raises an error (`Keeps`); this covers `touch` and `rmdir`, which `FailureIsAtomic` does not list.

The sum is the library's `MapThenSumSet`, which takes its elements in the order `CHOOSE` gives them. `SumExists` and `SumsAgree`
show that the recursion has a solution over every finite set and only one; from them follow, by descent to a smallest subset (`SmallestSubset`), that the order does
not matter (`CountedAny`), that a set counts for its parts (`CountedSplit`) and that trees with equal
nodes count for the same (`CountedSame`). So `AccountWrite` moves the counter by exactly what the sum changes, and `_release_dynamic_bytes` never has to clamp.

`mkdir -p` is followed round by round (`Walked`): once it has made a directory, nothing in the tree lies below the
place it has reached, so every further place is missing and is made. An error, a file in the way or at the end, thus
comes only while the tree is as it was.

`RunsDown` is the measure behind `StreamEnds`. That a redirect which has yielded is resumed is fairness, and stays with TLC.

Assumed (`LimitAssumption`, `BaseAssumption`): the limits are at least one, the devices are not the root, and `build_honeypot_tree` is
a finite tree with nothing dynamic in it.

### Shell

The invariant is about one shell at a time (`SInv`), except for the answers of the
provider (`Shared`). A step of a shell replaces the top frame of its stack, pushes one or
returns one, and there is a family of lemmas for each; the actions then only supply their
frame. The parts of `SInv`, and the property each is for:

- `WellNested`: who calls whom, and only the frame on top is not waiting. All others need it.
- `DepthOK`: the depth is that of the innermost script on the stack, and each script has saved
  that of the next one out. `DepthBalanced` alone does not say what a script will restore.
- `IdsOK`, `KeptOK`: commands are numbered from the outside in, what is noted is no older than any
  open command, and what the command on top noted is still there until its record has it. This is
  `ArtifactsExact`: an inner command may have replaced the list, but never after the outer one noted something.
- `LogOK`: the commands started are those logged and those open, and not both.
- `StatusOK`: the status is that of the stage before.
- `EndOK`: as long as a frame may start something, what was recorded last did not end it.

`Shared`: a cacheable answer that was told is in the cache under its key, what is in the cache was told
to somebody and reads the same for every request that would find it, no shell asks for what it was told (`AskedOnce`), and
all that is asked for is a request, with the line it is dispatched with. `AskedOnce` needs the
first, since two shells may ask at once and the later answer replaces the earlier. Nothing is assumed of `Joined` or of how
requests are written, so any of them may share a key.

Assumed (`ShellAssumption`, `TextAssumption`): lines are finite sequences of commands and begin with no operator, files are texts,
the operands of `sh -c`, requests and fixed results are lines, requests and results, and the usage codes of `Llm` are exit codes.
The counters of the history start again with each line typed.

### Only model-checked

- Liveness (`EofPropagates`, `SessionEnds`, `BytesDelivered`, `StopTerminates`, `IdleIsForgotten`, `EndIsSeen`,
  `StreamEnds`, `LineEnds`): the prover has no rules for fairness and `ENABLED`.
- `SplitsAgree`: the scans are recursive over the characters of a line.
- The four violated properties, which are false.

## Findings

1. `relay_truncation` (`proxy_server.cpp:601`). A socket reports `EPOLLHUP` when
   its peer has closed and the proxy has shut its own side down. `pump_read` may
   just have stopped at `kMaxBufferBytes` with bytes unread. `on_read_eof` then marks
   the direction as read, which stops all later reads; the buffered part is
   flushed, the session completes, and the unread bytes are lost without an error. The test
   of large payloads (`tests/test_proxy.py:175`) expects `echoed == payload` after the
   client's `write_eof`.
2. `lifecycle_lost_stop` (`proxy_server.cpp:352`). `run` stores `true` in
   `running_` whatever it was. A SIGTERM after the line "running (SIGINT/SIGTERM to stop)"
   and before that store is overwritten, and the proxy goes on. The tests wait for
   the line, send SIGTERM and expect an exit (`tests/test_proxy.py:115`).
3. `sessions_active` (`session_manager.py:94`). `last_seen` moves when a shell
   opens or closes and when a connection ends, not with commands. A shell in steady use
   for longer than the time to live has its record dropped by what `server.py:415` calls idle
   cleanup, and the next shell of the address starts from the baseline tree again.
4. `shell_depth` (`shell.py:1287`). A script on standard input runs at the depth of the
   command, not one deeper, so a file with the line `cat g | sh` in `g` nests until
   Python's `RecursionError`; the limit that "maximum recursion depth exceeded" announces (`shell.py:1215`, expected by
   `tests/test_vfs_shell.py:995` of scripts that run each other) never applies.

Seen while modelling, each part of the models as it is:

- A redirect that fails takes the place of the result of its command, an exit included: `sh b > dir`, where
  `b` exits, leaves the session open.
- Joined arguments have lost their quotes, so two requests may have one cache key: `iptables "-'a'" > /tmp/x` has the argument
  `-'a'` and is kept under `iptables -'a'`, where `iptables -'a'`, with the argument `-a`, finds it (`shell.py:1062`, `shell.py:1321`). The
  run `shell` has this case. Nor is the working directory part of the key, although the provider is told it.
- A completion without choices raises an `IndexError` that nothing catches (`llm.py:556`), which ends the session.
- The device of an endless redirect is read outside the `try`; if it was removed, the error ends the
  session as if the client had left (`shell.py:1167`).
- A cancelled or failed write to the session log loses a record that `record_command` had been given.
- In double quotes the splitters do not know `\"`, and `shlex` does: `echo "a\";b"` is cut in two
  (`shell.py:554`). `SplitsAgree` leaves out lines with such escapes.
- `split_pipeline` on its own would cut `a||b` at the second bar, although its comment says that it leaves `||`
  intact; its only caller never passes such a line.

Two limits of the code are stated in the properties and not as findings: eviction lifts a
lockout early when `max_pins` other addresses have failed since (`GuessLimit` says
so), and a sweep is lossless only under `SweepIsLossless`.

## What is left out

- The accept path with a table of several sessions, event tokens and the leases
  they hold; running out of descriptors in `accept4`.
- A failing `epoll_ctl` in `refresh_events` (`proxy_server.cpp:832`), which is logged and otherwise ignored.
- Time spent inside a handler (`getaddrinfo` blocks the event loop), and the cost of a
  busy loop under level-triggered `EPOLLRDHUP`.
- `read_optional_proxy`, a second reader of the PROXY line that only the tests call.
- The working directory. A closing shell writes its own to the record
  (`server.py:400`), so of two shells of an address the one that closes last decides where the
  next one starts.
- Text: command output, prompts, static tables, hashes and file names of samples, what a log record
  says. They keep no state that interacts with anything. The benchmark script.
- `chmod` and times of the file system; whether a file is executable is a choice in `Shell`.
- Socket utilities and option parsing are part of the modules that use them, by their effect.

## Plan

1. `ProxyServer`: the accept path, several `ProxySession`s by token, each with a lease
   of `RateLimiter`; every destroyed session gives its lease back, no event
   reaches another session.
2. The working directory in `SessionManager`, `canonicalize` and the modes of `chmod` as operators.
