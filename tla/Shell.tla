------------------------------- MODULE Shell --------------------------------
(***************************************************************************)
(* shell.py: the execution of command lines by the shells of one address,  *)
(* with the LLM provider (llm.py), the session log (telemetry.py) and the  *)
(* loop of handle_client (server.py) around them.                          *)
(*                                                                         *)
(* The coroutines of a shell are a stack of frames, innermost last: execute*)
(* and the two splitters below it make one "line" frame, _execute_script_- *)
(* lines a "script" frame, _execute_single_command with _dispatch a "cmd"  *)
(* frame.  One thread runs them all: a shell goes on for as many steps as  *)
(* it takes to its next await, and only then may another one.  They share  *)
(* the files and the LLM cache.                                            *)
(*                                                                         *)
(* A text is a sequence of lines, a line the pipelines that the splitters  *)
(* find in it: commands, each with the operator in front of it (";" for    *)
(* the first).  A command says what to do with its operand, where its      *)
(* output goes and if it is added there; a request also how it was written *)
(* and if a path such as /bin was before its name.  The limits of the file *)
(* system are those of Vfs: here a write succeeds or raises one of its     *)
(* errors.                                                                 *)
(***************************************************************************)
EXTENDS Naturals, Sequences, FiniteSets, Llm

CONSTANTS Shells,          \* shells of the address
          LineOf,          \* the lines there are, split
          Typed,           \* those a client sends
          Comment, Noise,  \* lines of downloads; of error messages and answers
          Binary,          \* lines that no script may contain
          BaseFiles,       \* the files that exist at first, with their text
          Device,          \* the endless device among them
          None,            \* no operand, no redirect
          Uncacheable,     \* _UNCACHEABLE_LLM_COMMANDS
          Unsafe,          \* requests is_safe_llm_argv refuses
          Joined,          \* the text of their arguments with blanks between
          Codes,           \* exit codes in replies of the provider
          MaxScriptDepth,  \* _MAX_SCRIPT_DEPTH
          MaxScriptLines,  \* _MAX_SCRIPT_LINES
          MaxLines,        \* bound: lines sent by all clients
          MaxFrames        \* bound: frames of a shell

Lines == DOMAIN LineOf

Texts == Seq(Lines)

\* CommandResult, or the exception that takes its place.
Results == [out : Texts, code : 0..255, end : {"go", "exit", "raise"}]

ASSUME ShellAssumption ==
    /\ Typed \subseteq Lines /\ Binary \subseteq Lines /\ {Comment, Noise} \subseteq Lines
    /\ LineOf[Comment] = <<>>
    /\ \A l \in Lines : LineOf[l] # <<>> => LineOf[l][1].op = ";"
    /\ \A l \in Lines : \A i \in DOMAIN LineOf[l] :
          LineOf[l][i].cmd.to # Device \* writing to a device changes nothing
    /\ Uncacheable \subseteq Requests /\ Unsafe \subseteq Requests
    /\ DOMAIN Joined = Requests
    /\ MaxScriptDepth \in Nat /\ MaxScriptLines \in Nat
    /\ MaxLines \in Nat /\ MaxFrames \in Nat

ASSUME TextAssumption ==
    /\ \A f \in DOMAIN BaseFiles : BaseFiles[f] \in Texts
    /\ \A l \in Lines : LineOf[l] \in Seq({LineOf[l][i] : i \in DOMAIN LineOf[l]})
    /\ \A l \in Lines : \A i \in DOMAIN LineOf[l] :
          LET c == LineOf[l][i].cmd
          IN  /\ c.do = "fixed" => c.arg \in Results
              /\ c.do = "line" => c.arg \in Lines
              /\ c.do = "request" => c.arg \in Requests

VARIABLES files,    \* the text of the files of the address
          cache,    \* _llm_cache
          mode,     \* of each shell: reading lines, running one command, closed
          stack,    \* its frames
          depth,    \* _script_depth
          notes,    \* _captured_artifacts and _command_extra, by the command
          status,   \* last_exit_code
          typed,    \* lines sent
          started,  \* history: commands begun of the line
          log,      \* history: the commands handed to record_command since then,
                    \* and the latest record
          told      \* history: answers of the provider

shared == <<files, cache, typed, told>>

vars == <<files, cache, mode, stack, depth, notes, status, typed, started, log, told>>

EmptyLog == [ids |-> {}, last |-> [id |-> 0, notes |-> {}, end |-> "go"]]

Result(out, code) == [out |-> out, code |-> code, end |-> "go"]

Nothing == Result(<<>>, 0)

Failure(code) == Result(<<Noise>>, code)

Exit == [Nothing EXCEPT !.end = "exit"]

Raised == [Nothing EXCEPT !.end = "raise"]

LineFrame(l) ==
    [kind |-> "line", line |-> l, rest |-> LineOf[l], last |-> Nothing, out |-> <<>>]

ScriptFrame(text, d, saved) ==
    [kind |-> "script", rest |-> text, last |-> Nothing, out |-> <<>>,
     depth |-> d, saved |-> saved]

CommandFrame(c, stdin, id) ==
    [kind |-> "cmd", cmd |-> c, stdin |-> stdin, id |-> id, at |-> "start", last |-> Nothing,
     kept |-> FALSE]

Top(s) == stack[s][Len(stack[s])]

Below(s) == SubSeq(stack[s], 1, Len(stack[s]) - 1)

InLine(s) == stack[s] # <<>> /\ Top(s).kind = "line"

InScript(s) == stack[s] # <<>> /\ Top(s).kind = "script"

InCommand(s, at) == stack[s] # <<>> /\ Top(s).kind = "cmd" /\ Top(s).at = at

Push(s, frame) == stack' = [stack EXCEPT ![s] = Append(@, frame)]

\* The frame on top becomes f.
Become(s, f) == stack' = [stack EXCEPT ![s] = Append(Below(s), f)]

\* The command on top and its callee: at is the place it waits in.
Call(s, at, frame) ==
    stack' = [stack EXCEPT ![s] = Below(s) \o <<[Top(s) EXCEPT !.at = at], frame>>]

\* A frame gets what it called for back.  Of a pipeline only the last stage is
\* part of the output.
Receive(f, r) ==
    CASE f.kind = "cmd" -> [f EXCEPT !.last = r, !.at = "finish"]
      [] f.kind = "script" -> [f EXCEPT !.last = r, !.out = @ \o r.out]
      [] f.kind = "line" ->
            IF r.end = "go" /\ f.rest # <<>> /\ f.rest[1].op = "|"
            THEN [f EXCEPT !.last = r]
            ELSE [f EXCEPT !.last = r, !.out = @ \o r.out]

\* The frame on top ends, and the one below it gets r.
Return(s, r) ==
    stack' = [stack EXCEPT ![s] = [Below(s) EXCEPT ![Len(stack[s]) - 1] = Receive(@, r)]]

Init ==
    /\ files = BaseFiles
    /\ cache = << >>
    /\ mode \in [Shells -> {"prompt", "command"}]
    /\ stack = [s \in Shells |-> <<>>]
    /\ depth = [s \in Shells |-> 0]
    /\ notes = [s \in Shells |-> {}]
    /\ status = [s \in Shells |-> 0]
    /\ typed = 0
    /\ started = [s \in Shells |-> 0]
    /\ log = [s \in Shells |-> EmptyLog]
    /\ told = [s \in Shells |-> {}]

-----------------------------------------------------------------------------
(***************************************************************************)
(* Lines and scripts.                                                      *)
(***************************************************************************)

\* handle_client: a line arrives, or the command of the request.
EnterLine(s) ==
    \E l \in Typed :
        /\ mode[s] # "closed" /\ stack[s] = <<>> /\ typed < MaxLines
        /\ Push(s, LineFrame(l))
        /\ typed' = typed + 1
        /\ UNCHANGED <<files, cache, mode, depth, notes, status, started, log, told>>

\* handle_client: the client is gone, readline returns nothing.
Hangup(s) ==
    /\ mode[s] = "prompt" /\ stack[s] = <<>>
    /\ mode' = [mode EXCEPT ![s] = "closed"]
    /\ UNCHANGED <<shared, stack, depth, notes, status, started, log>>

\* The loops of execute and _execute_conditionals pass over a pipeline.
Passed(f) ==
    \/ f.rest[1].op = "&&" /\ f.last.code # 0
    \/ f.rest[1].op = "||" /\ f.last.code = 0

\* What follows the pipeline that comes first in a line.
AfterPipeline(rest) ==
    LET stages == {i \in 1..Len(rest) : \A j \in 2..i : rest[j].op = "|"}
    IN  SubSeq(rest, Cardinality(stages) + 1, Len(rest))

LineSkip(s) ==
    /\ InLine(s) /\ Top(s).last.end = "go" /\ Top(s).rest # <<>>
    /\ Passed(Top(s))
    /\ Become(s, [Top(s) EXCEPT !.rest = AfterPipeline(@)])
    /\ UNCHANGED <<shared, mode, depth, notes, status, started, log>>

\* _execute_single_command up to its dispatch.
Start(s, c, stdin) ==
    /\ stack' = [stack EXCEPT ![s] =
                   Below(s) \o <<[Top(s) EXCEPT !.rest = Tail(@)],
                                 CommandFrame(c, stdin, started[s] + 1)>>]
    /\ started' = [started EXCEPT ![s] = @ + 1]
    /\ notes' = [notes EXCEPT ![s] = {}]
    /\ UNCHANGED <<shared, mode, depth, status, log>>

\* _execute_pipeline and its callers: the next stage, with the output of the one
\* before it, or the first stage of a pipeline.
LineRun(s) ==
    /\ InLine(s) /\ Top(s).last.end = "go" /\ Top(s).rest # <<>>
    /\ ~Passed(Top(s))
    /\ LET next == Top(s).rest[1]
       IN  Start(s, next.cmd, IF next.op = "|" THEN Top(s).last.out ELSE <<>>)

\* The end of execute: the line is through, or an exit or an exception ends it.
LineDone(s) ==
    /\ InLine(s) /\ (Top(s).rest = <<>> \/ Top(s).last.end # "go")
    /\ Len(stack[s]) > 1
    /\ Return(s, [Top(s).last EXCEPT !.out = Top(s).out])
    /\ UNCHANGED <<shared, mode, depth, notes, status, started, log>>

\* The same in handle_client, where an exit and an exception end the session, as
\* does the end of a command that was sent without a terminal.
Prompt(s) ==
    /\ InLine(s) /\ (Top(s).rest = <<>> \/ Top(s).last.end # "go")
    /\ Len(stack[s]) = 1
    /\ stack' = [stack EXCEPT ![s] = <<>>]
    /\ mode' = [mode EXCEPT ![s] = IF Top(s).last.end # "go" \/ @ = "command"
                                   THEN "closed" ELSE @]
    /\ started' = [started EXCEPT ![s] = 0]
    /\ log' = [log EXCEPT ![s] = [EmptyLog EXCEPT !.last.end = log[s].last.end]]
    /\ UNCHANGED <<shared, depth, notes, status>>

\* Mutation: an exit ends the line it is in, not the script.
LineAfterExit(s) ==
    /\ InScript(s) /\ Top(s).rest # <<>> /\ Top(s).last.end # "raise"
    /\ LET f == [Top(s) EXCEPT !.rest = Tail(@), !.last.end = "go"]
           l == Top(s).rest[1]
       IN  stack' = [stack EXCEPT ![s] =
                       Below(s) \o IF LineOf[l] = <<>> THEN <<f>> ELSE <<f, LineFrame(l)>>]
    /\ UNCHANGED <<shared, mode, depth, notes, status, started, log>>

\* _execute_script_lines: the next line, unless it is a comment.
ScriptLine(s) ==
    /\ InScript(s) /\ Top(s).rest # <<>> /\ Top(s).last.end = "go"
    /\ LET f == [Top(s) EXCEPT !.rest = Tail(@)]
           l == Top(s).rest[1]
       IN  stack' = [stack EXCEPT ![s] =
                       Below(s) \o IF LineOf[l] = <<>> THEN <<f>> ELSE <<f, LineFrame(l)>>]
    /\ UNCHANGED <<shared, mode, depth, notes, status, started, log>>

\* Mutation: the depth is restored behind the loop, where no exception gets.
DoneUnlessRaised(s) ==
    /\ InScript(s) /\ (Top(s).rest = <<>> \/ Top(s).last.end # "go")
    /\ Return(s, [Top(s).last EXCEPT !.out = Top(s).out])
    /\ depth' = [depth EXCEPT ![s] = IF Top(s).last.end = "raise" THEN @ ELSE Top(s).saved]
    /\ UNCHANGED <<shared, mode, notes, status, started, log>>

\* The end of _execute_script_lines, with its finally.
ScriptDone(s) ==
    /\ InScript(s) /\ (Top(s).rest = <<>> \/ Top(s).last.end # "go")
    /\ Return(s, [Top(s).last EXCEPT !.out = Top(s).out])
    /\ depth' = [depth EXCEPT ![s] = Top(s).saved]
    /\ UNCHANGED <<shared, mode, notes, status, started, log>>

-----------------------------------------------------------------------------
(***************************************************************************)
(* Simple commands, as _dispatch runs them.                                *)
(***************************************************************************)
With(f, k, v) == [x \in DOMAIN f \cup {k} |-> IF x = k THEN v ELSE f[x]]

Without(f, k) == [x \in DOMAIN f \ {k} |-> f[x]]

Runs(s, do) == InCommand(s, "start") /\ Top(s).cmd.do = do

Operand(s) == Top(s).cmd.arg

Settle(s, r) == Become(s, Receive(Top(s), r))

\* _quarantine, where the sample may fail to be saved, and what _exec_trap notes.
\* The shell keeps it for the record; kept is history.
Note(s, saved) ==
    notes' = [notes EXCEPT ![s] = IF saved THEN @ \cup {Top(s).id} ELSE @]

SettleNoted(s, r, saved) ==
    Become(s, [Receive(Top(s), r) EXCEPT !.kept = saved]) /\ Note(s, saved)

Quiet(s) == UNCHANGED <<mode, depth, status, typed, started, log>>

\* A line that does not tokenize, and every command whose result depends on
\* nothing that is modelled: handlers, static outputs, unknown names, exit.
RunFixed(s) ==
    /\ Runs(s, "fixed")
    /\ Settle(s, Operand(s))
    /\ Quiet(s) /\ UNCHANGED <<files, cache, told, notes>>

RunCat(s) ==
    /\ Runs(s, "cat")
    /\ Settle(s, CASE Operand(s) = None -> Result(Top(s).stdin, 0)
                   [] Operand(s) \in DOMAIN files -> Result(files[Operand(s)], 0)
                   [] OTHER -> Failure(1))
    /\ Quiet(s) /\ UNCHANGED <<files, cache, told, notes>>

RunRm(s) ==
    /\ Runs(s, "rm")
    /\ Settle(s, IF Operand(s) \in DOMAIN files THEN Nothing ELSE Failure(1))
    /\ files' = Without(files, Operand(s))
    /\ Quiet(s) /\ UNCHANGED <<cache, told, notes>>

\* wget, curl: into a file, which may fail, or to the output.
RunFetch(s) ==
    \E written, saved \in BOOLEAN :
        /\ Runs(s, "fetch")
        /\ IF written
           THEN /\ files' = IF Operand(s) = None THEN files
                            ELSE With(files, Operand(s), <<Comment>>)
                /\ SettleNoted(s, Result(<<IF Operand(s) = None THEN Comment ELSE Noise>>, 0),
                               saved)
           ELSE /\ Operand(s) # None
                /\ Settle(s, Failure(1))
                /\ UNCHANGED <<files, notes>>
        /\ Quiet(s) /\ UNCHANGED <<cache, told>>

\* _exec_trap: nothing is executed; a file that could be is noted.
RunTrap(s) ==
    \E executable \in BOOLEAN :
        /\ Runs(s, "trap")
        /\ executable => Operand(s) \in DOMAIN files
        /\ SettleNoted(s, CASE executable -> Nothing
                            [] ~executable /\ Operand(s) \in DOMAIN files -> Failure(126)
                            [] OTHER -> Failure(127), executable)
        /\ Quiet(s) /\ UNCHANGED <<files, cache, told>>

\* sh -c: the line is executed at the depth the command is at.
RunLine(s) ==
    /\ Runs(s, "line")
    /\ Call(s, "inner", LineFrame(Operand(s)))
    /\ Quiet(s) /\ UNCHANGED <<files, cache, told, notes>>

\* _execute_script_lines up to its loop.
EnterScript(s, text, d) ==
    /\ IF d > MaxScriptDepth \/ Len(text) > MaxScriptLines
       THEN Settle(s, Failure(1)) /\ UNCHANGED depth
       ELSE /\ Call(s, "inner", ScriptFrame(text, d, depth[s]))
            /\ depth' = [depth EXCEPT ![s] = d]
    /\ UNCHANGED <<shared, mode, notes, status, started, log>>

\* _is_binary_script
IsBinary(text) == \E i \in DOMAIN text : text[i] \in Binary

\* sh with a file.
RunScript(s) ==
    /\ Runs(s, "script")
    /\ CASE Operand(s) \notin DOMAIN files ->
               /\ Settle(s, Failure(127))
               /\ Quiet(s) /\ UNCHANGED <<files, cache, told, notes>>
         [] Operand(s) \in DOMAIN files /\ IsBinary(files[Operand(s)]) ->
               /\ Settle(s, Failure(126))
               /\ Quiet(s) /\ UNCHANGED <<files, cache, told, notes>>
         [] OTHER -> EnterScript(s, files[Operand(s)], depth[s] + 1)

\* sh without one: a script on standard input runs at the same depth.
RunStdin(s) ==
    /\ Runs(s, "stdin") /\ Len(stack[s]) < MaxFrames
    /\ IF Top(s).stdin = <<>>
       THEN /\ Settle(s, Nothing)
            /\ Quiet(s) /\ UNCHANGED <<files, cache, told, notes>>
       ELSE EnterScript(s, Top(s).stdin, depth[s])

Show(sim) == Result(<<Noise>>, sim.code)

\* The line a request is dispatched with: as it was written, but its arguments
\* joined if there is a redirect or a path to drop.  As shlex has taken the quotes
\* away by then, requests with other arguments may have the same line.
DispatchLine(c) == IF c.to = None /\ ~c.path THEN c.raw ELSE Joined[c.arg]

\* cache_key, for lines without the NUL that separates the two parts.
CacheKey(s) == <<DispatchLine(Top(s).cmd), Top(s).stdin>>

\* _is_cacheable_llm_command
Cacheable(q) == q \notin Uncacheable

\* An allow-listed program: a usage error, a cached answer, or a request.
RunRequest(s) ==
    /\ Runs(s, "request")
    /\ CASE Operand(s) \in Unsafe -> Settle(s, Show(Usage(Operand(s))))
         [] /\ Operand(s) \notin Unsafe
            /\ Cacheable(Operand(s)) /\ CacheKey(s) \in DOMAIN cache ->
               Settle(s, Show(FromJson(cache[CacheKey(s)], Operand(s))))
         [] OTHER -> Become(s, [Top(s) EXCEPT !.at = "asking"])
    /\ Quiet(s) /\ UNCHANGED <<files, cache, told, notes>>

\* The await of generate_response is over.
Answered(s, sim) ==
    /\ InCommand(s, "asking")
    /\ Settle(s, Show(sim))
    /\ cache' = IF Cacheable(Operand(s))
                THEN With(cache, CacheKey(s), ToJson(sim)) ELSE cache
    /\ told' = [told EXCEPT ![s] = @ \cup {<<CacheKey(s), sim>>}]
    /\ Quiet(s) /\ UNCHANGED <<files, notes>>

\* The provider replies in time.
Replied(s) ==
    /\ InCommand(s, "asking")
    /\ \E r \in Replies(Codes) : Answered(s, Answer(r, Operand(s)))

\* Mutation: the request is repeated when its time is up.
TimeoutRetries(s) == InCommand(s, "asking") /\ UNCHANGED vars

\* The time of wait_for is up, the connection fails, or there is no content:
\* NullLLMProvider and GroqProvider give the usage error.  It is cached, too.
NotReplied(s) ==
    /\ InCommand(s, "asking")
    /\ Answered(s, Usage(Operand(s)))

\* A completion without choices: the IndexError is not caught.
NoChoices(s) ==
    /\ InCommand(s, "asking")
    /\ Settle(s, Raised)
    /\ Quiet(s) /\ UNCHANGED <<files, cache, told, notes>>

\* A round of the loop of _stream_infinite_redirect up to its await; last holds
\* what was read of the device.  The chunks make one line, which no script may
\* contain.
StreamRound(s, chunk) ==
    /\ Become(s, [Top(s) EXCEPT !.at = "stream", !.last = chunk])
    /\ files' = With(files, Top(s).cmd.to, chunk.out)

\* _stream_infinite_redirect: the device is read, outside of any try, and the
\* first chunk is written, which may fail.
RunEndless(s) ==
    /\ Runs(s, "endless")
    /\ IF Device \in DOMAIN files
       THEN \/ StreamRound(s, Result(files[Device], 0))
            \/ Settle(s, Failure(1)) /\ UNCHANGED files
       ELSE Settle(s, Raised) /\ UNCHANGED files
    /\ Quiet(s) /\ UNCHANGED <<cache, told, notes>>

StreamChunk(s) ==
    /\ InCommand(s, "stream")
    /\ StreamRound(s, Top(s).last)
    /\ Quiet(s) /\ UNCHANGED <<cache, told, notes>>

\* A write raised an error, or the loop ran out of rounds, which it does after
\* a while: StreamEnds of Vfs.
StreamOver(s) ==
    /\ InCommand(s, "stream")
    /\ Settle(s, Failure(1))
    /\ Quiet(s) /\ UNCHANGED <<files, cache, told, notes>>

-----------------------------------------------------------------------------
(***************************************************************************)
(* The end of _execute_single_command.                                     *)
(***************************************************************************)

\* record_command copies the artifacts and hands the record to a thread.
Submit(s, r, saved, ns) ==
    /\ Become(s, [Top(s) EXCEPT !.last = r, !.at = "record", !.kept = @ \/ saved])
    /\ log' = [log EXCEPT ![s] = [ids |-> @.ids \cup {Top(s).id},
                                  last |-> [id |-> Top(s).id, notes |-> ns, end |-> r.end]]]
    /\ UNCHANGED <<cache, mode, depth, status, typed, started, told>>

Redirects(c) == c.to # None /\ c.do # "endless"

\* The files after a redirect, > or >>.
Overwritten(c, text) ==
    With(files, c.to, IF c.more /\ c.to \in DOMAIN files THEN files[c.to] \o text ELSE text)

\* Mutation: the record is written where the result is returned.
FinishUnlessRaised(s) ==
    /\ InCommand(s, "finish")
    /\ Redirects(Top(s).cmd) => Top(s).last.end = "raise"
    /\ IF Top(s).last.end = "raise"
       THEN Return(s, Top(s).last)
            /\ UNCHANGED <<cache, mode, depth, status, typed, started, told, log>>
       ELSE Submit(s, Top(s).last, FALSE, notes[s])
    /\ UNCHANGED <<files, notes>>

\* Without a redirect; with one if an exception passes it by.
Finish(s) ==
    /\ InCommand(s, "finish")
    /\ Redirects(Top(s).cmd) => Top(s).last.end = "raise"
    /\ Submit(s, Top(s).last, FALSE, notes[s])
    /\ UNCHANGED <<files, notes>>

\* Mutation: the record is made before the output is redirected.
FinishEarly(s) ==
    \E written, saved \in BOOLEAN :
        /\ InCommand(s, "finish")
        /\ Redirects(Top(s).cmd) /\ Top(s).last.end # "raise"
        /\ files' = IF written THEN Overwritten(Top(s).cmd, Top(s).last.out) ELSE files
        /\ Note(s, written /\ saved)
        /\ Submit(s, IF written THEN [Top(s).last EXCEPT !.out = <<>>] ELSE Failure(1),
                  written /\ saved, notes[s])

\* _apply_redirection.  A failed one takes the place of the result, an exit
\* included; the sample of what was written may fail to be saved.
FinishRedirected(s) ==
    \E written, saved \in BOOLEAN :
        /\ InCommand(s, "finish")
        /\ Redirects(Top(s).cmd) /\ Top(s).last.end # "raise"
        /\ files' = IF written THEN Overwritten(Top(s).cmd, Top(s).last.out) ELSE files
        /\ Note(s, written /\ saved)
        /\ Submit(s, IF written THEN [Top(s).last EXCEPT !.out = <<>>] ELSE Failure(1),
                  written /\ saved, notes'[s])

\* Mutation: only a command that fails sets the exit status.
StatusOfFailures(s) ==
    /\ InCommand(s, "record")
    /\ Return(s, Top(s).last)
    /\ status' = IF Top(s).last.code = 0 THEN status
                 ELSE [status EXCEPT ![s] = Top(s).last.code]
    /\ UNCHANGED <<shared, mode, depth, notes, started, log>>

\* The record is written, or could not be, which is only a warning.
Recorded(s) ==
    /\ InCommand(s, "record")
    /\ Return(s, Top(s).last)
    /\ status' = IF Top(s).last.end = "raise" THEN status
                 ELSE [status EXCEPT ![s] = Top(s).last.code]
    /\ UNCHANGED <<shared, mode, depth, notes, started, log>>

\* The server shuts down: the task is cancelled in the await it is in.
Cancel(s) ==
    /\ \/ /\ InCommand(s, "asking") \/ InCommand(s, "stream")
          /\ Settle(s, Raised)
       \/ /\ InCommand(s, "record") /\ Top(s).last.end # "raise"
          /\ Become(s, [Top(s) EXCEPT !.last = Raised])
    /\ Quiet(s) /\ UNCHANGED <<files, cache, told, notes>>

\* What the event loop runs without any help from outside.
Step(s) ==
    \/ LineSkip(s)
    \/ LineRun(s)
    \/ LineDone(s)
    \/ Prompt(s)
    \/ ScriptLine(s)
    \/ ScriptDone(s)
    \/ RunFixed(s)
    \/ RunCat(s)
    \/ RunRm(s)
    \/ RunFetch(s)
    \/ RunTrap(s)
    \/ RunLine(s)
    \/ RunScript(s)
    \/ RunStdin(s)
    \/ RunRequest(s)
    \/ RunEndless(s)
    \/ StreamChunk(s)
    \/ StreamOver(s)
    \/ NotReplied(s)
    \/ Finish(s)
    \/ FinishRedirected(s)
    \/ Recorded(s)

\* Of the event loop: no other shell is on its way to an await.
Scheduled(s) ==
    \A t \in Shells \ {s} :
        stack[t] = <<>> \/ \E at \in {"asking", "stream", "record"} : InCommand(t, at)

Next ==
    \E s \in Shells :
        /\ Scheduled(s)
        /\ \/ Step(s)
           \/ EnterLine(s)
           \/ Hangup(s)
           \/ Replied(s)
           \/ NoChoices(s)
           \/ Cancel(s)

\* The event loop resumes what is ready, and wait_for ends a request.
Spec == Init /\ [][Next]_vars /\ \A s \in Shells : WF_vars(Scheduled(s) /\ Step(s))

-----------------------------------------------------------------------------
Scripts(s) == {i \in DOMAIN stack[s] : stack[s][i].kind = "script"}

\* The commands that are begun and not yet recorded.
Open(s) == {stack[s][i].id : i \in {j \in DOMAIN stack[s] :
                /\ stack[s][j].kind = "cmd"
                /\ stack[s][j].at # "record"}}

Callers(kind) ==
    CASE kind = "cmd" -> {"line"} [] kind = "script" -> {"cmd"} [] OTHER -> {"script", "cmd"}

\* The state is well formed: lines and scripts call commands, commands lines
\* and scripts, and no exit status ever leaves its byte.
TypeOK ==
    /\ \A f \in DOMAIN files : files[f] \in Texts
    /\ mode \in [Shells -> {"prompt", "command", "closed"}]
    /\ depth \in [Shells -> Nat] /\ status \in [Shells -> 0..255]
    /\ typed \in 0..MaxLines
    /\ \A s \in Shells :
         /\ started[s] \in Nat /\ notes[s] \subseteq Nat
         /\ \A i \in DOMAIN stack[s] :
              LET f == stack[s][i]
              IN  /\ f.last \in Results
                  /\ i = 1 => f.kind = "line"
                  /\ i > 1 => stack[s][i - 1].kind \in Callers(f.kind)
                  /\ f.kind = "cmd" =>
                        (f.at = "inner" <=> i < Len(stack[s]))

\* Every simple command, however deep in scripts, is handed to the session log
\* once, also if an exit, an error or a shutdown ends everything around it (the
\* finally of _execute_single_command).
EveryCommandLogged ==
    \A s \in Shells :
        /\ Open(s) \cap log[s].ids = {}
        /\ Open(s) \cup log[s].ids = 1..started[s]

\* A sample that was saved is named in the record of the command that saved it,
\* although the list is a field of the shell, which every nested command
\* replaces, and a redirect adds to it after a whole script has run.
ArtifactsRecorded ==
    \A s \in Shells :
        InCommand(s, "record") /\ Top(s).kept => Top(s).id \in log[s].last.notes

\* No record names a sample of a command that came before: only its own and
\* those of the scripts it ran.
NoStrayArtifacts ==
    \A s \in Shells : \A id \in log[s].last.notes : id >= log[s].last.id

\* Both: a record has the artifacts of its command and no stale ones.
ArtifactsExact == ArtifactsRecorded /\ NoStrayArtifacts

\* The depth of the next line.
DepthBelow(s, i) ==
    LET scripts == {j \in Scripts(s) : j < i}
    IN  IF scripts = {} THEN 0
        ELSE stack[s][CHOOSE j \in scripts : \A k \in scripts : k <= j].depth

\* _script_depth is the depth of the innermost script that runs and 0 at the
\* prompt, however the scripts before it ended; so the limit neither gives way
\* nor creeps up on a client in the course of a session.
DepthBalanced ==
    \A s \in Shells :
        /\ depth[s] = DepthBelow(s, Len(stack[s]) + 1)
        /\ depth[s] <= MaxScriptDepth
        /\ \A i \in Scripts(s) : stack[s][i].saved = DepthBelow(s, i)

\* Between two commands of a line, $? is the exit code that && and || look at,
\* across nested scripts, failed redirects and cached answers.
StatusIsLast ==
    \A s \in Shells :
        InLine(s) /\ Top(s).last.end = "go" /\ Top(s).rest # LineOf[Top(s).line]
            => status[s] = Top(s).last.code

\* A shell that has had an answer to keep for a line and its input never asks with
\* them again, whatever the other shells of the address do to the cache meanwhile.
AskedOnce ==
    \A s \in Shells :
        InCommand(s, "asking") /\ Cacheable(Operand(s))
            => \A answer \in told[s] :
                  Cacheable(answer[2].of) => answer[1] # CacheKey(s)

\* The commands that are requests.
Asking ==
    {c \in UNION {{LineOf[l][i].cmd : i \in DOMAIN LineOf[l]} : l \in Lines} :
        c.do = "request"}

\* The arguments that are dispatched with a line: one list, or several.
Dispatched(text) == {c.arg : c \in {d \in Asking : DispatchLine(d) = text}}

\* What a hit shows, to whichever of the requests with that line, is an answer that
\* one of them was given, by the provider or in its place, with the same input:
\* reading the JSON back never fails, and never shows a conversation or a code
\* outside of its range.
HitRepeats ==
    /\ \A s \in Shells : \A answer \in told[s] :
          answer[2] \in Simulations /\ answer[2].of \in Dispatched(answer[1][1])
    /\ \A key \in DOMAIN cache : \A q \in Dispatched(key[1]) :
          \E s \in Shells : <<key, FromJson(cache[key], q)>> \in told[s]

\* Both: the cache shared by the shells of an address saves the question, and what
\* it shows was an answer to the line, if not always to the same arguments.
CacheIsSound == AskedOnce /\ HitRepeats

\* After an exit or an error nothing else is run, neither by the scripts it was
\* in nor by a new line; only a redirect of the script that fails replaces an
\* exit by its own error, and then that was recorded last.
ExitIsFinal ==
    [][\A s \in Shells :
         started'[s] > started[s] \/ (stack[s] = <<>> /\ stack'[s] # <<>>)
             => log[s].last.end = "go"]_vars

\* A line comes to its end, even if the provider never answers.
LineEnds == \A s \in Shells : (stack[s] # <<>>) ~> (stack[s] = <<>>)

\* The limit on nested scripts that the message "maximum recursion depth
\* exceeded" announces, counted on the real stack.
NestingBounded == \A s \in Shells : Cardinality(Scripts(s)) <= MaxScriptDepth
=============================================================================
