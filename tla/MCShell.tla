------------------------------- MODULE MCShell ------------------------------
EXTENDS Shell, CommandLine

Cmd(do, arg) ==
    [do |-> do, arg |-> arg, to |-> "none", more |-> FALSE, raw |-> "none", path |-> FALSE]

\* A request as it was written.
Ask(arg, raw) == [Cmd("request", arg) EXCEPT !.raw = raw]

AskByPath(arg, raw) == [Ask(arg, raw) EXCEPT !.path = TRUE]

To(c, f) == [c EXCEPT !.to = f]

Onto(c, f) == [c EXCEPT !.to = f, !.more = TRUE]

First(c) == [op |-> ";", cmd |-> c]

Then(op, c) == [op |-> op, cmd |-> c]

\* f runs itself, g downloads something to itself, b exits half way, h is one
\* line too long.
MCFiles == [f |-> <<"again">>, g |-> <<"get">>, b |-> <<"out", "noise">>,
            h |-> <<"#", "#", "#">>, dev |-> <<"zeros">>]

MCLineOf ==
    [x \in {"#", "noise", "zeros", "get", "again", "bye", "out", "nest", "feed", "ask",
            "leave", "wipe", "fill", "self"} |->
        CASE x = "#" -> <<>>
          [] x \in {"noise", "zeros"} -> <<First(Cmd("fixed", Failure(127)))>>
          \* wget -O g
          [] x = "get" -> <<First(Cmd("fetch", "g"))>>
          \* sh f
          [] x = "again" -> <<First(Cmd("script", "f"))>>
          [] x = "bye" -> <<First(Cmd("fixed", Exit))>>
          \* sh f > g || sh h && cat g
          [] x = "nest" -> <<First(To(Cmd("script", "f"), "g")),
                             Then("||", Cmd("script", "h")), Then("&&", Cmd("cat", "g"))>>
          \* cat g | sh > f
          [] x = "feed" -> <<First(Cmd("cat", "g")), Then("|", To(Cmd("stdin", "none"), "f"))>>
          \* iptables -'a' && timedatectl || /sbin/iptables "-'a'" > f
          [] x = "ask" -> <<First(Ask("iptables -a", "iptables -'a'")),
                            Then("&&", Ask("timedatectl", "timedatectl")),
                            Then("||", To(AskByPath("iptables -'a'", "/sbin/iptables \"-'a'\""), "f"))>>
          \* sh -c exit
          [] x = "out" -> <<First(Cmd("line", "bye"))>>
          \* sh b >> f; sh | cat
          [] x = "leave" -> <<First(Onto(Cmd("script", "b"), "f")), First(Cmd("stdin", "none")),
                              Then("|", Cmd("cat", "none"))>>
          \* rm dev; curl | iptables '!'
          [] x = "wipe" -> <<First(Cmd("rm", "dev")), First(Cmd("fetch", "none")),
                             Then("|", Ask("iptables !", "iptables '!'"))>>
          \* cat dev > f || ./f
          [] x = "fill" -> <<First(To(Cmd("endless", "dev"), "f")), Then("||", Cmd("trap", "f"))>>
          \* cat g | sh
          [] OTHER -> <<First(Cmd("cat", "g")), Then("|", Cmd("stdin", "none"))>>]

\* g feeds itself to a shell.
MCSelfFiles == [g |-> <<"self">>, dev |-> <<"zeros">>]

MCUsage == [q \in Requests |-> 1]

\* A request is named by its arguments, joined.
MCJoined == [q \in Requests |-> q]

MCCodes == {-1, 0, 256}

MCAlphabet == {"a", " ", ";", "&", "|", "'", "\"", "\\"}

\* The three scans, each starting afresh on the stripped fragments of the one
\* before, cut a line where one scan with shlex's idea of quotes and escapes does:
\* no operator that a command was to have as text ends it, and none is missed.
\* Lines with escapes in double quotes are the exception.  The fact is about lines
\* alone, so it is enough to look at it in one state, before the first is sent.
SplitsAgree ==
    typed = 0 /\ (\A s \in Shells : mode[s] = "prompt")
        => \A line \in ShortLines :
              ~EscapesInQuotes(line) => Commands(line) = Reference(line)
=============================================================================
