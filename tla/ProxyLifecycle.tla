--------------------------- MODULE ProxyLifecycle ---------------------------
(***************************************************************************)
(* Starting, running and stopping the proxy: main, ProxyServer::run,       *)
(* teardown, and the SIGINT/SIGTERM handler that calls ProxyServer::stop.  *)
(* The process has one thread; a signal handler runs to completion between *)
(* any two steps of that thread, and finds the flags as they are there.    *)
(***************************************************************************)
EXTENDS Naturals

CONSTANTS MaxSignals,   \* bound: signals the environment sends
          MaxSessions   \* bound: sessions open at a time

ASSUME BoundAssumption == MaxSignals \in Nat /\ MaxSessions \in Nat \ {0}

VARIABLES pc,          \* the next step of the thread
          installed,   \* the stop handlers are installed
          g_server,    \* g_server points to the server
          running,     \* running_
          wakeup_raw,  \* wakeup_raw_ holds a descriptor (not -1)
          wakeup_fd,   \* that eventfd is open
          counter,     \* the eventfd is readable
          fds,         \* which of listen_fd_ and epoll_fd_ are open
          sessions,    \* sessions_.size()
          signals,     \* signals sent so far
          promised,    \* history: a signal came after the "running" line
          stopped      \* history: a signal came while running_ was set

loopvars == <<pc, installed, g_server, running, wakeup_raw, wakeup_fd, counter,
              fds, sessions, signals, promised, stopped>>

LoopInit ==
    /\ pc = "init"
    /\ installed = FALSE /\ g_server = FALSE /\ running = FALSE
    /\ wakeup_raw = FALSE /\ wakeup_fd = FALSE /\ counter = FALSE
    /\ fds = {} /\ sessions = 0 /\ signals = 0
    /\ promised = FALSE /\ stopped = FALSE

\* A step of the thread from one place to another.
Goto(from, to) == pc = from /\ pc' = to

socket == <<wakeup_raw, wakeup_fd, counter, fds, sessions>>
flags == <<installed, g_server, running>>
history == <<signals, promised, stopped>>

\* ProxyServer::init, which may fail; main then returns and the destructor runs.
ServerInit ==
    /\ \/ Goto("init", "install") /\ fds' = {"listen"}
       \/ Goto("init", "clear_dtor") /\ UNCHANGED fds
    /\ UNCHANGED <<flags, wakeup_raw, wakeup_fd, counter, sessions, history>>

\* install_stop_handlers; a failure, like --dry-run before it, ends main.
InstallStopHandlers ==
    /\ \/ Goto("install", "publish") /\ installed' = TRUE
       \/ Goto("install", "clear_dtor") /\ UNCHANGED installed
    /\ UNCHANGED <<g_server, running, socket, history>>

Publish ==
    /\ Goto("publish", "announce")
    /\ g_server' = TRUE
    /\ UNCHANGED <<installed, running, socket, history>>

\* The "running (SIGINT/SIGTERM to stop)" line.
Announce ==
    /\ Goto("announce", "arm")
    /\ UNCHANGED <<flags, socket, history>>

\* run: running_.store(true)
Arm ==
    /\ Goto("arm", "setup")
    /\ running' = TRUE
    /\ UNCHANGED <<installed, g_server, socket, history>>

\* Mutation: running_ is set once more when the loop is ready.
SetupRearms ==
    /\ Goto("setup", "recheck")
    /\ running' = TRUE
    /\ fds' = fds \cup {"epoll"}
    /\ wakeup_fd' = TRUE /\ wakeup_raw' = TRUE /\ counter' = FALSE
    /\ UNCHANGED <<installed, g_server, sessions, history>>

\* setup_epoll: publishes the eventfd last; on failure run clears running_ and
\* returns.
SetupEpoll ==
    \/ /\ Goto("setup", "recheck")
       /\ fds' = fds \cup {"epoll"}
       /\ wakeup_fd' = TRUE /\ wakeup_raw' = TRUE /\ counter' = FALSE
       /\ UNCHANGED <<flags, sessions, history>>
    \/ /\ Goto("setup", "unpublish")
       /\ running' = FALSE
       /\ UNCHANGED <<installed, g_server, socket, history>>

Recheck ==
    /\ Goto("recheck", IF running THEN "test" ELSE "clear")
    /\ UNCHANGED <<flags, socket, history>>

\* Mutation: the loop does not look at running_.
LoopForever ==
    /\ Goto("test", "wait")
    /\ UNCHANGED <<flags, socket, history>>

\* while (running_)
LoopTest ==
    /\ Goto("test", IF running THEN "wait" ELSE "disarm")
    /\ UNCHANGED <<flags, socket, history>>

\* epoll_wait: events or the 250 ms timeout, an interruption, or an error that
\* leaves the loop.
LoopWait ==
    /\ \/ Goto("wait", "dispatch")
       \/ Goto("wait", "test")
       \/ Goto("wait", "disarm")
    /\ UNCHANGED <<flags, socket, history>>

\* The handlers of one batch: the eventfd is drained if it was reported (a stop
\* during the batch may have come too late for that), sessions come and go.
Dispatch ==
    /\ Goto("dispatch", "test")
    /\ counter' \in {counter, FALSE}
    /\ sessions' \in {n \in 0..MaxSessions : n <= sessions + 1 /\ sessions <= n + 1}
    /\ UNCHANGED <<flags, wakeup_raw, wakeup_fd, fds, history>>

Disarm ==
    /\ Goto("disarm", "clear")
    /\ running' = FALSE
    /\ UNCHANGED <<installed, g_server, socket, history>>

\* teardown, in three steps a signal can come between; run calls it, and
\* ~ProxyServer again.
TeardownSessions ==
    /\ Goto("clear", "unraw") \/ Goto("clear_dtor", "unraw_dtor")
    /\ sessions' = 0
    /\ UNCHANGED <<flags, wakeup_raw, wakeup_fd, counter, fds, history>>

\* Mutation: the eventfd is closed first, while a signal can still use it.
TeardownClosesFirst ==
    /\ Goto("unraw", "close") \/ Goto("unraw_dtor", "close_dtor")
    /\ wakeup_fd' = FALSE /\ counter' = FALSE
    /\ UNCHANGED <<flags, wakeup_raw, fds, sessions, history>>

\* ... wakeup_raw_ = -1
TeardownRaw ==
    /\ Goto("unraw", "close") \/ Goto("unraw_dtor", "close_dtor")
    /\ wakeup_raw' = FALSE
    /\ UNCHANGED <<flags, wakeup_fd, counter, fds, sessions, history>>

\* Mutation: the listening socket is left open.
TeardownLeaks ==
    /\ Goto("close", "unpublish") \/ Goto("close_dtor", "exited")
    /\ wakeup_fd' = FALSE /\ counter' = FALSE /\ fds' = fds \ {"epoll"}
    /\ UNCHANGED <<flags, wakeup_raw, sessions, history>>

\* ... and the three descriptors.
TeardownFds ==
    /\ Goto("close", "unpublish") \/ Goto("close_dtor", "exited")
    /\ wakeup_fd' = FALSE /\ counter' = FALSE /\ fds' = {}
    /\ UNCHANGED <<flags, wakeup_raw, sessions, history>>

\* main after run
Unpublish ==
    /\ Goto("unpublish", "clear_dtor")
    /\ g_server' = FALSE
    /\ UNCHANGED <<installed, running, socket, history>>

\* Mutation: the loop is not woken.
StopSilently ==
    /\ running' = FALSE
    /\ counter' = counter

\* ProxyServer::stop
Stop ==
    /\ running' = FALSE
    /\ counter' = (wakeup_raw \/ counter)

\* handle_signal, or the default action while it is not installed: the process
\* is killed and the kernel closes everything.
Signal ==
    /\ pc # "exited" /\ signals < MaxSignals
    /\ signals' = signals + 1
    /\ promised' = (promised \/ pc \notin {"init", "install", "publish", "announce"})
    /\ stopped' = (stopped \/ running)
    /\ \/ /\ ~installed
          /\ pc' = "exited" /\ sessions' = 0 /\ fds' = {}
          /\ wakeup_raw' = FALSE /\ wakeup_fd' = FALSE /\ counter' = FALSE
          /\ UNCHANGED flags
       \/ /\ installed /\ g_server /\ Stop
          /\ UNCHANGED <<pc, installed, g_server, wakeup_raw, wakeup_fd, fds, sessions>>
       \/ /\ installed /\ ~g_server
          /\ UNCHANGED <<pc, flags, socket>>

Main ==
    \/ ServerInit \/ InstallStopHandlers \/ Publish \/ Announce \/ Arm
    \/ SetupEpoll \/ Recheck \/ LoopTest \/ LoopWait \/ Dispatch \/ Disarm
    \/ TeardownSessions \/ TeardownRaw \/ TeardownFds \/ Unpublish

LoopNext == Main \/ Signal

\* The thread is never blocked for good: epoll_wait has a timeout.
LoopSpec == LoopInit /\ [][LoopNext]_loopvars /\ WF_loopvars(Main)

-----------------------------------------------------------------------------
\* The signal handler never writes to a closed descriptor: teardown withdraws
\* wakeup_raw_ before it closes the eventfd.
WakeupFdValid == wakeup_raw => wakeup_fd

\* A stop is prompt: the loop never goes to sleep in epoll_wait after a stop
\* without the eventfd being readable, wherever the signal came in.
StopIsPrompt == pc = "wait" /\ ~running => counter

\* A stop that found the server running is final: running_ stays false and the
\* loop takes no further batch, so no client is accepted after the one under way.
StopIsFinal ==
    [][stopped => ~running' /\ (pc # "wait" => pc' # "wait")]_loopvars

\* When the process is gone, no session (hence no lease) and no descriptor is
\* left, on the error paths as well.
CleanExit ==
    pc = "exited" => sessions = 0 /\ fds = {} /\ ~wakeup_fd /\ ~wakeup_raw

\* A SIGTERM that finds running_ set ends the process.
StopTerminates == stopped ~> (pc = "exited")

\* A SIGTERM after the line that says it stops the proxy ends the process.
AnnouncedStopTerminates == promised ~> (pc = "exited")
=============================================================================
