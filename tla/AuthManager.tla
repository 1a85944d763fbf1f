---------------------------- MODULE AuthManager -----------------------------
(***************************************************************************)
(* auth.py and the authentication callbacks of HoneypotServer (server.py): *)
(* a password pinned to each client address, a failure counter with a      *)
(* lockout per address, both in bounded stores with a time to live, and    *)
(* the tarpit a failed login waits in while everything else goes on.       *)
(*                                                                         *)
(* validate_login does not await before its counters are settled, so that  *)
(* part is one step; the tarpit ends in a second step, which looks at the  *)
(* lockout again.  Whether a guess equals the pinned password is an input: *)
(* what the password is plays no part in the control.                      *)
(***************************************************************************)
EXTENDS LruStore, FiniteSets

CONSTANTS IPs, NoIp, Conns,
          MaxAttempts,   \* max_attempts
          MaxPins,       \* max_pins, the bound of both stores
          PinTtl,        \* ttl_seconds
          AttemptTtl,    \* attempt_ttl_seconds
          Tarpit         \* tarpit_seconds

\* The checks of AuthManager.__init__.
ASSUME LimitAssumption ==
    /\ MaxAttempts \in Nat \ {0}
    /\ MaxPins \in Nat \ {0}
    /\ PinTtl \in Nat /\ AttemptTtl \in Nat /\ Tarpit \in Nat
ASSUME NoIpAssumption == NoIp \notin IPs

VARIABLES pins,      \* _pins: entries [key, age]
          attempts,  \* _attempts: entries [key, age, count]
          conn,      \* a HoneypotServer per connection
          tries,     \* history: failed guesses of an address that were judged, up to
                     \* one past the limit
          quiet,     \* history: time since the latest of them
          others     \* history: addresses that failed since then

vars == <<pins, attempts, conn, tries, quiet, others>>

history == <<tries, quiet, others>>

NoConn == [ip |-> NoIp, phase |-> "free", limit |-> FALSE, left |-> 0]

TypeOK ==
    /\ pins \in Seq([key : IPs, age : 0..PinTtl + 1])
    /\ attempts \in Seq([key : IPs, age : 0..AttemptTtl + 1, count : 1..MaxAttempts])
    /\ conn \in [Conns -> [ip : IPs \cup {NoIp},
                           phase : {"free", "idle", "tarpit", "kick", "granting", "in"},
                           limit : BOOLEAN, left : 0..Tarpit]]
    /\ tries \in [IPs -> 0..MaxAttempts + 1]
    /\ quiet \in [IPs -> 0..AttemptTtl + 1]
    /\ others \in [IPs -> SUBSET IPs]

Init ==
    /\ pins = <<>>
    /\ attempts = <<>>
    /\ conn = [c \in Conns |-> NoConn]
    /\ tries = [ip \in IPs |-> 0]
    /\ quiet = [ip \in IPs |-> AttemptTtl + 1]
    /\ others = [ip \in IPs |-> {}]

\* get_or_pin_password
GetOrPin(ip) ==
    LET kept == Purge(pins, PinTtl)
        room == IF ip \in Keys(kept) THEN kept ELSE MakeRoom(kept, MaxPins)
    IN  Refresh(room, [key |-> ip, age |-> 0])

LockedIn(st, ip) == ip \in Keys(st) /\ Entry(st, ip).count >= MaxAttempts

\* Mutation: the bound of the store is not applied to the failures.
RegisterUnbounded(st, ip) ==
    IF ip \in Keys(st)
    THEN Refresh(st, [Entry(st, ip) EXCEPT !.count = @ + 1])
    ELSE Append(st, [key |-> ip, age |-> 0, count |-> 1])

\* _register_failure_unlocked
RegisterFailure(st, ip) ==
    IF ip \in Keys(st)
    THEN Refresh(st, [Entry(st, ip) EXCEPT !.count = @ + 1])
    ELSE Append(MakeRoom(st, MaxPins), [key |-> ip, age |-> 0, count |-> 1])

\* Mutation: a new connection starts with a clean record.
ConnectionForgives(c, ip) ==
    /\ conn[c].phase = "free"
    /\ conn' = [conn EXCEPT ![c] = [NoConn EXCEPT !.ip = ip, !.phase = "idle"]]
    /\ pins' = GetOrPin(ip)
    /\ attempts' = Delete(attempts, ip)
    /\ UNCHANGED history

\* connection_made: create_session pins a password for the address.
ConnectionMade(c, ip) ==
    /\ conn[c].phase = "free"
    /\ conn' = [conn EXCEPT ![c] = [NoConn EXCEPT !.ip = ip, !.phase = "idle"]]
    /\ pins' = GetOrPin(ip)
    /\ attempts' = Purge(attempts, AttemptTtl)
    /\ UNCHANGED history

\* connection_lost in any phase; a callback that resumes later finds no
\* connection and does nothing.
ConnectionLost(c) ==
    /\ conn[c].phase # "free"
    /\ conn' = [conn EXCEPT ![c] = NoConn]
    /\ UNCHANGED <<pins, attempts, history>>

\* What every login does to the pins: only root has its password looked up.
PinsAfterLogin(ip, root) == IF root THEN GetOrPin(ip) ELSE Purge(pins, PinTtl)

InTarpit(c, limit) ==
    [conn EXCEPT ![c].phase = "tarpit", ![c].limit = limit, ![c].left = Tarpit]

\* Mutation: a refused login prolongs the lockout.
LockedProlonged(c, root) ==
    LET ip == conn[c].ip
        kept == Purge(attempts, AttemptTtl)
    IN  /\ conn[c].phase = "idle"
        /\ LockedIn(kept, ip)
        /\ pins' = PinsAfterLogin(ip, root)
        /\ attempts' = Refresh(kept, Entry(kept, ip))
        /\ conn' = InTarpit(c, TRUE)
        /\ UNCHANGED history

\* A login while the address is locked out is refused whatever the guess; the
\* record's last_seen is left alone.
LoginLocked(c, root) ==
    LET ip == conn[c].ip
        kept == Purge(attempts, AttemptTtl)
    IN  /\ conn[c].phase = "idle"
        /\ LockedIn(kept, ip)
        /\ pins' = PinsAfterLogin(ip, root)
        /\ attempts' = kept
        /\ conn' = InTarpit(c, TRUE)
        /\ UNCHANGED history

\* The right password for root: the failures are forgotten.
LoginAccepted(c) ==
    LET ip == conn[c].ip
        kept == Purge(attempts, AttemptTtl)
    IN  /\ conn[c].phase = "idle"
        /\ ~LockedIn(kept, ip)
        /\ pins' = PinsAfterLogin(ip, TRUE)
        /\ attempts' = Delete(kept, ip)
        /\ conn' = [conn EXCEPT ![c].phase = "granting"]
        /\ tries' = [tries EXCEPT ![ip] = 0]
        /\ others' = [others EXCEPT ![ip] = {}]
        /\ UNCHANGED quiet

\* The history of a failure of ip.  The store keeps MaxPins addresses: once that
\* many others have failed, the failures of an address are forgiven.
Judged(ip) ==
    LET after(j) == IF tries[j] = 0 THEN {} ELSE others[j] \cup {ip}
        forgiven(j) == Cardinality(after(j)) >= MaxPins
    IN  /\ tries' = [j \in IPs |->
                       CASE j = ip -> IF tries[j] > MaxAttempts THEN tries[j]
                                      ELSE tries[j] + 1
                         [] j # ip /\ forgiven(j) -> 0
                         [] OTHER -> tries[j]]
        /\ others' = [j \in IPs |-> IF j = ip \/ forgiven(j) THEN {} ELSE after(j)]
        /\ quiet' = [quiet EXCEPT ![ip] = 0]

\* A wrong password, or a user other than root.
LoginFailed(c, root) ==
    LET ip == conn[c].ip
        kept == Purge(attempts, AttemptTtl)
        counted == RegisterFailure(kept, ip)
    IN  /\ conn[c].phase = "idle"
        /\ ~LockedIn(kept, ip)
        /\ pins' = PinsAfterLogin(ip, root)
        /\ attempts' = counted
        /\ conn' = InTarpit(c, LockedIn(counted, ip))
        /\ Judged(ip)

\* The telemetry of an accepted login is written, and the client is in.
Granted(c) ==
    /\ conn[c].phase = "granting"
    /\ conn' = [conn EXCEPT ![c].phase = "in"]
    /\ UNCHANGED <<pins, attempts, history>>

\* Mutation: the outcome of the login decides, as it was before the tarpit.
TarpitOwnLimit(c) ==
    /\ conn[c].phase = "tarpit" /\ conn[c].left = 0
    /\ pins' = Purge(pins, PinTtl)
    /\ attempts' = Purge(attempts, AttemptTtl)
    /\ conn' = [conn EXCEPT ![c].limit = FALSE,
                            ![c].phase = IF conn[c].limit THEN "kick" ELSE "idle"]
    /\ UNCHANGED history

\* The tarpit is over: validate_password asks is_locked_out anew, not the
\* outcome of the login, and schedules the disconnect.
TarpitOver(c) ==
    /\ conn[c].phase = "tarpit" /\ conn[c].left = 0
    /\ pins' = Purge(pins, PinTtl)
    /\ attempts' = Purge(attempts, AttemptTtl)
    /\ conn' = [conn EXCEPT ![c].limit = FALSE,
                            ![c].phase = IF LockedIn(attempts', conn[c].ip)
                                         THEN "kick" ELSE "idle"]
    /\ UNCHANGED history

\* _disconnect_auth_limit, run by call_soon.
DisconnectAuthLimit(c) ==
    /\ conn[c].phase = "kick"
    /\ conn' = [conn EXCEPT ![c] = NoConn]
    /\ UNCHANGED <<pins, attempts, history>>

\* AuthManager.sweep, from _periodic_sweep.
Sweep ==
    /\ pins' = Purge(pins, PinTtl)
    /\ attempts' = Purge(attempts, AttemptTtl)
    /\ UNCHANGED <<conn, history>>

\* The clock.
Tick ==
    /\ pins' = Older(pins, PinTtl)
    /\ attempts' = Older(attempts, AttemptTtl)
    /\ conn' = [c \in Conns |->
                  IF conn[c].left > 0
                  THEN [conn[c] EXCEPT !.left = @ - 1] ELSE conn[c]]
    /\ quiet' = [ip \in IPs |->
                   IF quiet[ip] > AttemptTtl THEN quiet[ip] ELSE quiet[ip] + 1]
    /\ tries' = [ip \in IPs |-> IF quiet'[ip] > AttemptTtl THEN 0 ELSE tries[ip]]
    /\ others' = [ip \in IPs |-> IF quiet'[ip] > AttemptTtl THEN {} ELSE others[ip]]

Next ==
    \/ \E c \in Conns, ip \in IPs : ConnectionMade(c, ip)
    \/ \E c \in Conns : ConnectionLost(c)
    \/ \E c \in Conns, root \in BOOLEAN : LoginLocked(c, root)
    \/ \E c \in Conns : LoginAccepted(c)
    \/ \E c \in Conns, root \in BOOLEAN : LoginFailed(c, root)
    \/ \E c \in Conns : Granted(c)
    \/ \E c \in Conns : TarpitOver(c)
    \/ \E c \in Conns : DisconnectAuthLimit(c)
    \/ Sweep
    \/ Tick

Spec == Init /\ [][Next]_vars

-----------------------------------------------------------------------------
\* Both stores stay bounded, with one record per address, in the order of use.
StoresOrdered == WellOrdered(pins, MaxPins) /\ WellOrdered(attempts, MaxPins)

\* An address gets max_attempts guesses, over all its connections together,
\* until one succeeds, the attempt time to live has passed without a failure, or
\* max_pins other addresses have failed since: reconnecting or guessing from
\* several connections at once buys none.
GuessLimit == \A ip \in IPs : tries[ip] <= MaxAttempts

\* A connection comes out of the tarpit to another guess only if its address
\* has guesses left by then, whichever of its connections used them up while
\* this one was waiting; otherwise it is disconnected.
NoGuessWhenSpent ==
    [][\A c \in Conns :
         conn[c].phase = "tarpit" /\ conn'[c].phase = "idle"
             => tries[conn[c].ip] < MaxAttempts]_vars

\* A lockout is over attempt_ttl_seconds after the last guess that was judged,
\* however often the address tries meanwhile: refused attempts do not prolong it.
LockoutIsTimed ==
    \A ip \in IPs : LockedIn(Purge(attempts, AttemptTtl), ip) => quiet[ip] <= AttemptTtl
=============================================================================
