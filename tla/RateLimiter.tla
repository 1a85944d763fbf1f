---------------------------- MODULE RateLimiter -----------------------------
(***************************************************************************)
(* proxy/src/rate_limiter.cpp: the connection limiter of the proxy.  One   *)
(* entry per client address with the number of live connections and a      *)
(* lazily refilled token bucket, a global counter, RAII leases that give   *)
(* the slots back, and a sweep that erases idle entries.  The event loop   *)
(* is the only thread, so each call is one step; the clock moves between   *)
(* calls.                                                                  *)
(***************************************************************************)
EXTENDS Integers, FiniteSets

CONSTANTS IPs, Leases, NoIp, NoEntry, MaxConnections, MaxPerIp,
          TokensMax, RefillPerTick, TokenCost,
          SweepInterval, StaleTtl, MaxTime

ASSUME LeaseAssumption == IsFiniteSet(Leases)

ASSUME IpAssumption == NoIp \notin IPs

\* parse_args (main.cpp) accepts only limits of at least 1.
ASSUME LimitAssumption ==
    /\ MaxConnections \in Nat \ {0}
    /\ MaxPerIp \in Nat \ {0}
    /\ RefillPerTick \in Nat \ {0}
    /\ TokenCost \in Nat \ {0}
    /\ TokensMax \in Nat
    /\ TokenCost <= TokensMax

ASSUME TimeAssumption ==
    /\ SweepInterval \in Nat
    /\ StaleTtl \in Nat
    /\ MaxTime \in Nat \ {0}

VARIABLES entries,        \* entries_: an IpEntry per address, or NoEntry
          active_global,  \* active_global_
          last_sweep,     \* last_sweep_, 0 until the first sweep
          lease,          \* the address of each Lease object, NoIp when empty
          verdict,        \* what the latest try_admit returned
          now             \* the steady clock

vars == <<entries, active_global, last_sweep, lease, verdict, now>>

IpEntry == [active : Nat, tokens : Nat, last_refill : Nat, last_seen : Nat]

ASSUME EntryAssumption == NoEntry \notin IpEntry

TypeOK ==
    /\ entries \in [IPs -> IpEntry \cup {NoEntry}]
    /\ active_global \in Nat
    /\ last_sweep \in Nat
    /\ lease \in [Leases -> IPs \cup {NoIp}]
    /\ verdict \in [ip : IPs \cup {NoIp}, admitted : BOOLEAN]
    /\ now \in 1..MaxTime

HeldBy(ip) == {l \in Leases : lease[l] = ip}

Held == {l \in Leases : lease[l] # NoIp}

Least(a, b) == IF a <= b THEN a ELSE b

Init ==
    /\ entries = [ip \in IPs |-> NoEntry]
    /\ active_global = 0
    /\ last_sweep = 0
    /\ lease = [l \in Leases |-> NoIp]
    /\ verdict = [ip |-> NoIp, admitted |-> FALSE]
    /\ now = 1

\* refill: the tokens an entry would hold at the present time.
Refilled(e) ==
    LET elapsed == IF now < e.last_refill THEN 0 ELSE now - e.last_refill
    IN  Least(TokensMax, e.tokens + elapsed * RefillPerTick)

\* Mutation: a refused request leaves last_refill behind, and is refilled again.
TouchedTwice(ip) ==
    LET e == entries[ip]
    IN  IF e = NoEntry
        THEN [active |-> 0, tokens |-> TokensMax,
              last_refill |-> now, last_seen |-> now]
        ELSE [active |-> e.active, tokens |-> Refilled(e),
              last_refill |-> e.last_refill, last_seen |-> now]

\* try_emplace, then either a full bucket or a refill; last_seen either way.
Touched(ip) ==
    LET e == entries[ip]
    IN  IF e = NoEntry
        THEN [active |-> 0, tokens |-> TokensMax,
              last_refill |-> now, last_seen |-> now]
        ELSE [active |-> e.active, tokens |-> Refilled(e),
              last_refill |-> now, last_seen |-> now]

\* The global check comes first: no entry is created or refreshed.
RefuseGlobal(ip) ==
    /\ active_global >= MaxConnections
    /\ verdict' = [ip |-> ip, admitted |-> FALSE]
    /\ UNCHANGED <<entries, active_global, last_sweep, lease, now>>

RefusePerIp(ip) ==
    /\ active_global < MaxConnections
    /\ \/ Touched(ip).active >= MaxPerIp
       \/ Touched(ip).tokens < TokenCost
    /\ entries' = [entries EXCEPT ![ip] = Touched(ip)]
    /\ verdict' = [ip |-> ip, admitted |-> FALSE]
    /\ UNCHANGED <<active_global, last_sweep, lease, now>>

\* The end of try_admit: one token and one slot, held by a Lease.
TakeSlot(ip, l) ==
    /\ entries' = [entries EXCEPT ![ip] =
                     [active |-> Touched(ip).active + 1,
                      tokens |-> Touched(ip).tokens - TokenCost,
                      last_refill |-> now, last_seen |-> now]]
    /\ active_global' = active_global + 1
    /\ lease' = [lease EXCEPT ![l] = ip]
    /\ verdict' = [ip |-> ip, admitted |-> TRUE]
    /\ UNCHANGED <<last_sweep, now>>

\* Mutation: the bucket is not tested.
AdmitUnmetered(ip, l) ==
    /\ lease[l] = NoIp
    /\ active_global < MaxConnections
    /\ Touched(ip).active < MaxPerIp
    /\ TakeSlot(ip, l)

\* Mutation: > for >= in the test of max_per_ip.
AdmitOneMore(ip, l) ==
    /\ lease[l] = NoIp
    /\ active_global < MaxConnections
    /\ Touched(ip).active <= MaxPerIp
    /\ Touched(ip).tokens >= TokenCost
    /\ TakeSlot(ip, l)

\* try_admit when every test is passed.
Admit(ip, l) ==
    /\ lease[l] = NoIp
    /\ active_global < MaxConnections
    /\ Touched(ip).active < MaxPerIp
    /\ Touched(ip).tokens >= TokenCost
    /\ TakeSlot(ip, l)

\* release on an entry: both decrements are clamped at zero in the code.
Released(e) ==
    [active |-> IF e.active > 0 THEN e.active - 1 ELSE 0,
     tokens |-> e.tokens, last_refill |-> e.last_refill, last_seen |-> now]

\* ~Lease: a failed open_backend or set_watch in spawn_session, a destroyed
\* session, teardown.
Release(l) ==
    /\ lease[l] # NoIp
    /\ active_global' = IF active_global > 0 THEN active_global - 1 ELSE 0
    /\ entries' = [ip \in IPs |->
                     IF ip = lease[l] /\ entries[ip] # NoEntry
                     THEN Released(entries[ip]) ELSE entries[ip]]
    /\ lease' = [lease EXCEPT ![l] = NoIp]
    /\ UNCHANGED <<last_sweep, verdict, now>>

\* Mutation: entries are erased with connections still open.
StaleThoughActive(e) == now - e.last_seen >= StaleTtl

\* Mutation: the wrong one of the two intervals.
StaleTooSoon(e) == e.active = 0 /\ now - e.last_seen >= SweepInterval

\* The condition of sweep_stale.
Stale(e) == e.active = 0 /\ now - e.last_seen >= StaleTtl

SweepDue == last_sweep = 0 \/ now - last_sweep >= SweepInterval

\* maybe_sweep; a call before SweepInterval has passed changes nothing.
MaybeSweep ==
    /\ SweepDue
    /\ last_sweep' = now
    /\ entries' = [ip \in IPs |->
                     IF entries[ip] # NoEntry /\ Stale(entries[ip])
                     THEN NoEntry ELSE entries[ip]]
    /\ UNCHANGED <<active_global, lease, verdict, now>>

Tick ==
    /\ now < MaxTime
    /\ now' = now + 1
    /\ UNCHANGED <<entries, active_global, last_sweep, lease, verdict>>

Next ==
    \/ \E ip \in IPs : RefuseGlobal(ip)
    \/ \E ip \in IPs : RefusePerIp(ip)
    \/ \E ip \in IPs, l \in Leases : Admit(ip, l)
    \/ \E l \in Leases : Release(l)
    \/ MaybeSweep
    \/ Tick

Spec == Init /\ [][Next]_vars

-----------------------------------------------------------------------------
(***************************************************************************)
(* The correctness of the limiter.                                         *)
(***************************************************************************)

\* The connections an address is charged for; an erased entry charges none.
Active(ip) == IF entries[ip] = NoEntry THEN 0 ELSE entries[ip].active

\* What the bucket of an address is worth now, the lazy refill included.
Level(ip) ==
    IF entries[ip] = NoEntry THEN TokensMax ELSE Refilled(entries[ip])

\* Every counter equals the number of leases that are really out: no path
\* through admission, release and the sweep loses or duplicates a slot, the
\* clamps in release never act, and an entry with a live lease is never erased.
LeaseAccounting ==
    /\ active_global = Cardinality(Held)
    /\ \A ip \in IPs : Active(ip) = Cardinality(HeldBy(ip))

\* Neither the whole proxy nor one address ever holds more connections than
\* configured (max_connections_, max_per_ip_).
AdmissionCaps ==
    /\ Cardinality(Held) <= MaxConnections
    /\ \A ip \in IPs : Cardinality(HeldBy(ip)) <= MaxPerIp

\* The times an entry carries are ordered, and its bucket is never overdrawn
\* or overfull; with this an idle entry is old enough to be forgotten.
EntryOrder ==
    /\ last_sweep <= now
    /\ \A ip \in IPs : entries[ip] # NoEntry =>
        /\ entries[ip].last_refill <= entries[ip].last_seen
        /\ entries[ip].last_seen <= now
        /\ entries[ip].tokens \in 0..TokensMax

\* Erasing an idle entry is invisible only when an empty bucket would be full
\* again after StaleTtl.  The defaults (burst 15, 10 tokens/s, 30 s) satisfy it.
SweepIsLossless == TokensMax <= StaleTtl * RefillPerTick

\* The limiter implements the promise of AdmissionControl: every verdict is the
\* one a limiter with exact, never forgotten buckets would have given.
AC == INSTANCE AdmissionControl WITH level <- [ip \in IPs |-> Level(ip)]

ImplementsAdmissionControl == AC!ACSpec
=============================================================================
