--------------------------- MODULE SessionManager ---------------------------
(***************************************************************************)
(* session_manager.py and the places of server.py that use it: what a      *)
(* client address keeps between connections (file system, LLM cache,       *)
(* working directory), who holds it, and when it is dropped.               *)
(*                                                                         *)
(* A record is a Python object: a shell keeps a reference to the record it *)
(* was opened with even when the store has dropped it.  The asyncio loop   *)
(* runs one callback at a time, and the methods never await, so each is a  *)
(* step.  What a record holds (files, cache, working directory) is left    *)
(* out: the question here is which record a shell works on.                *)
(***************************************************************************)
EXTENDS LruStore, FiniteSets

CONSTANTS IPs, NoIp, Shells,
          MaxSessions,   \* max_sessions
          Ttl,           \* ttl_seconds
          MaxRecords     \* bound: records created

ASSUME BoundAssumption ==
    /\ MaxSessions \in Nat \ {0}
    /\ Ttl \in Nat
    /\ MaxRecords \in Nat \ {0}
ASSUME NoIpAssumption == NoIp \notin IPs

VARIABLES store,    \* _sessions: entries [key, rec, age]
          recs,     \* the IpSession objects created so far, by the address they serve
          shell,    \* handle_client per channel: client_ip and record
          linked,   \* addresses with an SSH connection
          used,     \* history: addresses used since an address was last used
          idle,     \* history: time since an address connected or left
          busy      \* history: addresses that ran a command since the clock moved

vars == <<store, recs, shell, linked, used, idle, busy>>

NoShell == [ip |-> NoIp, rec |-> 0]

TypeOK ==
    /\ store \in Seq([key : IPs, rec : 1..MaxRecords, age : 0..Ttl + 1])
    /\ recs \in Seq(IPs)
    /\ shell \in [Shells -> [ip : IPs \cup {NoIp}, rec : 0..MaxRecords]]
    /\ linked \subseteq IPs
    /\ used \in [IPs -> SUBSET IPs]
    /\ idle \in [IPs -> 0..Ttl + 1]
    /\ busy \subseteq IPs

Init ==
    /\ store = <<>>
    /\ recs = <<>>
    /\ shell = [s \in Shells |-> NoShell]
    /\ linked = {}
    /\ used = [ip \in IPs |-> {}]
    /\ idle = [ip \in IPs |-> Ttl + 1]
    /\ busy = {}

Open == {s \in Shells : shell[s].ip # NoIp}

\* Mutation: last_seen is set without move_to_end.
TouchInPlace(st, ip) ==
    [i \in DOMAIN st |-> IF st[i].key = ip THEN [st[i] EXCEPT !.age = 0] ELSE st[i]]

\* touch: refreshes the record now stored for ip, if any.
Touch(st, ip) ==
    IF ip \in Keys(st) THEN Refresh(st, Entry(st, ip)) ELSE st

\* The history of a use of ip, if it refreshed an entry of the store.
Used(ip) ==
    IF ip \in Keys(store')
    THEN /\ used' = [j \in IPs |-> IF j = ip THEN {} ELSE used[j] \cup {ip}]
         /\ idle' = [idle EXCEPT ![ip] = 0]
    ELSE UNCHANGED <<used, idle>>

\* connection_made; the record is not looked up before a channel is opened.
ConnectionMade(ip) ==
    /\ linked' = linked \cup {ip}
    /\ UNCHANGED <<store, recs, shell, used, idle, busy>>

\* Mutation: a known address is given the least recently used record.
OpenOldest(s, ip) ==
    LET kept == Purge(store, Ttl)
        known == ip \in Keys(kept)
        new == Len(recs) + 1
    IN  /\ ip \in linked
        /\ s \notin Open
        /\ known \/ Len(recs) < MaxRecords
        /\ recs' = IF known THEN recs ELSE Append(recs, ip)
        /\ store' = IF known THEN Touch(kept, ip)
                    ELSE Append(MakeRoom(kept, MaxSessions),
                                [key |-> ip, rec |-> new, age |-> 0])
        /\ shell' = [shell EXCEPT ![s] =
                        [ip |-> ip, rec |-> IF known THEN kept[1].rec ELSE new]]
        /\ Used(ip)
        /\ UNCHANGED <<linked, busy>>

\* handle_client up to its first await: get_or_create, and a shell on the record.
OpenShell(s, ip) ==
    LET kept == Purge(store, Ttl)
        known == ip \in Keys(kept)
        new == Len(recs) + 1
    IN  /\ ip \in linked
        /\ s \notin Open
        /\ known \/ Len(recs) < MaxRecords
        /\ recs' = IF known THEN recs
                   ELSE Append(recs, ip)
        /\ store' = IF known THEN Touch(kept, ip)
                    ELSE Append(MakeRoom(kept, MaxSessions),
                                [key |-> ip, rec |-> new, age |-> 0])
        /\ shell' = [shell EXCEPT ![s] =
                        [ip |-> ip,
                         rec |-> IF known THEN Entry(kept, ip).rec ELSE new]]
        /\ Used(ip)
        /\ UNCHANGED <<linked, busy>>

\* A command line; it may write to the record, and the store hears nothing of it.
Command(s) ==
    /\ s \in Open
    /\ busy' = busy \cup {shell[s].ip}
    /\ UNCHANGED <<store, recs, shell, linked, used, idle>>

\* Mutation: a closing shell stores its record again.
CloseRestores(s) ==
    LET ip == shell[s].ip
    IN  /\ s \in Open
        /\ store' = IF ip \in Keys(store) THEN Touch(store, ip)
                    ELSE Append(MakeRoom(store, MaxSessions),
                                [key |-> ip, rec |-> shell[s].rec, age |-> 0])
        /\ shell' = [shell EXCEPT ![s] = NoShell]
        /\ Used(ip)
        /\ UNCHANGED <<recs, linked, busy>>

\* The finally clause of handle_client.
CloseShell(s) ==
    LET ip == shell[s].ip
    IN  /\ s \in Open
        /\ store' = Touch(store, ip)
        /\ shell' = [shell EXCEPT ![s] = NoShell]
        /\ Used(ip)
        /\ UNCHANGED <<recs, linked, busy>>

\* connection_lost; the shells of the connection close before or after it, and
\* the address may have another connection.
ConnectionLost(ip) ==
    /\ ip \in linked
    /\ linked' \in {linked, linked \ {ip}}
    /\ store' = Touch(store, ip)
    /\ Used(ip)
    /\ UNCHANGED <<recs, shell, busy>>

\* Mutation: the sweep only looks when the store is full.
SweepWhenFull ==
    /\ store' = IF Len(store) >= MaxSessions THEN Purge(store, Ttl) ELSE store
    /\ UNCHANGED <<recs, shell, linked, used, idle, busy>>

\* One round of _periodic_sweep.
Sweep ==
    /\ store' = Purge(store, Ttl)
    /\ UNCHANGED <<recs, shell, linked, used, idle, busy>>

Later(n) == IF n > Ttl THEN n ELSE n + 1

Tick ==
    /\ store' = Older(store, Ttl)
    /\ idle' = [ip \in IPs |-> Later(idle[ip])]
    /\ busy' = {}
    /\ UNCHANGED <<recs, shell, linked, used>>

Next ==
    \/ \E ip \in IPs : ConnectionMade(ip)
    \/ \E ip \in IPs : ConnectionLost(ip)
    \/ \E s \in Shells, ip \in IPs : OpenShell(s, ip)
    \/ \E s \in Shells : Command(s)
    \/ \E s \in Shells : CloseShell(s)
    \/ Sweep
    \/ Tick

Spec == Init /\ [][Next]_vars

\* Time passes, and asyncio.sleep returns, so the sweep runs again and again.
LiveSpec == Spec /\ WF_vars(Sweep) /\ WF_vars(Tick)

-----------------------------------------------------------------------------
\* The store stays within its bound, holds one record per address, and evicts
\* in the order of last use, whatever touch, get_or_create and sweep did to it.
StoreOrdered == WellOrdered(store, MaxSessions)

\* A shell works on, and the store hands out, only records created for the same
\* address: no interleaving of eviction and reconnects mixes two clients.
Isolated ==
    /\ \A s \in Open : recs[shell[s].rec] = shell[s].ip
    /\ \A i \in DOMAIN store : recs[store[i].rec] = store[i].key

\* State survives a reconnect: a record is dropped only when its address was
\* not used for more than the time to live, or when as many other addresses as
\* the store holds were used since.
DroppedOnlyWhenDue ==
    [][\A ip \in IPs :
         ip \in Keys(store) /\ ip \notin Keys(store') =>
             \/ idle[ip] > Ttl
             \/ Cardinality(used'[ip]) >= MaxSessions]_vars

\* A record the store has dropped never comes back, though shells that still
\* hold it write to it and touch the address when they close.
DroppedForGood ==
    [][\A i \in DOMAIN store' :
         store'[i].rec <= Len(recs) =>
             \E j \in DOMAIN store : store[j].rec = store'[i].rec]_vars

\* An address that stays away is forgotten, also when nobody else connects.
IdleIsForgotten ==
    \A ip \in IPs : []<>(idle[ip] = 0) \/ []<>(ip \notin Keys(store))

\* The periodic sweep removes idle addresses: one that has run a command at this
\* very moment keeps its record.
SweepSparesActive ==
    [][\A ip \in busy :
         Sweep /\ ip \in Keys(store) => ip \in Keys(store')]_vars
=============================================================================
