-------------------------- MODULE AdmissionControl --------------------------
(***************************************************************************)
(* What the proxy's rate limiter promises, with none of its machinery: a   *)
(* caller is admitted exactly when the proxy has room, its address has     *)
(* room, and the address' token bucket holds a whole token.  The bucket    *)
(* here is never forgotten and is refilled as time passes; the code        *)
(* (RateLimiter) refills lazily, keeps counters, and erases entries.       *)
(*                                                                         *)
(* Tokens are counted in units: TokenCost units make one token, so that    *)
(* a refill of less than a token per clock tick stays an integer.          *)
(***************************************************************************)
EXTENDS Integers, FiniteSets

CONSTANTS IPs, Leases, NoIp, MaxConnections, MaxPerIp,
          TokensMax, RefillPerTick, TokenCost

VARIABLES lease,     \* the address each lease counts for, NoIp when it is empty
          level,     \* units in the bucket of each address
          verdict    \* the answer of the latest request

acvars == <<lease, level, verdict>>

HeldBy(ip) == {l \in Leases : lease[l] = ip}

Held == {l \in Leases : lease[l] # NoIp}

Least(a, b) == IF a <= b THEN a ELSE b

NoVerdict == [ip |-> NoIp, admitted |-> FALSE]

Admissible(ip) ==
    /\ Cardinality(Held) < MaxConnections
    /\ Cardinality(HeldBy(ip)) < MaxPerIp
    /\ level[ip] >= TokenCost

ACInit ==
    /\ lease = [l \in Leases |-> NoIp]
    /\ level = [ip \in IPs |-> TokensMax]
    /\ verdict = NoVerdict

ACAdmit(ip, l) ==
    /\ lease[l] = NoIp
    /\ Admissible(ip)
    /\ lease' = [lease EXCEPT ![l] = ip]
    /\ level' = [level EXCEPT ![ip] = @ - TokenCost]
    /\ verdict' = [ip |-> ip, admitted |-> TRUE]

ACRefuse(ip) ==
    /\ ~Admissible(ip)
    /\ verdict' = [ip |-> ip, admitted |-> FALSE]
    /\ UNCHANGED <<lease, level>>

ACRelease(l) ==
    /\ lease[l] # NoIp
    /\ lease' = [lease EXCEPT ![l] = NoIp]
    /\ UNCHANGED <<level, verdict>>

ACTick ==
    /\ level' = [ip \in IPs |-> Least(TokensMax, level[ip] + RefillPerTick)]
    /\ UNCHANGED <<lease, verdict>>

ACNext ==
    \/ \E ip \in IPs, l \in Leases : ACAdmit(ip, l)
    \/ \E ip \in IPs : ACRefuse(ip)
    \/ \E l \in Leases : ACRelease(l)
    \/ ACTick

ACSpec == ACInit /\ [][ACNext]_acvars
=============================================================================
