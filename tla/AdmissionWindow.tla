--------------------------- MODULE AdmissionWindow --------------------------
(***************************************************************************)
(* RateLimiter with a history: at any moment an observer may start to      *)
(* count, and from then on counts the units each address is charged.  The  *)
(* limiter itself is unchanged.                                            *)
(***************************************************************************)
EXTENDS RateLimiter

VARIABLES opened,   \* when the observation window was opened
          spent     \* units charged to each address since then

wvars == <<vars, opened, spent>>

WInit == Init /\ opened = now /\ spent = [ip \in IPs |-> 0]

OpenWindow ==
    /\ opened' = now
    /\ spent' = [ip \in IPs |-> 0]
    /\ UNCHANGED vars

WAdmit ==
    \E ip \in IPs, l \in Leases :
        /\ Admit(ip, l)
        /\ spent' = [spent EXCEPT ![ip] = @ + TokenCost]
        /\ UNCHANGED opened

WOther ==
    /\ \/ \E ip \in IPs : RefuseGlobal(ip)
       \/ \E ip \in IPs : RefusePerIp(ip)
       \/ \E l \in Leases : Release(l)
       \/ MaybeSweep
       \/ Tick
    /\ UNCHANGED <<opened, spent>>

WNext == OpenWindow \/ WAdmit \/ WOther

WSpec == WInit /\ [][WNext]_wvars

\* In any window of w ticks an address is admitted at most burst + w * rate
\* times (here in units), however admissions, releases and sweeps interleave.
WindowBound ==
    \A ip \in IPs : spent[ip] <= TokensMax + (now - opened) * RefillPerTick

\* The inductive form: what is still in the bucket counts as spendable.
BudgetInv ==
    /\ opened \in 1..now
    /\ spent \in [IPs -> Nat]
    /\ \A ip \in IPs :
         spent[ip] + Level(ip) <= TokensMax + (now - opened) * RefillPerTick
=============================================================================
