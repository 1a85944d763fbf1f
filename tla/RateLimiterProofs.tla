------------------------- MODULE RateLimiterProofs --------------------------
(***************************************************************************)
(* The connection limiter is correct for every number of addresses,        *)
(* leases, limits and clock readings.                                      *)
(***************************************************************************)
EXTENDS AdmissionWindow, FiniteSetTheorems, TLAPS

\* The inductive invariant: the counters are exact, hence within the limits
\* the guards of try_admit test, and the times of an entry are ordered.
IInv == TypeOK /\ LeaseAccounting /\ AdmissionCaps /\ EntryOrder

-----------------------------------------------------------------------------
\* Taking a free lease adds it to the sets of held leases, and to no other
\* address (the Lease constructed at the end of try_admit).
LEMMA TakeLease ==
    ASSUME TypeOK, NEW ip \in IPs, NEW l \in Leases,
           lease[l] = NoIp, lease' = [lease EXCEPT ![l] = ip]
    PROVE  /\ Cardinality(Held') = Cardinality(Held) + 1
           /\ Cardinality(HeldBy(ip)') = Cardinality(HeldBy(ip)) + 1
           /\ \A j \in IPs \ {ip} : HeldBy(j)' = HeldBy(j)
<1>1. IsFiniteSet(Held) /\ IsFiniteSet(HeldBy(ip))
  BY LeaseAssumption, FS_Subset DEF Held, HeldBy
<1>2. l \notin Held /\ l \notin HeldBy(ip)
  BY IpAssumption DEF Held, HeldBy
<1>3. Held' = Held \cup {l}
  BY IpAssumption DEF Held, TypeOK
<1>4. HeldBy(ip)' = HeldBy(ip) \cup {l}
  BY DEF HeldBy, TypeOK
<1>5. \A j \in IPs \ {ip} : HeldBy(j)' = HeldBy(j)
  BY IpAssumption DEF HeldBy, TypeOK
<1> QED BY <1>1, <1>2, <1>3, <1>4, <1>5, FS_AddElement

\* Emptying a held lease removes it from the sets it was in (~Lease).
LEMMA DropLease ==
    ASSUME TypeOK, NEW l \in Leases,
           lease[l] # NoIp, lease' = [lease EXCEPT ![l] = NoIp]
    PROVE  /\ lease[l] \in IPs
           /\ Cardinality(Held') = Cardinality(Held) - 1
           /\ Cardinality(HeldBy(lease[l])) > 0
           /\ Cardinality(Held) > 0
           /\ \A j \in IPs : Cardinality(HeldBy(j)') =
                IF j = lease[l] THEN Cardinality(HeldBy(j)) - 1
                                ELSE Cardinality(HeldBy(j))
<1> DEFINE ip == lease[l]
<1>0. ip \in IPs
  BY DEF TypeOK
<1>1. IsFiniteSet(Held) /\ IsFiniteSet(HeldBy(ip))
  BY LeaseAssumption, FS_Subset DEF Held, HeldBy
<1>2. l \in Held /\ l \in HeldBy(ip)
  BY DEF Held, HeldBy
<1>3. Held' = Held \ {l}
  BY DEF Held, TypeOK
<1>4. \A j \in IPs : HeldBy(j)' = IF j = ip THEN HeldBy(j) \ {l} ELSE HeldBy(j)
  BY <1>0, IpAssumption DEF HeldBy, TypeOK
<1>5. /\ Cardinality(Held \ {l}) = Cardinality(Held) - 1
      /\ Cardinality(HeldBy(ip) \ {l}) = Cardinality(HeldBy(ip)) - 1
  BY <1>1, <1>2, FS_RemoveElement
<1>6. Cardinality(Held) > 0 /\ Cardinality(HeldBy(ip)) > 0
  <2>1. Held # {} /\ HeldBy(ip) # {}
    BY <1>2
  <2>2. Cardinality(Held) \in Nat /\ Cardinality(HeldBy(ip)) \in Nat
    BY <1>1, FS_CardinalityType
  <2> QED BY <2>1, <2>2, <1>1, FS_EmptySet
<1> QED BY <1>0, <1>3, <1>4, <1>5, <1>6

\* The counts the limiter compares are natural numbers.
LEMMA CountType ==
    /\ Cardinality(Held) \in Nat
    /\ \A ip \in IPs : Cardinality(HeldBy(ip)) \in Nat
<1>1. IsFiniteSet(Held) /\ \A ip \in IPs : IsFiniteSet(HeldBy(ip))
  BY LeaseAssumption, FS_Subset DEF Held, HeldBy
<1> QED BY <1>1, FS_CardinalityType

\* Multiplication by the refill rate keeps and orders natural numbers, the
\* one nonlinear fact the bucket needs.
LEMMA RefillMonotone ==
    ASSUME NEW a \in Nat, NEW b \in Nat, a <= b
    PROVE  /\ a * RefillPerTick \in Nat
           /\ a * RefillPerTick <= b * RefillPerTick
           /\ (a + 1) * RefillPerTick = a * RefillPerTick + RefillPerTick
BY LimitAssumption

\* Refilling keeps a bucket within its size and never takes tokens away.
LEMMA RefilledType ==
    ASSUME TypeOK, EntryOrder, NEW ip \in IPs, entries[ip] # NoEntry
    PROVE  /\ Refilled(entries[ip]) \in 0..TokensMax
           /\ entries[ip] \in IpEntry
           /\ now - entries[ip].last_refill \in Nat
           /\ Refilled(entries[ip]) =
                Least(TokensMax, entries[ip].tokens +
                        (now - entries[ip].last_refill) * RefillPerTick)
<1>1. entries[ip] \in IpEntry
  BY DEF TypeOK
<1>2. /\ now - entries[ip].last_refill \in Nat
      /\ entries[ip].tokens \in 0..TokensMax
  BY <1>1 DEF TypeOK, EntryOrder, IpEntry
<1> DEFINE d == now - entries[ip].last_refill
<1>3. d * RefillPerTick \in Nat
  BY <1>2, RefillMonotone
<1>4. Refilled(entries[ip]) =
         Least(TokensMax, entries[ip].tokens + d * RefillPerTick)
  BY <1>1, <1>2 DEF Refilled, IpEntry, TypeOK
<1> HIDE DEF d
<1>5. Refilled(entries[ip]) \in 0..TokensMax
  BY <1>2, <1>3, <1>4, LimitAssumption DEF Least
<1> QED BY <1>1, <1>2, <1>4, <1>5 DEF d

\* What try_admit leaves in the entry before it decides.
LEMMA TouchedType ==
    ASSUME TypeOK, EntryOrder, NEW ip \in IPs
    PROVE  /\ Touched(ip) \in IpEntry
           /\ Touched(ip).active = Active(ip)
           /\ Touched(ip).tokens = Level(ip)
           /\ Level(ip) \in 0..TokensMax
           /\ Touched(ip).last_refill = now
           /\ Touched(ip).last_seen = now
<1>1. now \in Nat /\ TokensMax \in Nat
  BY LimitAssumption DEF TypeOK
<1>2. CASE entries[ip] = NoEntry
  BY <1>1, <1>2 DEF Touched, Active, Level, IpEntry
<1>3. CASE entries[ip] # NoEntry
  <2>1. /\ Refilled(entries[ip]) \in 0..TokensMax
        /\ entries[ip] \in IpEntry
    BY <1>3, RefilledType
  <2> QED BY <1>1, <1>3, <2>1 DEF Touched, Active, Level, IpEntry
<1> QED BY <1>2, <1>3

-----------------------------------------------------------------------------
\* No connection is out when the proxy starts.
LEMMA InitInv == Init => IInv
<1> SUFFICES ASSUME Init PROVE IInv
  OBVIOUS
<1>1. Held = {} /\ \A ip \in IPs : HeldBy(ip) = {}
  BY IpAssumption DEF Init, Held, HeldBy
<1>2. Cardinality(Held) = 0 /\ \A ip \in IPs : Cardinality(HeldBy(ip)) = 0
  BY <1>1, FS_EmptySet
<1>3. TypeOK
  BY TimeAssumption DEF Init, TypeOK
<1>4. LeaseAccounting /\ AdmissionCaps /\ EntryOrder
  BY <1>2, LimitAssumption
  DEF Init, LeaseAccounting, AdmissionCaps, EntryOrder, Active
<1> QED BY <1>3, <1>4 DEF IInv

\* A refusal in which the entry was refreshed, and nothing else.
LEMMA RefusePerIpInv ==
    ASSUME IInv, NEW ip \in IPs, RefusePerIp(ip)
    PROVE  IInv'
<1> USE DEF IInv
<1>1. /\ Touched(ip) \in IpEntry
      /\ Touched(ip).active = Active(ip)
      /\ Touched(ip).tokens \in 0..TokensMax
      /\ Touched(ip).last_refill = now
      /\ Touched(ip).last_seen = now
  BY TouchedType
<1>2. /\ entries' = [entries EXCEPT ![ip] = Touched(ip)]
      /\ UNCHANGED <<active_global, last_sweep, lease, now>>
  BY DEF RefusePerIp
<1>3. TypeOK'
  BY <1>1, <1>2 DEF TypeOK, RefusePerIp
<1>4. /\ \A j \in IPs : Active(j)' = Active(j)
      /\ Held' = Held
      /\ \A j \in IPs : HeldBy(j)' = HeldBy(j)
  BY <1>1, <1>2, EntryAssumption DEF Active, TypeOK, Held, HeldBy
<1>5. LeaseAccounting' /\ AdmissionCaps'
  BY <1>2, <1>4 DEF LeaseAccounting, AdmissionCaps
<1>6. EntryOrder'
  BY <1>1, <1>2 DEF EntryOrder, TypeOK
<1> QED BY <1>3, <1>5, <1>6

\* An admission: both limits were tested against exact counters.
LEMMA AdmitInv ==
    ASSUME IInv, NEW ip \in IPs, NEW l \in Leases, Admit(ip, l)
    PROVE  IInv'
<1> USE DEF IInv
<1> DEFINE e == [active |-> Touched(ip).active + 1,
                 tokens |-> Touched(ip).tokens - TokenCost,
                 last_refill |-> now, last_seen |-> now]
<1>1. /\ Touched(ip) \in IpEntry
      /\ Touched(ip).active = Active(ip)
      /\ Touched(ip).tokens \in 0..TokensMax
  BY TouchedType
<1>2. /\ entries' = [entries EXCEPT ![ip] = e]
      /\ lease' = [lease EXCEPT ![l] = ip]
      /\ active_global' = active_global + 1
      /\ verdict' = [ip |-> ip, admitted |-> TRUE]
      /\ UNCHANGED <<last_sweep, now>>
      /\ lease[l] = NoIp
      /\ active_global < MaxConnections
      /\ Touched(ip).active < MaxPerIp
      /\ Touched(ip).tokens >= TokenCost
  BY DEF Admit, TakeSlot
<1>3. /\ e \in IpEntry
      /\ e.active = Active(ip) + 1
      /\ e.tokens \in 0..TokensMax
      /\ e.last_refill = now
      /\ e.last_seen = now
  BY <1>1, <1>2, LimitAssumption DEF IpEntry, TypeOK
<1> HIDE DEF e
<1>4. TypeOK'
  BY <1>2, <1>3 DEF TypeOK
<1>5. /\ Cardinality(Held') = Cardinality(Held) + 1
      /\ Cardinality(HeldBy(ip)') = Cardinality(HeldBy(ip)) + 1
      /\ \A j \in IPs \ {ip} : HeldBy(j)' = HeldBy(j)
  BY <1>2, TakeLease
<1>6. \A j \in IPs : Active(j)' = IF j = ip THEN Active(j) + 1 ELSE Active(j)
  BY <1>2, <1>3, EntryAssumption DEF Active, TypeOK
<1>7. LeaseAccounting'
  BY <1>2, <1>5, <1>6 DEF LeaseAccounting
<1>8. AdmissionCaps'
  BY <1>1, <1>2, <1>5, CountType, LimitAssumption
  DEF LeaseAccounting, AdmissionCaps
<1>9. EntryOrder'
  BY <1>2, <1>3 DEF EntryOrder, TypeOK
<1> QED BY <1>4, <1>7, <1>8, <1>9

\* Giving a lease back: the clamps at zero do not act, because the counters
\* count the lease that is given back.
LEMMA ReleaseInv ==
    ASSUME IInv, NEW l \in Leases, Release(l)
    PROVE  IInv'
<1> USE DEF IInv
<1> DEFINE ip == lease[l]
           e == Released(entries[ip])
<1>1. /\ lease[l] # NoIp
      /\ lease' = [lease EXCEPT ![l] = NoIp]
      /\ active_global' = IF active_global > 0 THEN active_global - 1 ELSE 0
      /\ UNCHANGED <<last_sweep, verdict, now>>
  BY DEF Release
<1>2. /\ ip \in IPs
      /\ Cardinality(Held') = Cardinality(Held) - 1
      /\ Cardinality(HeldBy(ip)) > 0
      /\ Cardinality(Held) > 0
      /\ \A j \in IPs : Cardinality(HeldBy(j)') =
           IF j = ip THEN Cardinality(HeldBy(j)) - 1
                     ELSE Cardinality(HeldBy(j))
  BY <1>1, DropLease
<1>3. entries[ip] # NoEntry /\ entries[ip].active > 0
  BY <1>2 DEF LeaseAccounting, Active
<1>4. entries[ip] \in IpEntry
  BY <1>2, <1>3 DEF TypeOK
<1>5. entries' = [j \in IPs |-> IF j = ip THEN e ELSE entries[j]]
  BY <1>2, <1>3 DEF Release
<1>6. /\ e \in IpEntry
      /\ e.active = entries[ip].active - 1
      /\ e.tokens = entries[ip].tokens
      /\ e.last_refill = entries[ip].last_refill
      /\ e.last_seen = now
  BY <1>3, <1>4 DEF Released, IpEntry, TypeOK
<1> HIDE DEF e, ip
<1>7. TypeOK'
  <2>1. active_global' \in Nat
    BY <1>1 DEF TypeOK
  <2>2. entries' \in [IPs -> IpEntry \cup {NoEntry}]
    BY <1>5, <1>6 DEF TypeOK
  <2>3. lease' \in [Leases -> IPs \cup {NoIp}]
    BY <1>1 DEF TypeOK
  <2> QED BY <1>1, <2>1, <2>2, <2>3 DEF TypeOK
<1>8. \A j \in IPs : Active(j)' = IF j = ip THEN Active(j) - 1 ELSE Active(j)
  BY <1>2, <1>3, <1>5, <1>6, EntryAssumption DEF Active
<1>9. LeaseAccounting'
  <2>1. active_global' = Cardinality(Held')
    BY <1>1, <1>2, CountType DEF LeaseAccounting
  <2>2. \A j \in IPs : Active(j)' = Cardinality(HeldBy(j)')
    BY <1>2, <1>8 DEF LeaseAccounting
  <2> QED BY <2>1, <2>2 DEF LeaseAccounting
<1>10. AdmissionCaps'
  BY <1>2, CountType, LimitAssumption DEF AdmissionCaps
<1>11. EntryOrder'
  <2>1. \A j \in IPs : entries'[j] = IF j = ip THEN e ELSE entries[j]
    BY <1>5
  <2>2. /\ e.last_refill <= now
        /\ e.tokens \in 0..TokensMax
    BY <1>2, <1>3, <1>4, <1>6 DEF EntryOrder, IpEntry, TypeOK
  <2> QED BY <1>1, <1>6, <2>1, <2>2 DEF EntryOrder, TypeOK
<1> QED BY <1>7, <1>9, <1>10, <1>11

\* The sweep erases only entries without a live lease.
LEMMA SweepInv ==
    ASSUME IInv, MaybeSweep
    PROVE  IInv'
<1> USE DEF IInv
<1>1. /\ last_sweep' = now
      /\ UNCHANGED <<active_global, lease, verdict, now>>
      /\ \A ip \in IPs : entries'[ip] =
           IF entries[ip] # NoEntry /\ Stale(entries[ip])
           THEN NoEntry ELSE entries[ip]
  BY DEF MaybeSweep
<1>2. TypeOK'
  BY <1>1 DEF TypeOK, MaybeSweep
<1>3. \A ip \in IPs : Active(ip)' = Active(ip)
  BY <1>1 DEF Active, Stale
<1>4. Held' = Held /\ \A ip \in IPs : HeldBy(ip)' = HeldBy(ip)
  BY <1>1 DEF Held, HeldBy
<1>5. LeaseAccounting' /\ AdmissionCaps'
  BY <1>1, <1>3, <1>4 DEF LeaseAccounting, AdmissionCaps
<1>6. EntryOrder'
  BY <1>1 DEF EntryOrder, TypeOK
<1> QED BY <1>2, <1>5, <1>6

\* A step that moves only the clock or the verdict.
LEMMA IdleInv ==
    ASSUME IInv, TypeOK', now <= now',
           UNCHANGED <<entries, active_global, last_sweep, lease>>
    PROVE  IInv'
<1> USE DEF IInv
<1>1. \A ip \in IPs : Active(ip)' = Active(ip)
  BY DEF Active
<1>2. Held' = Held /\ \A ip \in IPs : HeldBy(ip)' = HeldBy(ip)
  BY DEF Held, HeldBy
<1>3. LeaseAccounting' /\ AdmissionCaps'
  BY <1>1, <1>2 DEF LeaseAccounting, AdmissionCaps
<1>4. EntryOrder'
  <2>1. now \in Nat /\ now' \in Nat /\ last_sweep \in Nat
    BY DEF TypeOK
  <2>2. last_sweep' <= now'
    BY <2>1 DEF EntryOrder
  <2>3. ASSUME NEW ip \in IPs, entries'[ip] # NoEntry
        PROVE  /\ entries'[ip].last_refill <= entries'[ip].last_seen
               /\ entries'[ip].last_seen <= now'
               /\ entries'[ip].tokens \in 0..TokensMax
    <3>1. entries[ip] \in IpEntry
      BY <2>3 DEF TypeOK
    <3> QED BY <2>1, <2>3, <3>1 DEF EntryOrder, IpEntry
  <2> QED BY <2>2, <2>3 DEF EntryOrder
<1> QED BY <1>3, <1>4

\* Every step of the limiter keeps the inductive invariant.
LEMMA StepInv == IInv /\ [Next]_vars => IInv'
<1> SUFFICES ASSUME IInv, [Next]_vars PROVE IInv'
  OBVIOUS
<1>1. ASSUME NEW ip \in IPs, RefuseGlobal(ip) PROVE IInv'
  <2>1. TypeOK' /\ now' = now /\ now \in Nat
    BY <1>1 DEF RefuseGlobal, IInv, TypeOK
  <2> QED BY <1>1, <2>1, IdleInv DEF RefuseGlobal
<1>2. ASSUME NEW ip \in IPs, RefusePerIp(ip) PROVE IInv'
  BY <1>2, RefusePerIpInv
<1>3. ASSUME NEW ip \in IPs, NEW l \in Leases, Admit(ip, l) PROVE IInv'
  BY <1>3, AdmitInv
<1>4. ASSUME NEW l \in Leases, Release(l) PROVE IInv'
  BY <1>4, ReleaseInv
<1>5. CASE MaybeSweep
  BY <1>5, SweepInv
<1>6. CASE Tick
  <2>1. TypeOK' /\ now <= now'
    BY <1>6, TimeAssumption DEF Tick, IInv, TypeOK
  <2> QED BY <1>6, <2>1, IdleInv DEF Tick
<1>7. CASE UNCHANGED vars
  <2>1. TypeOK' /\ now <= now'
    BY <1>7 DEF vars, IInv, TypeOK
  <2> QED BY <1>7, <2>1, IdleInv DEF vars
<1> QED BY <1>1, <1>2, <1>3, <1>4, <1>5, <1>6, <1>7 DEF Next

\* The strengthened invariant holds in every state of the limiter.
THEOREM InductiveInvariant == Spec => []IInv
<1> QED BY InitInv, StepInv, PTL DEF Spec

\* Every variable keeps its type (TypeOK of RateLimiter).
THEOREM TypeCorrect == Spec => []TypeOK
<1>1. IInv => TypeOK
  BY DEF IInv
<1> QED BY <1>1, InductiveInvariant, PTL

\* active_global_ and every entry's active counter equal the number of leases
\* out, whatever the order of try_admit, ~Lease, maybe_sweep and the clock.
THEOREM LeasesAccounted == Spec => []LeaseAccounting
<1>1. IInv => LeaseAccounting
  BY DEF IInv
<1> QED BY <1>1, InductiveInvariant, PTL

\* The limits of try_admit are never exceeded, in total or for one address.
THEOREM CapsRespected == Spec => []AdmissionCaps
<1>1. IInv => AdmissionCaps
  BY DEF IInv
<1> QED BY <1>1, InductiveInvariant, PTL

-----------------------------------------------------------------------------
(***************************************************************************)
(* The bucket: how each step changes what an address may still spend.      *)
(***************************************************************************)

\* An entry refilled at this very moment is worth the tokens written to it.
LEMMA FreshLevel ==
    ASSUME TypeOK', NEW ip \in IPs, NEW t \in 0..TokensMax,
           entries'[ip] # NoEntry, entries'[ip].tokens = t,
           entries'[ip].last_refill = now'
    PROVE  Level(ip)' = t
<1>1. now' \in Nat /\ 0 * RefillPerTick = 0
  BY LimitAssumption DEF TypeOK
<1>2. Refilled(entries[ip])' = Least(TokensMax, t + 0 * RefillPerTick)
  BY <1>1 DEF Refilled
<1> QED BY <1>1, <1>2, LimitAssumption DEF Level, Least

\* An entry the step did not touch keeps its value.
LEMMA SameLevel ==
    ASSUME NEW ip \in IPs, entries'[ip] = entries[ip], now' = now
    PROVE  Level(ip)' = Level(ip)
BY DEF Level, Refilled

\* A refused request costs the address nothing.
LEMMA RefuseLevel ==
    ASSUME IInv, NEW ip \in IPs, RefusePerIp(ip)
    PROVE  \A j \in IPs : Level(j)' = Level(j)
<1>1. /\ Touched(ip) \in IpEntry
      /\ Touched(ip).tokens = Level(ip)
      /\ Level(ip) \in 0..TokensMax
      /\ Touched(ip).last_refill = now
  BY TouchedType DEF IInv
<1>2. IInv' /\ TypeOK' /\ TypeOK
  BY RefusePerIpInv DEF IInv
<1>3. /\ entries'[ip] = Touched(ip)
      /\ now' = now
      /\ \A j \in IPs \ {ip} : entries'[j] = entries[j]
  BY <1>2 DEF RefusePerIp, TypeOK
<1>4. Level(ip)' = Level(ip)
  BY <1>1, <1>2, <1>3, FreshLevel, EntryAssumption
<1> QED BY <1>3, <1>4, SameLevel

\* An admission costs exactly one token.
LEMMA AdmitLevel ==
    ASSUME IInv, NEW ip \in IPs, NEW l \in Leases, Admit(ip, l)
    PROVE  /\ Level(ip)' = Level(ip) - TokenCost
           /\ \A j \in IPs \ {ip} : Level(j)' = Level(j)
<1>1. /\ Touched(ip).active = Active(ip)
      /\ Touched(ip) \in IpEntry
      /\ Touched(ip).tokens = Level(ip)
      /\ Level(ip) \in 0..TokensMax
  BY TouchedType DEF IInv
<1>2. TypeOK' /\ TypeOK
  BY AdmitInv DEF IInv
<1> DEFINE e == [active |-> Touched(ip).active + 1,
                 tokens |-> Touched(ip).tokens - TokenCost,
                 last_refill |-> now, last_seen |-> now]
<1>3. /\ entries'[ip] = e
      /\ now' = now
      /\ \A j \in IPs \ {ip} : entries'[j] = entries[j]
      /\ Touched(ip).tokens >= TokenCost
  BY <1>2 DEF Admit, TakeSlot, TypeOK
<1>4. /\ e \in IpEntry
      /\ e.tokens = Level(ip) - TokenCost
      /\ e.last_refill = now
      /\ Level(ip) - TokenCost \in 0..TokensMax
  BY <1>1, <1>2, <1>3, LimitAssumption DEF IpEntry, TypeOK
<1> HIDE DEF e
<1>5. Level(ip)' = Level(ip) - TokenCost
  BY <1>2, <1>3, <1>4, FreshLevel, EntryAssumption
<1> QED BY <1>3, <1>5, SameLevel

\* Closing a connection gives no token back.
LEMMA ReleaseLevel ==
    ASSUME IInv, NEW l \in Leases, Release(l)
    PROVE  \A j \in IPs : Level(j)' = Level(j)
<1> SUFFICES ASSUME NEW j \in IPs PROVE Level(j)' = Level(j)
  OBVIOUS
<1>1. /\ now' = now
      /\ entries'[j] = IF j = lease[l] /\ entries[j] # NoEntry
                       THEN Released(entries[j]) ELSE entries[j]
  BY DEF Release
<1>2. CASE j = lease[l] /\ entries[j] # NoEntry
  <2>1. entries[j] \in IpEntry
    BY <1>2 DEF IInv, TypeOK
  <2>2. /\ Released(entries[j]) \in IpEntry
        /\ Released(entries[j]).tokens = entries[j].tokens
        /\ Released(entries[j]).last_refill = entries[j].last_refill
    BY <2>1 DEF Released, IpEntry, IInv, TypeOK
  <2>3. Refilled(entries[j])' = Refilled(entries[j])
    BY <1>1, <1>2, <2>2 DEF Refilled
  <2>4. entries'[j] # NoEntry
    BY <1>1, <1>2, <2>2, EntryAssumption
  <2> QED BY <1>2, <2>3, <2>4 DEF Level
<1>3. CASE ~(j = lease[l] /\ entries[j] # NoEntry)
  BY <1>1, <1>3, SameLevel
<1> QED BY <1>2, <1>3

\* A stale entry is full, so erasing it forgets no debt.
LEMMA SweepLevel ==
    ASSUME IInv, SweepIsLossless, MaybeSweep
    PROVE  \A j \in IPs : Level(j)' = Level(j)
<1> SUFFICES ASSUME NEW j \in IPs PROVE Level(j)' = Level(j)
  OBVIOUS
<1>1. /\ now' = now
      /\ entries'[j] = IF entries[j] # NoEntry /\ Stale(entries[j])
                       THEN NoEntry ELSE entries[j]
  BY DEF MaybeSweep
<1>2. CASE entries[j] # NoEntry /\ Stale(entries[j])
  <2> DEFINE d == now - entries[j].last_refill
  <2>1. /\ entries[j] \in IpEntry
        /\ d \in Nat
        /\ Refilled(entries[j]) =
             Least(TokensMax, entries[j].tokens + d * RefillPerTick)
    BY <1>2, RefilledType DEF IInv
  <2>2. StaleTtl <= d /\ entries[j].tokens \in 0..TokensMax
    BY <1>2, <2>1, TimeAssumption DEF IInv, EntryOrder, Stale, IpEntry, TypeOK
  <2> HIDE DEF d
  <2>3. /\ StaleTtl * RefillPerTick <= d * RefillPerTick
        /\ StaleTtl * RefillPerTick \in Nat
        /\ d * RefillPerTick \in Nat
    BY <2>1, <2>2, TimeAssumption, RefillMonotone
  <2>4. Refilled(entries[j]) = TokensMax
    BY <2>1, <2>2, <2>3, LimitAssumption DEF SweepIsLossless, Least
  <2> QED BY <1>1, <1>2, <2>4 DEF Level
<1>3. CASE ~(entries[j] # NoEntry /\ Stale(entries[j]))
  BY <1>1, <1>3, SameLevel
<1> QED BY <1>2, <1>3

\* The lazy refill is worth as much as one done at every tick.
LEMMA TickLevel ==
    ASSUME IInv, Tick
    PROVE  \A j \in IPs : Level(j)' = Least(TokensMax, Level(j) + RefillPerTick)
<1> SUFFICES ASSUME NEW j \in IPs
             PROVE  Level(j)' = Least(TokensMax, Level(j) + RefillPerTick)
  OBVIOUS
<1>0. now' = now + 1 /\ entries' = entries /\ now \in Nat
  BY DEF Tick, IInv, TypeOK
<1>1. CASE entries[j] = NoEntry
  BY <1>0, <1>1, LimitAssumption DEF Level, Least
<1>2. CASE entries[j] # NoEntry
  <2> DEFINE d == now - entries[j].last_refill
             t == entries[j].tokens
  <2>1. /\ entries[j] \in IpEntry
        /\ d \in Nat
        /\ Refilled(entries[j]) = Least(TokensMax, t + d * RefillPerTick)
    BY <1>2, RefilledType DEF IInv
  <2>2. t \in 0..TokensMax /\ entries[j].last_refill \in Nat
    BY <1>2, <2>1 DEF IInv, EntryOrder, IpEntry
  <2>3. /\ now' - entries[j].last_refill = d + 1
        /\ ~(now' < entries[j].last_refill)
    BY <1>0, <2>1, <2>2
  <2>4. Refilled(entries[j])' = Least(TokensMax, t + (d + 1) * RefillPerTick)
    BY <1>0, <2>3 DEF Refilled
  <2>5. /\ d * RefillPerTick \in Nat
        /\ (d + 1) * RefillPerTick = d * RefillPerTick + RefillPerTick
    BY <2>1, RefillMonotone
  <2> HIDE DEF d, t
  <2>6. Refilled(entries[j])' =
          Least(TokensMax, Refilled(entries[j]) + RefillPerTick)
    BY <2>1, <2>2, <2>4, <2>5, LimitAssumption DEF Least
  <2> QED BY <1>0, <1>2, <2>6 DEF Level
<1> QED BY <1>1, <1>2

-----------------------------------------------------------------------------
(***************************************************************************)
(* Refinement.                                                             *)
(***************************************************************************)

\* The limiter answers a request exactly as exact buckets would: the test of
\* try_admit is the Admissible of AdmissionControl.
LEMMA SameTest ==
    ASSUME IInv, NEW ip \in IPs
    PROVE  AC!Admissible(ip) <=>
             /\ active_global < MaxConnections
             /\ Touched(ip).active < MaxPerIp
             /\ Touched(ip).tokens >= TokenCost
<1>1. Touched(ip).active = Active(ip) /\ Touched(ip).tokens = Level(ip)
  BY TouchedType DEF IInv
<1>2. /\ active_global = Cardinality(AC!Held)
      /\ Active(ip) = Cardinality(AC!HeldBy(ip))
  BY DEF IInv, LeaseAccounting, Held, HeldBy, AC!Held, AC!HeldBy
<1>3. \A S : AC!Cardinality(S) = Cardinality(S)
  BY Zenon DEF Cardinality, AC!Cardinality
<1> QED BY <1>1, <1>2, <1>3 DEF AC!Admissible

\* Every step of the limiter is a step of AdmissionControl or changes nothing
\* AdmissionControl can see.
LEMMA StepRefines ==
    ASSUME IInv, SweepIsLossless, [Next]_vars
    PROVE  [AC!ACNext]_(AC!acvars)
<1> DEFINE lev == [ip \in IPs |-> Level(ip)]
<1>1. ASSUME NEW ip \in IPs, RefuseGlobal(ip) PROVE AC!ACNext
  <2>1. ~AC!Admissible(ip)
    BY <1>1, SameTest, LimitAssumption DEF RefuseGlobal, IInv, TypeOK
  <2>2. lev' = lev
    BY <1>1, SameLevel DEF RefuseGlobal
  <2>3. AC!ACRefuse(ip)
    BY <1>1, <2>1, <2>2 DEF RefuseGlobal, AC!ACRefuse
  <2> QED BY <2>3 DEF AC!ACNext
<1>2. ASSUME NEW ip \in IPs, RefusePerIp(ip) PROVE AC!ACNext
  <2>1. /\ Touched(ip) \in IpEntry
        /\ Touched(ip).tokens \in 0..TokensMax
    BY TouchedType DEF IInv
  <2>2. ~AC!Admissible(ip)
    BY <1>2, <2>1, SameTest, LimitAssumption DEF RefusePerIp, IpEntry
  <2>3. lev' = lev
    BY <1>2, RefuseLevel
  <2>4. AC!ACRefuse(ip)
    BY <1>2, <2>2, <2>3 DEF RefusePerIp, AC!ACRefuse
  <2> QED BY <2>4 DEF AC!ACNext
<1>3. ASSUME NEW ip \in IPs, NEW l \in Leases, Admit(ip, l) PROVE AC!ACNext
  <2>1. AC!Admissible(ip)
    BY <1>3, SameTest DEF Admit
  <2>2. lev' = [lev EXCEPT ![ip] = @ - TokenCost]
    BY <1>3, AdmitLevel
  <2>3. AC!ACAdmit(ip, l)
    BY <1>3, <2>1, <2>2 DEF Admit, TakeSlot, AC!ACAdmit
  <2> QED BY <2>3 DEF AC!ACNext
<1>4. ASSUME NEW l \in Leases, Release(l) PROVE AC!ACNext
  <2>1. lev' = lev
    BY <1>4, ReleaseLevel
  <2>2. AC!ACRelease(l)
    BY <1>4, <2>1 DEF Release, AC!ACRelease
  <2> QED BY <2>2 DEF AC!ACNext
<1>5. ASSUME MaybeSweep PROVE UNCHANGED AC!acvars
  <2>1. lev' = lev
    BY <1>5, SweepLevel
  <2> QED BY <1>5, <2>1 DEF MaybeSweep, AC!acvars
<1>6. ASSUME Tick PROVE AC!ACNext
  <2>1. lev' = [ip \in IPs |-> AC!Least(TokensMax, lev[ip] + RefillPerTick)]
    BY <1>6, TickLevel DEF Least, AC!Least
  <2>2. AC!ACTick
    BY <1>6, <2>1 DEF Tick, AC!ACTick
  <2> QED BY <2>2 DEF AC!ACNext
<1>7. ASSUME UNCHANGED vars PROVE UNCHANGED AC!acvars
  <2>1. lev' = lev
    BY <1>7, SameLevel DEF vars
  <2> QED BY <1>7, <2>1 DEF vars, AC!acvars
<1> QED BY <1>1, <1>2, <1>3, <1>4, <1>5, <1>6, <1>7 DEF Next

\* With a burst that refills within StaleTtl, the limiter of the code, with its
\* counters, its lazy refill and its sweep, implements AdmissionControl.
THEOREM LimiterRefines ==
    ASSUME SweepIsLossless
    PROVE  Spec => ImplementsAdmissionControl
<1>1. Init => AC!ACInit
  <2>1. Init => [ip \in IPs |-> Level(ip)] = [ip \in IPs |-> TokensMax]
    BY DEF Init, Level
  <2> QED BY <2>1 DEF Init, AC!ACInit, AC!NoVerdict
<1>2. IInv /\ [Next]_vars => [AC!ACNext]_(AC!acvars)
  BY StepRefines
<1> QED BY <1>1, <1>2, InductiveInvariant, PTL
        DEF Spec, ImplementsAdmissionControl, AC!ACSpec

-----------------------------------------------------------------------------
(***************************************************************************)
(* The admission rate.                                                     *)
(***************************************************************************)

\* The value of a bucket is always between empty and full.
LEMMA LevelType == IInv => \A ip \in IPs : Level(ip) \in 0..TokensMax
BY TouchedType DEF IInv

\* What was spent since the window opened, plus what is left, is covered by one
\* full bucket and the refill of the window.
LEMMA BudgetStep ==
    ASSUME IInv, BudgetInv, SweepIsLossless, [WNext]_wvars
    PROVE  BudgetInv'
<1>1. IInv'
  BY StepInv DEF WNext, WAdmit, WOther, OpenWindow, Next, wvars
<1>2. /\ \A ip \in IPs : Level(ip) \in 0..TokensMax
      /\ \A ip \in IPs : Level(ip)' \in 0..TokensMax
  <2>1. IInv' => (\A ip \in IPs : Level(ip) \in 0..TokensMax)'
    BY LevelType, PTL
  <2> QED BY <1>1, <2>1, LevelType
<1>3. now \in Nat /\ opened \in Nat /\ opened <= now /\ opened >= 1
  BY DEF IInv, TypeOK, BudgetInv
<1>4. CASE OpenWindow
  <2>1. (now' - opened') * RefillPerTick = 0
    BY <1>3, <1>4, LimitAssumption DEF OpenWindow, vars
  <2> QED BY <1>2, <1>3, <1>4, <2>1, LimitAssumption
          DEF OpenWindow, BudgetInv, vars
<1>5. CASE now' = now /\ opened' = opened /\ spent' = spent
           /\ \A ip \in IPs : Level(ip)' = Level(ip)
  BY <1>5 DEF BudgetInv
<1>6. CASE WAdmit
  <2>1. PICK ip \in IPs, l \in Leases :
          /\ Admit(ip, l)
          /\ spent' = [spent EXCEPT ![ip] = @ + TokenCost]
          /\ UNCHANGED opened
    BY <1>6 DEF WAdmit
  <2>2. /\ Level(ip)' = Level(ip) - TokenCost
        /\ \A j \in IPs \ {ip} : Level(j)' = Level(j)
        /\ now' = now
    BY <2>1, AdmitLevel DEF Admit, TakeSlot
  <2> DEFINE k == (now - opened) * RefillPerTick
  <2>3. k \in Nat /\ k' = k
    BY <1>3, <2>1, <2>2, LimitAssumption
  <2>4. \A j \in IPs : spent[j] + Level(j) <= TokensMax + k
    BY DEF BudgetInv
  <2> HIDE DEF k
  <2>5. \A j \in IPs : spent'[j] + Level(j)' <= TokensMax + k'
    BY <1>2, <2>1, <2>2, <2>3, <2>4, LimitAssumption DEF BudgetInv
  <2>6. spent' \in [IPs -> Nat] /\ opened' \in 1..now'
    BY <2>1, <2>2, LimitAssumption DEF BudgetInv
  <2> QED BY <2>5, <2>6 DEF BudgetInv, k
<1>7. CASE Tick /\ UNCHANGED <<opened, spent>>
  <2> DEFINE d == now - opened
  <2>1. \A j \in IPs : Level(j)' = Least(TokensMax, Level(j) + RefillPerTick)
    BY <1>7, TickLevel
  <2>2. d \in Nat /\ now' - opened' = d + 1
    BY <1>3, <1>7 DEF Tick
  <2>3. /\ d * RefillPerTick \in Nat
        /\ (d + 1) * RefillPerTick = d * RefillPerTick + RefillPerTick
    BY <2>2, RefillMonotone
  <2>4. \A j \in IPs : spent[j] + Level(j) <= TokensMax + d * RefillPerTick
    BY DEF BudgetInv
  <2> HIDE DEF d
  <2>5. \A j \in IPs :
          spent'[j] + Level(j)' <= TokensMax + (now' - opened') * RefillPerTick
    BY <1>2, <1>7, <2>1, <2>2, <2>3, <2>4, LimitAssumption DEF BudgetInv, Least
  <2>6. spent' \in [IPs -> Nat] /\ opened' \in 1..now'
    BY <1>3, <1>7 DEF BudgetInv, Tick
  <2> QED BY <2>5, <2>6 DEF BudgetInv
<1>8. CASE WOther
  <2>1. ASSUME NEW ip \in IPs, RefuseGlobal(ip) PROVE BudgetInv'
    BY <1>5, <1>8, <2>1, SameLevel DEF RefuseGlobal, WOther
  <2>2. ASSUME NEW ip \in IPs, RefusePerIp(ip) PROVE BudgetInv'
    BY <1>5, <1>8, <2>2, RefuseLevel DEF RefusePerIp, WOther
  <2>3. ASSUME NEW l \in Leases, Release(l) PROVE BudgetInv'
    BY <1>5, <1>8, <2>3, ReleaseLevel DEF Release, WOther
  <2>4. CASE MaybeSweep
    BY <1>5, <1>8, <2>4, SweepLevel DEF MaybeSweep, WOther
  <2> QED BY <1>7, <1>8, <2>1, <2>2, <2>3, <2>4 DEF WOther
<1>9. CASE UNCHANGED wvars
  BY <1>5, <1>9, SameLevel DEF wvars, vars
<1> QED BY <1>4, <1>6, <1>8, <1>9 DEF WNext

\* No address is admitted more often than burst + rate * w times in any window
\* of length w: the sweep, the lazy refill and released leases cannot be used
\* to earn tokens.
THEOREM AdmissionRateBounded ==
    ASSUME SweepIsLossless
    PROVE  WSpec => []WindowBound
<1>1. WInit => IInv /\ BudgetInv
  <2> SUFFICES ASSUME WInit PROVE IInv /\ BudgetInv
    OBVIOUS
  <2>1. IInv
    BY InitInv DEF WInit
  <2>2. \A ip \in IPs : Level(ip) = TokensMax
    BY DEF WInit, Init, Level
  <2>3. (now - opened) * RefillPerTick = 0
    BY LimitAssumption DEF WInit, Init
  <2> QED BY <2>1, <2>2, <2>3, LimitAssumption DEF WInit, Init, BudgetInv
<1>2. IInv /\ [WNext]_wvars => IInv'
  BY StepInv DEF WNext, WAdmit, WOther, OpenWindow, Next, wvars
<1>3. IInv /\ BudgetInv /\ [WNext]_wvars => BudgetInv'
  BY BudgetStep
<1>4. IInv /\ BudgetInv => WindowBound
  <2> SUFFICES ASSUME IInv, BudgetInv, NEW ip \in IPs
               PROVE  spent[ip] <= TokensMax + (now - opened) * RefillPerTick
    BY DEF WindowBound
  <2> DEFINE k == (now - opened) * RefillPerTick
  <2>1. k \in Int
    BY LimitAssumption DEF IInv, TypeOK, BudgetInv
  <2>2. spent[ip] + Level(ip) <= TokensMax + k /\ spent[ip] \in Nat
    BY DEF BudgetInv
  <2> HIDE DEF k
  <2>3. spent[ip] <= TokensMax + k
    BY <2>1, <2>2, LevelType, LimitAssumption
  <2> QED BY <2>3 DEF k
<1> QED BY <1>1, <1>2, <1>3, <1>4, PTL DEF WSpec
=============================================================================
