------------------------ MODULE SessionManagerProofs ------------------------
(***************************************************************************)
(* The session manager is correct for every number of addresses, shells,   *)
(* records and sessions, and every time to live.                           *)
(***************************************************************************)
EXTENDS SessionManager, LruStoreProofs

IpEntry == [key : IPs, rec : 1..MaxRecords, age : 0..Ttl + 1]

\* What the store st keeps, in terms of the records rs created and the history:
\* its entries are of records of their address, an age is the time since the
\* address was used, and the entries behind the one of an address are of
\* addresses used since (us).
StoreInv(st, rs, us, id) ==
    /\ st \in Seq(IpEntry)
    /\ WellOrdered(st, MaxSessions)
    /\ \A e \in Entries(st) : e.rec <= Len(rs) /\ rs[e.rec] = e.key /\ e.age = id[e.key]
    /\ \A ip \in Keys(st) : Since(st, ip, us[ip])

\* A shell works on a record of its address.
ShellInv ==
    \A s \in Open : shell[s].rec \in 1..Len(recs) /\ recs[shell[s].rec] = shell[s].ip

IInv ==
    /\ TypeOK
    /\ Len(recs) <= MaxRecords
    /\ StoreInv(store, recs, used, idle)
    /\ ShellInv
    /\ \A ip \in IPs : IsFiniteSet(used[ip])

-----------------------------------------------------------------------------
\* The records are entries in the sense of the lemmas about stores.
LEMMA IpEntryIsEntrySet == EntrySet(IpEntry, Ttl)
BY BoundAssumption DEF EntrySet, IpEntry

\* What the fields of a record in a store may hold.
LEMMA StoreTypes ==
    ASSUME NEW st \in Seq(IpEntry)
    PROVE  /\ \A e \in Entries(st) : /\ e \in IpEntry /\ e.key \in IPs
                                     /\ e.rec \in 1..MaxRecords /\ e.age \in 0..Ttl + 1
           /\ Keys(st) \subseteq IPs
           /\ Keys(st) = {e.key : e \in Entries(st)}
<1>1. Entries(st) \subseteq IpEntry /\ Keys(st) = {e.key : e \in Entries(st)}
  BY DomainOfStore
<1>2. \A e \in IpEntry : e.key \in IPs /\ e.rec \in 1..MaxRecords /\ e.age \in 0..Ttl + 1
  BY DEF IpEntry
<1> QED BY <1>1, <1>2

\* sweep, and the purge get_or_create begins with.
LEMMA PurgeInv ==
    ASSUME NEW st, NEW rs, NEW us, NEW id, StoreInv(st, rs, us, id)
    PROVE  /\ StoreInv(Purge(st, Ttl), rs, us, id)
           /\ Entries(Purge(st, Ttl)) = {e \in Entries(st) : e.age <= Ttl}
<1> DEFINE r == Purge(st, Ttl)
<1>0. st \in Seq(IpEntry) /\ WellOrdered(st, MaxSessions) /\ MaxSessions \in Nat
  BY BoundAssumption DEF StoreInv
<1>1. /\ r \in Seq(IpEntry) /\ WellOrdered(r, MaxSessions)
      /\ Entries(r) = {e \in Entries(st) : e.age <= Ttl}
      /\ \A U : \A e \in Entries(st) :
           Since(st, e.key, U) /\ e.age <= Ttl => Since(r, e.key, U)
  BY <1>0, PurgeStore
<1> HIDE DEF r
<1>2. ASSUME NEW ip \in Keys(r) PROVE Since(r, ip, us[ip])
  <2>1. PICK e \in Entries(r) : e.key = ip
    BY <1>1, DomainOfStore
  <2>2. e \in Entries(st) /\ e.age <= Ttl /\ ip \in Keys(st)
    BY <2>1, <1>0, <1>1, DomainOfStore
  <2>3. Since(st, e.key, us[ip])
    BY <2>1, <2>2 DEF StoreInv
  <2> QED BY <2>1, <2>2, <2>3, <1>1
<1>3. StoreInv(r, rs, us, id)
  BY <1>1, <1>2 DEF StoreInv
<1> QED BY <1>1, <1>3 DEF r

\* The history of a use of ip.
After(us, ip) == [j \in IPs |-> IF j = ip THEN {} ELSE us[j] \cup {ip}]

\* touch moves a record to the end of the order and is the latest use of its
\* address; it adds and drops nothing.
LEMMA TouchInv ==
    ASSUME NEW st, NEW rs, NEW us, NEW id \in [IPs -> 0..Ttl + 1],
           StoreInv(st, rs, us, id), NEW ip \in Keys(st)
    PROVE  /\ StoreInv(Touch(st, ip), rs, After(us, ip), [id EXCEPT ![ip] = 0])
           /\ Keys(Touch(st, ip)) = Keys(st)
           /\ \A e \in Entries(Touch(st, ip)) :
                \E f \in Entries(st) : f.rec = e.rec /\ f.key = e.key
<1> DEFINE x == Entry(st, ip)
           r == Touch(st, ip)
           y == [x EXCEPT !.age = 0]
<1>0. st \in Seq(IpEntry) /\ WellOrdered(st, MaxSessions) /\ MaxSessions \in Nat
  BY BoundAssumption DEF StoreInv
<1>1. x \in Entries(st) /\ x.key = ip /\ x \in IpEntry
  BY <1>0, EntryOfKey, DomainOfStore
<1>2. r = Refresh(st, x)
  BY DEF Touch
<1>3. y.rec = x.rec /\ y.key = ip /\ y.age = 0
  BY <1>1, BoundAssumption DEF IpEntry
<1> HIDE DEF x, r
<1>31. x \in IpEntry /\ (x.key \in Keys(st) \/ Len(st) < MaxSessions)
  BY <1>1
<1>32. /\ Refresh(st, x) \in Seq(IpEntry)
       /\ WellOrdered(Refresh(st, x), MaxSessions)
       /\ Entries(Refresh(st, x)) =
            {z \in Entries(st) : z.key # x.key} \cup {[x EXCEPT !.age = 0]}
       /\ Keys(Refresh(st, x)) = Keys(st) \cup {x.key}
       /\ \A U, j : Since(st, j, U) /\ j # x.key
                            => Since(Refresh(st, x), j, U \cup {x.key})
       /\ \A U : Since(Refresh(st, x), x.key, U)
  BY <1>0, <1>31, IpEntryIsEntrySet, RefreshStore
<1>4. /\ r \in Seq(IpEntry) /\ WellOrdered(r, MaxSessions)
      /\ Entries(r) = {z \in Entries(st) : z.key # x.key} \cup {y}
      /\ Keys(r) = Keys(st) \cup {x.key}
      /\ \A U, j : Since(st, j, U) /\ j # x.key => Since(r, j, U \cup {x.key})
      /\ \A U : Since(r, x.key, U)
  BY <1>2, <1>32
<1> HIDE DEF y
<1>5. Keys(r) = Keys(st) /\ Keys(st) \subseteq IPs
  <2>1. Keys(st) \subseteq IPs
    BY <1>0, StoreTypes
  <2> QED BY <2>1, <1>1, <1>4
<1>6. ASSUME NEW j \in Keys(r) PROVE Since(r, j, After(us, ip)[j])
  <2>1. j \in IPs /\ j \in Keys(st)
    BY <1>5
  <2>2. CASE j = ip
    BY <2>2, <1>1, <1>4
  <2>3. CASE j # ip
    <3>1. Since(st, j, us[j]) /\ After(us, ip)[j] = us[j] \cup {ip}
      BY <2>1, <2>3 DEF StoreInv, After
    <3> QED BY <3>1, <2>3, <1>1, <1>4
  <2> QED BY <2>2, <2>3
<1>7. ASSUME NEW e \in Entries(r)
      PROVE  /\ e.rec <= Len(rs) /\ rs[e.rec] = e.key
             /\ e.age = [id EXCEPT ![ip] = 0][e.key]
             /\ \E f \in Entries(st) : f.rec = e.rec /\ f.key = e.key
  <2>1. CASE e = y
    <3>1. x.rec <= Len(rs) /\ rs[x.rec] = x.key
      BY <1>1 DEF StoreInv
    <3>2. ip \in IPs
      BY <1>5
    <3> QED BY <2>1, <3>1, <3>2, <1>1, <1>3
  <2>2. CASE e # y
    <3>1. e \in Entries(st) /\ e.key # ip
      BY <2>2, <1>1, <1>4
    <3>2. e.rec <= Len(rs) /\ rs[e.rec] = e.key /\ e.age = id[e.key] /\ e.key \in IPs
      BY <3>1, <1>0, StoreTypes DEF StoreInv
    <3> QED BY <3>1, <3>2
  <2> QED BY <2>1, <2>2
<1>8. StoreInv(r, rs, After(us, ip), [id EXCEPT ![ip] = 0])
  BY <1>4, <1>6, <1>7 DEF StoreInv
<1> QED BY <1>5, <1>7, <1>8 DEF r

NewEntry(rs, ip) == [key |-> ip, rec |-> Len(rs) + 1, age |-> 0]
Created(st, rs, ip) == Append(MakeRoom(st, MaxSessions), NewEntry(rs, ip))

\* get_or_create for an address that is not stored; it evicts only an address
\* that as many others as the store holds have been used after.
LEMMA CreateInv ==
    ASSUME NEW st, NEW rs \in Seq(IPs), NEW us, NEW id \in [IPs -> 0..Ttl + 1],
           StoreInv(st, rs, us, id), NEW ip \in IPs, ip \notin Keys(st),
           Len(rs) < MaxRecords
    PROVE  /\ StoreInv(Created(st, rs, ip), Append(rs, ip), After(us, ip),
                       [id EXCEPT ![ip] = 0])
           /\ ip \in Keys(Created(st, rs, ip))
           /\ \A e \in Entries(Created(st, rs, ip)) :
                e.rec <= Len(rs) => e \in Entries(st)
           /\ \A j \in Keys(st) :
                j \notin Keys(Created(st, rs, ip)) /\ IsFiniteSet(us[j])
                  => Cardinality(us[j] \cup {ip}) >= MaxSessions
<1> DEFINE room == MakeRoom(st, MaxSessions)
           rs2 == Append(rs, ip)
           new == NewEntry(rs, ip)
           r == Created(st, rs, ip)
<1>0. /\ st \in Seq(IpEntry) /\ WellOrdered(st, MaxSessions)
      /\ MaxSessions \in Nat \ {0} /\ MaxSessions \in Nat
      /\ Len(rs) \in Nat /\ MaxRecords \in Nat /\ Ttl \in Nat
  BY BoundAssumption, LenProperties DEF StoreInv
<1>1. /\ room \in Seq(IpEntry) /\ WellOrdered(room, MaxSessions)
      /\ Len(room) < MaxSessions
      /\ Entries(room) \subseteq Entries(st) /\ Keys(room) \subseteq Keys(st)
      /\ \A U, k : Since(st, k, U) /\ k \in Keys(room) => Since(room, k, U)
  BY <1>0, MakeRoomStore
<1>2. r = Append(room, new)
  BY DEF Created
<1>3. new \in IpEntry /\ new.age = 0 /\ new.key = ip /\ new.rec = Len(rs) + 1
  BY <1>0 DEF IpEntry, NewEntry
<1> HIDE DEF room, new, r
<1>4. new.key \notin Keys(room)
  BY <1>1, <1>3
<1>5. /\ r \in Seq(IpEntry) /\ WellOrdered(r, MaxSessions)
      /\ Entries(r) = Entries(room) \cup {new}
      /\ Keys(r) = Keys(room) \cup {new.key}
      /\ \A U, j : Since(room, j, U) => Since(r, j, U \cup {new.key})
      /\ \A U : Since(r, new.key, U)
  <2>1. /\ room \in Seq(IpEntry) /\ new \in IpEntry /\ MaxSessions \in Nat
        /\ WellOrdered(room, MaxSessions) /\ Len(room) < MaxSessions
        /\ new.age = 0 /\ new.key \notin Keys(room)
    BY <1>0, <1>1, <1>3, <1>4
  <2>2. /\ Append(room, new) \in Seq(IpEntry)
        /\ WellOrdered(Append(room, new), MaxSessions)
        /\ Entries(Append(room, new)) = Entries(room) \cup {new}
        /\ Keys(Append(room, new)) = Keys(room) \cup {new.key}
        /\ \A U, j : Since(room, j, U) => Since(Append(room, new), j, U \cup {new.key})
        /\ \A U : Since(Append(room, new), new.key, U)
    BY <2>1, IpEntryIsEntrySet, AppendStore
  <2> QED BY <2>2, <1>2
<1>6. ASSUME NEW j \in Keys(r) PROVE Since(r, j, After(us, ip)[j])
  <2>1. CASE j = ip
    BY <2>1, <1>3, <1>5
  <2>2. CASE j # ip
    <3>1. j \in Keys(room) /\ j \in Keys(st) /\ j \in IPs
      BY <2>2, <1>0, <1>1, <1>3, <1>5, StoreTypes
    <3>2. Since(room, j, us[j])
      BY <3>1, <1>1 DEF StoreInv
    <3>3. After(us, ip)[j] = us[j] \cup {ip}
      BY <3>1, <2>2 DEF After
    <3>4. Since(r, j, us[j] \cup {new.key})
      BY <3>2, <1>5
    <3> QED BY <3>3, <3>4, <1>3
  <2> QED BY <2>1, <2>2
<1>7. /\ rs2 \in Seq(IPs) /\ Len(rs2) = Len(rs) + 1 /\ rs2[Len(rs) + 1] = ip
      /\ \A i \in 1..Len(rs) : rs2[i] = rs[i]
  BY <1>0, AppendProperties
<1> HIDE DEF rs2
<1>8. ASSUME NEW e \in Entries(r)
      PROVE  /\ e.rec <= Len(rs2) /\ rs2[e.rec] = e.key
             /\ e.age = [id EXCEPT ![ip] = 0][e.key]
             /\ e.rec <= Len(rs) => e \in Entries(st)
  <2>1. CASE e = new
    BY <2>1, <1>0, <1>3, <1>7
  <2>2. CASE e # new
    <3>1. e \in Entries(st)
      BY <2>2, <1>1, <1>5
    <3>2. /\ e.rec <= Len(rs) /\ rs[e.rec] = e.key /\ e.age = id[e.key]
      BY <3>1 DEF StoreInv
    <3>3. e.rec \in 1..MaxRecords /\ e.key \in IPs /\ e.key \in Keys(st)
      BY <3>1, <1>0, StoreTypes
    <3>4. rs2[e.rec] = e.key /\ e.rec <= Len(rs2)
      <4>1. e.rec \in 1..Len(rs)
        BY <3>2, <3>3, <1>0
      <4> QED BY <4>1, <3>2, <1>0, <1>7, SMTT(30)
    <3>5. e.key # ip
      BY <3>3
    <3> QED BY <3>1, <3>2, <3>3, <3>4, <3>5
  <2> QED BY <2>1, <2>2
<1>9. StoreInv(r, rs2, After(us, ip), [id EXCEPT ![ip] = 0])
  BY <1>5, <1>6, <1>8 DEF StoreInv
<1>10. ASSUME NEW j \in Keys(st), j \notin Keys(r), IsFiniteSet(us[j])
       PROVE  Cardinality(us[j] \cup {ip}) >= MaxSessions
  <2>1. j \notin Keys(MakeRoom(st, MaxSessions))
    BY <1>5, <1>10 DEF room
  <2>2. Since(st, j, us[j])
    BY DEF StoreInv
  <2> QED BY <2>1, <2>2, <1>0, <1>10, EvictedWhenDue
<1>11. ip \in Keys(r)
  BY <1>3, <1>5
<1> QED BY <1>8, <1>9, <1>10, <1>11 DEF rs2, r

\* The clock moves on for the store and the history alike.
LEMMA OlderInv ==
    ASSUME NEW st, NEW rs, NEW us, NEW id \in [IPs -> 0..Ttl + 1],
           StoreInv(st, rs, us, id)
    PROVE  /\ StoreInv(Older(st, Ttl), rs, us, [ip \in IPs |-> Later(id[ip])])
           /\ Keys(Older(st, Ttl)) = Keys(st)
           /\ \A e \in Entries(Older(st, Ttl)) : \E f \in Entries(st) : f.rec = e.rec
<1> DEFINE r == Older(st, Ttl)
           older(e) == [e EXCEPT !.age = IF @ > Ttl THEN @ ELSE @ + 1]
<1>0. st \in Seq(IpEntry) /\ WellOrdered(st, MaxSessions) /\ Ttl \in Nat
  BY BoundAssumption DEF StoreInv
<1>1. /\ r \in Seq(IpEntry) /\ WellOrdered(r, MaxSessions)
      /\ Entries(r) = {older(e) : e \in Entries(st)}
      /\ Keys(r) = Keys(st)
      /\ \A U, j : Since(st, j, U) => Since(r, j, U)
  <2>1. /\ Older(st, Ttl) \in Seq(IpEntry)
        /\ WellOrdered(Older(st, Ttl), MaxSessions)
        /\ Entries(Older(st, Ttl)) =
             {[e EXCEPT !.age = IF @ > Ttl THEN @ ELSE @ + 1] : e \in Entries(st)}
        /\ Keys(Older(st, Ttl)) = Keys(st)
        /\ \A U, j : Since(st, j, U) => Since(Older(st, Ttl), j, U)
    <3> HIDE DEF r, older
    <3> QED BY <1>0, IpEntryIsEntrySet, OlderStore
  <2> QED BY <2>1
<1>2. ASSUME NEW e \in IpEntry
      PROVE  older(e).rec = e.rec /\ older(e).key = e.key /\ older(e).age = Later(e.age)
  BY <1>0 DEF IpEntry, Later
<1> HIDE DEF r, older
<1>3. ASSUME NEW e \in Entries(r)
      PROVE  /\ e.rec <= Len(rs) /\ rs[e.rec] = e.key
             /\ e.age = [ip \in IPs |-> Later(id[ip])][e.key]
             /\ \E f \in Entries(st) : f.rec = e.rec
  <2>1. PICK f \in Entries(st) : e = older(f)
    BY <1>1
  <2>2. f \in IpEntry /\ f.key \in IPs
    BY <1>0, StoreTypes
  <2>3. f.rec <= Len(rs) /\ rs[f.rec] = f.key /\ f.age = id[f.key]
    BY DEF StoreInv
  <2>4. e.rec = f.rec /\ e.key = f.key /\ e.age = Later(id[f.key])
    BY <2>1, <2>2, <2>3, <1>2
  <2> QED BY <2>2, <2>3, <2>4
<1>4. StoreInv(r, rs, us, [ip \in IPs |-> Later(id[ip])])
  BY <1>1, <1>3 DEF StoreInv
<1> QED BY <1>1, <1>3, <1>4 DEF r

-----------------------------------------------------------------------------
\* What a step may do to the store: the actions of DroppedOnlyWhenDue and of
\* DroppedForGood.
DropStep ==
    \A ip \in IPs :
        ip \in Keys(store) /\ ip \notin Keys(store') =>
            \/ idle[ip] > Ttl
            \/ Cardinality(used'[ip]) >= MaxSessions
ReturnStep ==
    \A i \in DOMAIN store' : store'[i].rec <= Len(recs) =>
        \E j \in DOMAIN store : store[j].rec = store'[i].rec

\* The part of IInv that the store and the history make up.
HistoryInv ==
    /\ StoreInv(store, recs, used, idle)
    /\ used \in [IPs -> SUBSET IPs]
    /\ idle \in [IPs -> 0..Ttl + 1]
    /\ \A ip \in IPs : IsFiniteSet(used[ip])

\* The history of an address that was just used has its type.
LEMMA AfterTypes ==
    ASSUME HistoryInv, NEW ip \in IPs
    PROVE  /\ After(used, ip) \in [IPs -> SUBSET IPs]
           /\ [idle EXCEPT ![ip] = 0] \in [IPs -> 0..Ttl + 1]
           /\ \A j \in IPs : IsFiniteSet(After(used, ip)[j])
<1>1. ASSUME NEW j \in IPs PROVE IsFiniteSet(After(used, ip)[j])
  <2>1. After(used, ip)[j] = IF j = ip THEN {} ELSE used[j] \cup {ip}
    BY DEF After
  <2>2. IsFiniteSet({}) /\ IsFiniteSet(used[j] \cup {ip})
    BY FS_EmptySet, FS_AddElement DEF HistoryInv
  <2> QED BY <2>1, <2>2
<1>2. After(used, ip) \in [IPs -> SUBSET IPs]
  BY DEF After, HistoryInv
<1>3. [idle EXCEPT ![ip] = 0] \in [IPs -> 0..Ttl + 1]
  BY BoundAssumption DEF HistoryInv
<1> QED BY <1>1, <1>2, <1>3

\* An address the purge drops was not used for longer than the time to live.
LEMMA PurgeDrops ==
    ASSUME HistoryInv, NEW ip \in Keys(store), ip \notin Keys(Purge(store, Ttl))
    PROVE  idle[ip] > Ttl
<1>0. store \in Seq(IpEntry) /\ WellOrdered(store, MaxSessions) /\ Ttl \in Nat
  BY BoundAssumption DEF HistoryInv, StoreInv
<1>1. PICK e \in Entries(store) : e.key = ip
  BY <1>0, StoreTypes
<1>2. e.age = idle[ip] /\ e.age \in 0..Ttl + 1
  BY <1>0, <1>1, StoreTypes DEF HistoryInv, StoreInv
<1>3. Entries(Purge(store, Ttl)) = {f \in Entries(store) : f.age <= Ttl}
  BY PurgeInv DEF HistoryInv
<1>4. Purge(store, Ttl) \in Seq(IpEntry)
  <2>1. StoreInv(Purge(store, Ttl), recs, used, idle)
    BY PurgeInv DEF HistoryInv
  <2> QED BY <2>1 DEF StoreInv
<1>5. Keys(Purge(store, Ttl)) = {f.key : f \in Entries(Purge(store, Ttl))}
  BY <1>4, StoreTypes
<1>6. ~(e.age <= Ttl)
  BY <1>1, <1>3, <1>5
<1> QED BY <1>0, <1>2, <1>6

\* No entry is made of a record that was dropped before.
LEMMA EntriesReturn ==
    ASSUME \A e \in Entries(store') : e.rec <= Len(recs) =>
             \E f \in Entries(store) : f.rec = e.rec
    PROVE  ReturnStep
BY DEF ReturnStep, Entries

\* touch: get_or_create on a known address, connection_lost and the end of a
\* shell all come down to it.
LEMMA TouchStep ==
    ASSUME HistoryInv, NEW ip \in IPs, UNCHANGED recs,
           store' = Touch(store, ip), Used(ip)
    PROVE  HistoryInv' /\ DropStep /\ ReturnStep
<1>0. store \in Seq(IpEntry) /\ StoreInv(store, recs, used, idle)
  BY DEF HistoryInv, StoreInv
<1>1. CASE ip \in Keys(store)
  <2>1. /\ StoreInv(store', recs, After(used, ip), [idle EXCEPT ![ip] = 0])
        /\ Keys(store') = Keys(store)
        /\ \A e \in Entries(store') : \E f \in Entries(store) : f.rec = e.rec
    BY <1>0, <1>1, TouchInv DEF HistoryInv
  <2>2. used' = After(used, ip) /\ idle' = [idle EXCEPT ![ip] = 0]
    BY <1>1, <2>1 DEF Used, After
  <2>3. HistoryInv'
    BY <2>1, <2>2, AfterTypes DEF HistoryInv
  <2>4. DropStep
    BY <2>1 DEF DropStep
  <2>5. ReturnStep
    BY <2>1, EntriesReturn
  <2> QED BY <2>3, <2>4, <2>5
<1>2. CASE ip \notin Keys(store)
  <2>1. store' = store /\ UNCHANGED <<used, idle>>
    BY <1>2 DEF Touch, Used
  <2>2. HistoryInv'
    BY <2>1 DEF HistoryInv
  <2> QED BY <2>1, <2>2 DEF DropStep, ReturnStep
<1> QED BY <1>1, <1>2

\* get_or_create: purge, then touch or create.
LEMMA OpenStep ==
    ASSUME HistoryInv, recs \in Seq(IPs), NEW s, NEW ip \in IPs, OpenShell(s, ip)
    PROVE  HistoryInv' /\ DropStep /\ ReturnStep
<1> DEFINE kept == Purge(store, Ttl)
<1>0. StoreInv(store, recs, used, idle) /\ idle \in [IPs -> 0..Ttl + 1]
  BY DEF HistoryInv
<1>1. /\ StoreInv(kept, recs, used, idle)
      /\ Entries(kept) = {e \in Entries(store) : e.age <= Ttl}
  BY <1>0, PurgeInv
<1>2. \A j \in Keys(store) : j \notin Keys(kept) => idle[j] > Ttl
  BY PurgeDrops
<1>3. Keys(kept) \subseteq Keys(store)
  <2>1. kept \in Seq(IpEntry) /\ store \in Seq(IpEntry)
    BY <1>0, <1>1 DEF StoreInv
  <2> HIDE DEF kept
  <2> QED BY <2>1, <1>1, StoreTypes
<1>4. /\ ip \in Keys(kept) =>
            recs' = recs /\ store' = Touch(kept, ip)
      /\ ip \notin Keys(kept) =>
            /\ Len(recs) < MaxRecords
            /\ recs' = Append(recs, ip) /\ store' = Created(kept, recs, ip)
      /\ Used(ip)
  BY DEF OpenShell, Created, NewEntry
<1> HIDE DEF kept
<1>5. CASE ip \in Keys(kept)
  <2>1. /\ StoreInv(store', recs, After(used, ip), [idle EXCEPT ![ip] = 0])
        /\ Keys(store') = Keys(kept)
        /\ \A e \in Entries(store') : \E f \in Entries(kept) : f.rec = e.rec
    <3>1. /\ StoreInv(Touch(kept, ip), recs, After(used, ip), [idle EXCEPT ![ip] = 0])
          /\ Keys(Touch(kept, ip)) = Keys(kept)
          /\ \A e \in Entries(Touch(kept, ip)) :
               \E f \in Entries(kept) : f.rec = e.rec /\ f.key = e.key
      BY <1>0, <1>1, <1>5, TouchInv
    <3> QED BY <3>1, <1>4, <1>5
  <2>2. used' = After(used, ip) /\ idle' = [idle EXCEPT ![ip] = 0] /\ recs' = recs
    BY <1>4, <1>5, <2>1 DEF Used, After
  <2>3. HistoryInv'
    BY <2>1, <2>2, AfterTypes DEF HistoryInv
  <2>4. DropStep
    BY <2>1, <1>2 DEF DropStep
  <2>5. ReturnStep
    BY <2>1, <1>1, EntriesReturn
  <2> QED BY <2>3, <2>4, <2>5
<1>6. CASE ip \notin Keys(kept)
  <2>1. /\ StoreInv(store', recs', After(used, ip), [idle EXCEPT ![ip] = 0])
        /\ ip \in Keys(store')
        /\ \A e \in Entries(store') : e.rec <= Len(recs) => e \in Entries(kept)
        /\ \A j \in Keys(kept) : j \notin Keys(store') /\ IsFiniteSet(used[j])
             => Cardinality(used[j] \cup {ip}) >= MaxSessions
    <3> DEFINE new == Created(kept, recs, ip)
    <3>1. /\ StoreInv(new, Append(recs, ip), After(used, ip), [idle EXCEPT ![ip] = 0])
          /\ ip \in Keys(new)
          /\ \A e \in Entries(new) : e.rec <= Len(recs) => e \in Entries(kept)
          /\ \A j \in Keys(kept) : j \notin Keys(new) /\ IsFiniteSet(used[j])
               => Cardinality(used[j] \cup {ip}) >= MaxSessions
      <4>1. Len(recs) < MaxRecords
        BY <1>4, <1>6
      <4> QED BY <4>1, <1>0, <1>1, <1>6, CreateInv
    <3>2. store' = new /\ recs' = Append(recs, ip)
      BY <1>4, <1>6
    <3> HIDE DEF new
    <3> QED BY <3>1, <3>2
  <2>2. used' = After(used, ip) /\ idle' = [idle EXCEPT ![ip] = 0]
    BY <1>4, <2>1 DEF Used, After
  <2>3. HistoryInv'
    BY <2>1, <2>2, AfterTypes DEF HistoryInv
  <2>4. ASSUME NEW j \in IPs, j \in Keys(store), j \notin Keys(store')
        PROVE  idle[j] > Ttl \/ Cardinality(used'[j]) >= MaxSessions
    <3>1. CASE j \notin Keys(kept)
      BY <3>1, <2>4, <1>2
    <3>2. CASE j \in Keys(kept)
      <4>1. j # ip /\ IsFiniteSet(used[j])
        BY <2>1, <2>4 DEF HistoryInv
      <4>2. used'[j] = used[j] \cup {ip}
        BY <4>1, <2>2 DEF After
      <4> QED BY <3>2, <4>1, <4>2, <2>1, <2>4
    <3> QED BY <3>1, <3>2
  <2>5. ReturnStep
    BY <2>1, <1>1, EntriesReturn
  <2> QED BY <2>3, <2>4, <2>5 DEF DropStep
<1> QED BY <1>5, <1>6

\* The rest of IInv.
ShellTypes ==
    /\ recs \in Seq(IPs) /\ Len(recs) <= MaxRecords
    /\ shell \in [Shells -> [ip : IPs \cup {NoIp}, rec : 0..MaxRecords]]
    /\ linked \subseteq IPs /\ busy \subseteq IPs
    /\ ShellInv

\* The invariant is what the store says and what the shells hold.
LEMMA InvParts == IInv <=> HistoryInv /\ ShellTypes
BY DEF IInv, TypeOK, HistoryInv, ShellTypes, StoreInv, IpEntry

\* handle_client gives a shell a record and no other shell a different one.
LEMMA OpenShellTypes ==
    ASSUME IInv, NEW s \in Shells, NEW ip \in IPs, OpenShell(s, ip)
    PROVE  ShellTypes'
<1> DEFINE kept == Purge(store, Ttl)
           rec == IF ip \in Keys(kept) THEN Entry(kept, ip).rec ELSE Len(recs) + 1
<1>0. /\ recs \in Seq(IPs) /\ Len(recs) \in Nat /\ Len(recs) <= MaxRecords
      /\ MaxRecords \in Nat
      /\ \A i \in 1..Len(recs) : recs[i] \in IPs
  BY BoundAssumption, LenProperties, ElementOfSeq DEF IInv, TypeOK
<1>1. /\ shell' = [shell EXCEPT ![s] = [ip |-> ip, rec |-> rec]]
      /\ recs' = IF ip \in Keys(kept) THEN recs ELSE Append(recs, ip)
      /\ ip \in Keys(kept) \/ Len(recs) < MaxRecords
      /\ UNCHANGED <<linked, busy>>
  BY DEF OpenShell
<1>2. StoreInv(kept, recs, used, idle)
  BY PurgeInv DEF IInv
<1> HIDE DEF kept
<1>3. /\ recs' \in Seq(IPs) /\ Len(recs') <= MaxRecords
      /\ Len(recs) <= Len(recs') /\ Len(recs') \in Nat
      /\ \A i \in 1..Len(recs) : recs'[i] = recs[i]
      /\ rec \in 1..Len(recs') /\ recs'[rec] = ip
  <2>1. CASE ip \in Keys(kept)
    <3>1. Entry(kept, ip) \in Entries(kept) /\ Entry(kept, ip).key = ip
      BY <2>1, <1>2, EntryOfKey DEF StoreInv
    <3>2. rec <= Len(recs) /\ recs[rec] = ip
      BY <2>1, <3>1, <1>2 DEF StoreInv
    <3>3. rec \in 1..MaxRecords
      BY <2>1, <3>1, <1>2, StoreTypes DEF StoreInv
    <3> HIDE DEF rec
    <3> QED BY <2>1, <3>2, <3>3, <1>0, <1>1
  <2>2. CASE ip \notin Keys(kept)
    <3>1. rec = Len(recs) + 1 /\ recs' = Append(recs, ip) /\ Len(recs) < MaxRecords
      BY <2>2, <1>1
    <3>2. /\ Append(recs, ip) \in Seq(IPs) /\ Len(Append(recs, ip)) = Len(recs) + 1
          /\ Append(recs, ip)[Len(recs) + 1] = ip
          /\ \A i \in 1..Len(recs) : Append(recs, ip)[i] = recs[i]
      BY <1>0, AppendProperties
    <3> HIDE DEF rec
    <3> QED BY <3>1, <3>2, <1>0
  <2> QED BY <2>1, <2>2
<1> HIDE DEF rec
<1>4. rec \in 0..MaxRecords
  BY <1>0, <1>3
<1>5. shell' \in [Shells -> [ip : IPs \cup {NoIp}, rec : 0..MaxRecords]]
  BY <1>1, <1>4 DEF IInv, TypeOK
<1>6. ASSUME NEW t \in Open'
      PROVE  shell'[t].rec \in 1..Len(recs') /\ recs'[shell'[t].rec] = shell'[t].ip
  <2>1. CASE t = s
    <3>1. shell'[t] = [ip |-> ip, rec |-> rec]
      BY <2>1, <1>1 DEF IInv, TypeOK
    <3> QED BY <3>1, <1>3
  <2>2. CASE t # s
    <3>1. shell'[t] = shell[t] /\ t \in Open
      BY <2>2, <1>1 DEF IInv, TypeOK, Open
    <3>2. shell[t].rec \in 1..Len(recs) /\ recs[shell[t].rec] = shell[t].ip
      BY <3>1 DEF IInv, ShellInv
    <3> QED BY <3>1, <3>2, <1>0, <1>3
  <2> QED BY <2>1, <2>2
<1> QED BY <1>1, <1>3, <1>5, <1>6 DEF ShellTypes, ShellInv, IInv, TypeOK

\* The store and the shells are empty at first.
LEMMA InitInv == Init => IInv
<1> SUFFICES ASSUME Init PROVE IInv
  OBVIOUS
<1>1. store = <<>> /\ recs = <<>>
  BY DEF Init
<1>2. store \in Seq(IpEntry) /\ recs \in Seq(IPs) /\ Len(store) = 0 /\ Len(recs) = 0
  BY <1>1, EmptySeq
<1>3. Entries(store) = {} /\ Keys(store) = {}
  BY <1>1 DEF Entries, Keys
<1>4. WellOrdered(store, MaxSessions)
  BY <1>1, <1>2, BoundAssumption DEF WellOrdered
<1>5. StoreInv(store, recs, used, idle)
  BY <1>2, <1>3, <1>4 DEF StoreInv
<1>6. /\ used \in [IPs -> SUBSET IPs] /\ idle \in [IPs -> 0..Ttl + 1]
      /\ \A ip \in IPs : IsFiniteSet(used[ip])
  BY BoundAssumption, FS_EmptySet DEF Init
<1>7. ShellTypes
  <2>1. Open = {}
    BY DEF Init, Open, NoShell
  <2>2. shell \in [Shells -> [ip : IPs \cup {NoIp}, rec : 0..MaxRecords]]
    BY BoundAssumption DEF Init, NoShell
  <2>3. linked = {} /\ busy = {}
    BY DEF Init
  <2> QED BY <2>1, <2>2, <2>3, <1>2, BoundAssumption DEF ShellTypes, ShellInv
<1> QED BY <1>5, <1>6, <1>7, InvParts DEF HistoryInv

\* Every step keeps the invariant, drops only what is due, and brings no
\* dropped record back.
LEMMA StepInv ==
    ASSUME IInv, [Next]_vars
    PROVE  IInv' /\ DropStep /\ ReturnStep
<1>0. HistoryInv /\ ShellTypes
  BY InvParts
<1>a. HistoryInv' /\ ShellTypes' => IInv'
  BY InvParts, PTL
<1>1. ASSUME UNCHANGED <<store, recs, used, idle>>
      PROVE  HistoryInv' /\ DropStep /\ ReturnStep
  BY <1>0, <1>1 DEF HistoryInv, DropStep, ReturnStep
<1>2. ASSUME NEW ip \in IPs, ConnectionMade(ip) PROVE IInv' /\ DropStep /\ ReturnStep
  <2>1. ShellTypes'
    BY <1>0, <1>2 DEF ConnectionMade, ShellTypes, ShellInv, Open
  <2> QED BY <1>1, <1>2, <2>1, <1>a DEF ConnectionMade
<1>3. ASSUME NEW ip \in IPs, ConnectionLost(ip) PROVE IInv' /\ DropStep /\ ReturnStep
  <2>1. ShellTypes'
    BY <1>0, <1>3 DEF ConnectionLost, ShellTypes, ShellInv, Open
  <2>2. HistoryInv' /\ DropStep /\ ReturnStep
    BY <1>0, <1>3, TouchStep DEF ConnectionLost
  <2> QED BY <2>1, <2>2, <1>a
<1>4. ASSUME NEW s \in Shells, NEW ip \in IPs, OpenShell(s, ip)
      PROVE  IInv' /\ DropStep /\ ReturnStep
  <2>1. HistoryInv' /\ DropStep /\ ReturnStep
    BY <1>0, <1>4, OpenStep DEF ShellTypes
  <2>2. ShellTypes'
    BY <1>4, OpenShellTypes
  <2> QED BY <2>1, <2>2, <1>a
<1>5. ASSUME NEW s \in Shells, Command(s) PROVE IInv' /\ DropStep /\ ReturnStep
  <2>1. shell[s].ip \in IPs
    BY <1>0, <1>5 DEF Command, Open, ShellTypes
  <2>2. ShellTypes'
    BY <1>0, <1>5, <2>1 DEF Command, ShellTypes, ShellInv, Open
  <2> QED BY <1>1, <1>5, <2>2, <1>a DEF Command
<1>6. ASSUME NEW s \in Shells, CloseShell(s) PROVE IInv' /\ DropStep /\ ReturnStep
  <2>1. shell[s].ip \in IPs
    BY <1>0, <1>6 DEF CloseShell, Open, ShellTypes
  <2>2. HistoryInv' /\ DropStep /\ ReturnStep
    BY <1>0, <1>6, <2>1, TouchStep DEF CloseShell
  <2>3. shell' \in [Shells -> [ip : IPs \cup {NoIp}, rec : 0..MaxRecords]]
    BY <1>0, <1>6, BoundAssumption DEF CloseShell, ShellTypes, NoShell
  <2>4. Open' \subseteq Open /\ \A t \in Open' : shell'[t] = shell[t]
    BY <1>0, <1>6 DEF CloseShell, ShellTypes, NoShell, Open
  <2>5. ShellTypes'
    BY <1>0, <1>6, <2>3, <2>4 DEF CloseShell, ShellTypes, ShellInv
  <2> QED BY <2>2, <2>5, <1>a
<1>7. ASSUME Sweep PROVE IInv' /\ DropStep /\ ReturnStep
  <2>1. ShellTypes'
    BY <1>0, <1>7 DEF Sweep, ShellTypes, ShellInv, Open
  <2>2. /\ StoreInv(store', recs, used, idle)
        /\ Entries(store') = {e \in Entries(store) : e.age <= Ttl}
    BY <1>0, <1>7, PurgeInv DEF Sweep, HistoryInv
  <2>3. HistoryInv'
    BY <1>0, <1>7, <2>2 DEF Sweep, HistoryInv
  <2>4. DropStep
    BY <1>0, <1>7, PurgeDrops DEF Sweep, DropStep
  <2>5. ReturnStep
    BY <2>2, EntriesReturn
  <2> QED BY <2>1, <2>3, <2>4, <2>5, <1>a
<1>8. ASSUME Tick PROVE IInv' /\ DropStep /\ ReturnStep
  <2>1. ShellTypes'
    BY <1>0, <1>8 DEF Tick, ShellTypes, ShellInv, Open
  <2>2. /\ StoreInv(store', recs, used, idle')
        /\ Keys(store') = Keys(store)
        /\ \A e \in Entries(store') : \E f \in Entries(store) : f.rec = e.rec
    BY <1>0, <1>8, OlderInv DEF Tick, HistoryInv
  <2>3. idle' \in [IPs -> 0..Ttl + 1]
    BY <1>0, <1>8, BoundAssumption DEF Tick, HistoryInv, Later
  <2>4. HistoryInv'
    BY <1>0, <1>8, <2>2, <2>3 DEF Tick, HistoryInv
  <2>5. DropStep
    BY <2>2 DEF DropStep
  <2>6. ReturnStep
    BY <2>2, EntriesReturn
  <2> QED BY <2>1, <2>4, <2>5, <2>6, <1>a
<1>9. CASE UNCHANGED vars
  <2>1. ShellTypes'
    BY <1>0, <1>9 DEF vars, ShellTypes, ShellInv, Open
  <2> QED BY <1>1, <1>9, <2>1, <1>a DEF vars
<1> QED BY <1>2, <1>3, <1>4, <1>5, <1>6, <1>7, <1>8, <1>9 DEF Next

\* The invariant holds throughout, whatever callbacks and sweeps do.
LEMMA Invariance == Spec => []IInv
<1>1. IInv /\ [Next]_vars => IInv'
  BY StepInv
<1> QED BY <1>1, InitInv, PTL DEF Spec

-----------------------------------------------------------------------------
\* The store stays bounded by max_sessions, with one record per address, in the
\* order of last use (get_or_create, touch and sweep in any order).
THEOREM StoreStaysOrdered == Spec => []StoreOrdered
<1>1. IInv => StoreOrdered
  BY DEF IInv, StoreInv, StoreOrdered
<1> QED BY <1>1, Invariance, PTL

\* No shell works on another address's record, and the store hands none out.
THEOREM ClientsStayIsolated == Spec => []Isolated
<1>1. IInv => Isolated
  <2> SUFFICES ASSUME IInv PROVE Isolated
    OBVIOUS
  <2>1. \A i \in DOMAIN store : store[i] \in Entries(store)
    BY DEF Entries
  <2> QED BY <2>1 DEF IInv, StoreInv, ShellInv, Isolated
<1> QED BY <1>1, Invariance, PTL

\* A record is dropped only when its address was away for longer than the time
\* to live, or max_sessions other addresses were used since.
THEOREM DropsAreDue == Spec => DroppedOnlyWhenDue
<1>1. IInv /\ [Next]_vars => [DropStep]_vars
  BY StepInv
<1> QED BY <1>1, Invariance, PTL DEF Spec, DroppedOnlyWhenDue, DropStep

\* A record the store has dropped never comes back.
THEOREM DropsAreForGood == Spec => DroppedForGood
<1>1. IInv /\ [Next]_vars => [ReturnStep]_vars
  BY StepInv
<1> QED BY <1>1, Invariance, PTL DEF Spec, DroppedForGood, ReturnStep
=============================================================================
