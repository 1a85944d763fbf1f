------------------------- MODULE AuthManagerProofs --------------------------
(***************************************************************************)
(* The limits of the authentication hold for every number of addresses,    *)
(* connections, attempts and pins, and for all times.                      *)
(***************************************************************************)
EXTENDS AuthManager, LruStoreProofs

PinEntry == [key : IPs, age : 0..PinTtl + 1]
AttemptEntry == [key : IPs, age : 0..AttemptTtl + 1, count : 1..MaxAttempts]

PinInv(st) == st \in Seq(PinEntry) /\ WellOrdered(st, MaxPins)

\* What the failure records st keep, in terms of the history: an age is the time
\* since the last failure, a count covers the failures judged since they were
\* last forgiven, and the record of an address that has such failures is there,
\* with only addresses behind it that failed later.
AttemptInv(st, tr, qu, ot) ==
    /\ st \in Seq(AttemptEntry)
    /\ WellOrdered(st, MaxPins)
    /\ \A e \in Entries(st) : e.age = qu[e.key] /\ tr[e.key] <= e.count
    /\ \A ip \in IPs : tr[ip] > 0 => qu[ip] <= AttemptTtl /\ Since(st, ip, ot[ip])

HistoryTypes ==
    /\ tries \in [IPs -> 0..MaxAttempts + 1]
    /\ quiet \in [IPs -> 0..AttemptTtl + 1]
    /\ others \in [IPs -> SUBSET IPs]
    /\ \A ip \in IPs : IsFiniteSet(others[ip])

ConnInv ==
    /\ conn \in [Conns -> [ip : IPs \cup {NoIp},
                           phase : {"free", "idle", "tarpit", "kick", "granting", "in"},
                           limit : BOOLEAN, left : 0..Tarpit]]
    /\ \A c \in Conns : conn[c].phase # "free" => conn[c].ip \in IPs

IInv ==
    /\ PinInv(pins)
    /\ AttemptInv(attempts, tries, quiet, others)
    /\ HistoryTypes
    /\ ConnInv

-----------------------------------------------------------------------------
\* The pins are entries in the sense of the lemmas about stores.
LEMMA PinsAreEntries == EntrySet(PinEntry, PinTtl)
BY LimitAssumption DEF EntrySet, PinEntry

\* So are the failure counters.
LEMMA AttemptsAreEntries == EntrySet(AttemptEntry, AttemptTtl)
BY LimitAssumption DEF EntrySet, AttemptEntry

\* What the fields of a failure counter in a store may hold.
LEMMA AttemptTypes ==
    ASSUME NEW st \in Seq(AttemptEntry)
    PROVE  /\ \A e \in Entries(st) : /\ e \in AttemptEntry /\ e.key \in IPs
                                     /\ e.age \in 0..AttemptTtl + 1
                                     /\ e.count \in 1..MaxAttempts
           /\ Keys(st) \subseteq IPs
           /\ Keys(st) = {e.key : e \in Entries(st)}
<1>1. Entries(st) \subseteq AttemptEntry /\ Keys(st) = {e.key : e \in Entries(st)}
  BY DomainOfStore
<1>2. \A e \in AttemptEntry : /\ e.key \in IPs /\ e.age \in 0..AttemptTtl + 1
                              /\ e.count \in 1..MaxAttempts
  BY DEF AttemptEntry
<1> QED BY <1>1, <1>2

\* The pins stay a bounded store in the order of use.
LEMMA PinPurge ==
    ASSUME NEW st, PinInv(st)
    PROVE  PinInv(Purge(st, PinTtl))
BY PurgeStore, LimitAssumption DEF PinInv

\* Time alone keeps the invariant of the pins: no pin gets ahead of another.
LEMMA PinOlder ==
    ASSUME NEW st, PinInv(st)
    PROVE  PinInv(Older(st, PinTtl))
BY OlderStore, PinsAreEntries, LimitAssumption DEF PinInv

\* get_or_pin_password, whether it finds a pin, makes one or evicts
\* another for it, keeps the pins ordered and bounded.
LEMMA GetOrPinInv ==
    ASSUME PinInv(pins), NEW ip \in IPs
    PROVE  PinInv(GetOrPin(ip))
<1> DEFINE kept == Purge(pins, PinTtl)
           room == IF ip \in Keys(kept) THEN kept ELSE MakeRoom(kept, MaxPins)
           pin == [key |-> ip, age |-> 0]
<1>0. MaxPins \in Nat \ {0} /\ MaxPins \in Nat
  BY LimitAssumption
<1>1. kept \in Seq(PinEntry) /\ WellOrdered(kept, MaxPins)
  BY PinPurge DEF PinInv
<1>2. pin \in PinEntry /\ pin.key = ip
  BY LimitAssumption DEF PinEntry
<1>3. GetOrPin(ip) = Refresh(room, pin)
  BY DEF GetOrPin
<1> HIDE DEF kept, pin
<1>4. /\ room \in Seq(PinEntry) /\ WellOrdered(room, MaxPins)
      /\ pin.key \in Keys(room) \/ Len(room) < MaxPins
  <2>1. CASE ip \in Keys(kept)
    BY <2>1, <1>1, <1>2
  <2>2. CASE ip \notin Keys(kept)
    <3>1. /\ MakeRoom(kept, MaxPins) \in Seq(PinEntry)
          /\ WellOrdered(MakeRoom(kept, MaxPins), MaxPins)
          /\ Len(MakeRoom(kept, MaxPins)) < MaxPins
      BY <1>0, <1>1, MakeRoomStore
    <3> QED BY <2>2, <3>1
  <2> QED BY <2>1, <2>2
<1> HIDE DEF room
<1>5. Refresh(room, pin) \in Seq(PinEntry) /\ WellOrdered(Refresh(room, pin), MaxPins)
  BY <1>0, <1>2, <1>4, PinsAreEntries, RefreshStore
<1> QED BY <1>3, <1>5 DEF PinInv

\* So does a login, whichever name is used.
LEMMA PinsAfterLoginInv ==
    ASSUME PinInv(pins), NEW ip \in IPs, NEW root
    PROVE  PinInv(PinsAfterLogin(ip, root))
BY PinPurge, GetOrPinInv DEF PinsAfterLogin

-----------------------------------------------------------------------------
\* The purge leaves every record that still counts.
LEMMA AttemptPurge ==
    ASSUME NEW st, NEW tr, NEW qu, NEW ot, AttemptInv(st, tr, qu, ot)
    PROVE  /\ AttemptInv(Purge(st, AttemptTtl), tr, qu, ot)
           /\ Entries(Purge(st, AttemptTtl)) = {e \in Entries(st) : e.age <= AttemptTtl}
<1> DEFINE r == Purge(st, AttemptTtl)
<1>0. st \in Seq(AttemptEntry) /\ WellOrdered(st, MaxPins) /\ MaxPins \in Nat
  BY LimitAssumption DEF AttemptInv
<1>1. /\ r \in Seq(AttemptEntry) /\ WellOrdered(r, MaxPins)
      /\ Entries(r) = {e \in Entries(st) : e.age <= AttemptTtl}
      /\ \A U : \A e \in Entries(st) :
           Since(st, e.key, U) /\ e.age <= AttemptTtl => Since(r, e.key, U)
  BY <1>0, PurgeStore
<1> HIDE DEF r
<1>2. ASSUME NEW ip \in IPs, tr[ip] > 0
      PROVE  qu[ip] <= AttemptTtl /\ Since(r, ip, ot[ip])
  <2>1. qu[ip] <= AttemptTtl /\ Since(st, ip, ot[ip])
    BY <1>2 DEF AttemptInv
  <2>2. ip \in Keys(st)
    BY <2>1, SinceMonotone
  <2>3. PICK e \in Entries(st) : e.key = ip
    BY <2>2, <1>0, AttemptTypes
  <2>4. e.age = qu[ip]
    BY <2>3 DEF AttemptInv
  <2> QED BY <2>1, <2>3, <2>4, <1>1
<1>3. \A e \in Entries(r) : e.age = qu[e.key] /\ tr[e.key] <= e.count
  BY <1>1 DEF AttemptInv
<1>4. AttemptInv(r, tr, qu, ot)
  BY <1>1, <1>2, <1>3 DEF AttemptInv
<1> QED BY <1>1, <1>4 DEF r

\* A success forgives the address its failures.
LEMMA AcceptInv ==
    ASSUME NEW st, NEW tr \in [IPs -> 0..MaxAttempts + 1], NEW qu,
           NEW ot \in [IPs -> SUBSET IPs], AttemptInv(st, tr, qu, ot), NEW ip \in IPs
    PROVE  AttemptInv(Delete(st, ip), [tr EXCEPT ![ip] = 0], qu, [ot EXCEPT ![ip] = {}])
<1> DEFINE r == Delete(st, ip)
           tr2 == [tr EXCEPT ![ip] = 0]
           ot2 == [ot EXCEPT ![ip] = {}]
<1>0. st \in Seq(AttemptEntry) /\ WellOrdered(st, MaxPins) /\ MaxPins \in Nat
  BY LimitAssumption DEF AttemptInv
<1>1. /\ r \in Seq(AttemptEntry) /\ WellOrdered(r, MaxPins)
      /\ Entries(r) = {e \in Entries(st) : e.key # ip}
      /\ \A U, j : Since(st, j, U) /\ j # ip => Since(r, j, U)
  BY <1>0, DeleteStore
<1>2. tr2[ip] = 0 /\ \A j \in IPs : j # ip => tr2[j] = tr[j] /\ ot2[j] = ot[j]
  OBVIOUS
<1> HIDE DEF r, tr2, ot2
<1>3. \A e \in Entries(r) : e.age = qu[e.key] /\ tr2[e.key] <= e.count
  <2> TAKE e \in Entries(r)
  <2>1. e \in Entries(st) /\ e.key # ip /\ e.key \in IPs
    BY <1>0, <1>1, AttemptTypes
  <2> QED BY <2>1, <1>2 DEF AttemptInv
<1>4. ASSUME NEW j \in IPs, tr2[j] > 0
      PROVE  qu[j] <= AttemptTtl /\ Since(r, j, ot2[j])
  <2>1. j # ip
    BY <1>2, <1>4
  <2>2. tr[j] > 0 /\ ot2[j] = ot[j]
    BY <1>2, <1>4, <2>1
  <2> QED BY <2>1, <2>2, <1>1 DEF AttemptInv
<1>5. AttemptInv(r, tr2, qu, ot2)
  BY <1>1, <1>3, <1>4 DEF AttemptInv
<1> QED BY <1>5 DEF r, tr2, ot2

-----------------------------------------------------------------------------
\* What a failure does to the history: the address has one more, and another
\* address whose failures are not forgiven has one more address behind it.
LEMMA JudgedFacts ==
    ASSUME HistoryTypes, NEW ip \in IPs, Judged(ip), tries[ip] <= MaxAttempts
    PROVE  /\ HistoryTypes'
           /\ tries'[ip] = tries[ip] + 1 /\ quiet'[ip] = 0
           /\ \A j \in IPs : j # ip =>
                /\ quiet'[j] = quiet[j] /\ tries'[j] <= tries[j]
                /\ tries'[j] > 0 => /\ tries[j] > 0
                                    /\ others'[j] = others[j] \cup {ip}
                                    /\ Cardinality(others[j] \cup {ip}) < MaxPins
<1> DEFINE after(j) == IF tries[j] = 0 THEN {} ELSE others[j] \cup {ip}
           forgiven(j) == Cardinality(after(j)) >= MaxPins
<1>0. /\ \A j \in IPs : tries[j] \in 0..MaxAttempts + 1
      /\ \A j \in IPs : others[j] \subseteq IPs /\ IsFiniteSet(others[j])
      /\ MaxPins \in Nat /\ MaxPins > 0 /\ MaxAttempts \in Nat /\ AttemptTtl \in Nat
  BY LimitAssumption DEF HistoryTypes
<1>1. /\ tries' = [j \in IPs |-> CASE j = ip -> IF tries[j] > MaxAttempts THEN tries[j]
                                                ELSE tries[j] + 1
                                   [] j # ip /\ forgiven(j) -> 0
                                   [] OTHER -> tries[j]]
      /\ others' = [j \in IPs |-> IF j = ip \/ forgiven(j) THEN {} ELSE after(j)]
      /\ quiet' = [quiet EXCEPT ![ip] = 0]
  BY DEF Judged
<1>2. ASSUME NEW j \in IPs
      PROVE  /\ after(j) \subseteq IPs /\ IsFiniteSet(after(j))
             /\ Cardinality(after(j)) \in Nat
  <2>1. after(j) \subseteq IPs /\ IsFiniteSet(after(j))
    <3>1. IsFiniteSet(others[j] \cup {ip}) /\ IsFiniteSet({})
      BY <1>0, FS_AddElement, FS_EmptySet
    <3> QED BY <3>1, <1>0
  <2> HIDE DEF after
  <2> QED BY <2>1, FS_CardinalityType
<1>3. \A j \in IPs : tries[j] > 0 => after(j) = others[j] \cup {ip}
  BY <1>0
<1> HIDE DEF after
<1>4. tries'[ip] = tries[ip] + 1 /\ quiet'[ip] = 0
  BY <1>0, <1>1 DEF HistoryTypes
<1>5. ASSUME NEW j \in IPs, j # ip
      PROVE  /\ quiet'[j] = quiet[j]
             /\ forgiven(j) => tries'[j] = 0 /\ others'[j] = {}
             /\ ~forgiven(j) => tries'[j] = tries[j] /\ others'[j] = after(j)
  <2> HIDE DEF forgiven
  <2> QED BY <1>1, <1>5 DEF HistoryTypes
<1>6. others'[ip] = {}
  <2> HIDE DEF forgiven
  <2> QED BY <1>1
<1>7. ASSUME NEW j \in IPs, j # ip
      PROVE  /\ quiet'[j] = quiet[j] /\ tries'[j] <= tries[j]
             /\ tries'[j] > 0 => /\ tries[j] > 0
                                 /\ others'[j] = others[j] \cup {ip}
                                 /\ Cardinality(others[j] \cup {ip}) < MaxPins
  <2>1. CASE forgiven(j)
    BY <2>1, <1>0, <1>5, <1>7
  <2>2. CASE ~forgiven(j)
    <3>1. tries'[j] = tries[j] /\ others'[j] = after(j) /\ quiet'[j] = quiet[j]
      BY <2>2, <1>5, <1>7
    <3>2. Cardinality(after(j)) < MaxPins
      BY <2>2, <1>0, <1>2
    <3> QED BY <3>1, <3>2, <1>0, <1>3
  <2> QED BY <2>1, <2>2
<1>8. HistoryTypes'
  <2>1. \A j \in IPs : tries'[j] \in 0..MaxAttempts + 1
    <3> TAKE j \in IPs
    <3>1. CASE j = ip
      BY <3>1, <1>0, <1>4
    <3>2. CASE j # ip
      BY <3>2, <1>0, <1>5
    <3> QED BY <3>1, <3>2
  <2>2. \A j \in IPs : others'[j] \subseteq IPs /\ IsFiniteSet(others'[j])
    <3> TAKE j \in IPs
    <3>0. IsFiniteSet({})
      BY FS_EmptySet
    <3>1. CASE j = ip
      BY <3>0, <3>1, <1>6
    <3>2. CASE j # ip
      BY <3>0, <3>2, <1>2, <1>5
    <3> QED BY <3>1, <3>2
  <2>3. quiet' \in [IPs -> 0..AttemptTtl + 1]
    BY <1>0, <1>1 DEF HistoryTypes
  <2>4. tries' = [j \in IPs |-> tries'[j]] /\ others' = [j \in IPs |-> others'[j]]
    <3> HIDE DEF forgiven
    <3> QED BY <1>1
  <2>5. tries' \in [IPs -> 0..MaxAttempts + 1]
    BY <2>1, <2>4
  <2>6. others' \in [IPs -> SUBSET IPs]
    BY <2>2, <2>4
  <2> QED BY <2>2, <2>3, <2>5, <2>6 DEF HistoryTypes
<1> QED BY <1>4, <1>7, <1>8

\* An address that is not locked out has guesses left.
LEMMA GuessLeft ==
    ASSUME HistoryTypes, NEW st, AttemptInv(st, tries, quiet, others), NEW ip \in IPs,
           ~LockedIn(st, ip)
    PROVE  /\ tries[ip] < MaxAttempts
           /\ ip \in Keys(st) => /\ Entry(st, ip) \in AttemptEntry
                                 /\ Entry(st, ip).key = ip
                                 /\ Entry(st, ip).count < MaxAttempts
                                 /\ tries[ip] <= Entry(st, ip).count
           /\ ip \notin Keys(st) => tries[ip] = 0
<1>0. st \in Seq(AttemptEntry) /\ WellOrdered(st, MaxPins)
  BY DEF AttemptInv
<1>1. tries[ip] \in Nat /\ MaxAttempts \in Nat /\ MaxAttempts > 0
  BY LimitAssumption DEF HistoryTypes
<1>2. CASE ip \in Keys(st)
  <2>1. Entry(st, ip) \in Entries(st) /\ Entry(st, ip).key = ip
    BY <1>0, <1>2, EntryOfKey
  <2>2. Entry(st, ip) \in AttemptEntry /\ Entry(st, ip).count \in 1..MaxAttempts
    BY <1>0, <2>1, AttemptTypes
  <2>3. tries[ip] <= Entry(st, ip).count
    BY <2>1 DEF AttemptInv
  <2>4. ~(Entry(st, ip).count >= MaxAttempts)
    BY <1>2 DEF LockedIn
  <2>5. Entry(st, ip).count < MaxAttempts
    BY <1>1, <2>2, <2>4
  <2> QED BY <1>1, <1>2, <2>1, <2>2, <2>3, <2>5
<1>3. CASE ip \notin Keys(st)
  <2>1. ~(tries[ip] > 0)
    BY <1>3, SinceMonotone DEF AttemptInv
  <2> QED BY <1>1, <1>3, <2>1
<1> QED BY <1>2, <1>3

\* What it takes for records r to be right after a failure of ip.
LEMMA JudgedInv ==
    ASSUME HistoryTypes, NEW st, AttemptInv(st, tries, quiet, others),
           NEW ip \in IPs, Judged(ip), tries[ip] <= MaxAttempts,
           NEW r \in Seq(AttemptEntry), WellOrdered(r, MaxPins),
           \A e \in Entries(r) : e.key = ip => e.age = 0 /\ tries[ip] + 1 <= e.count,
           \A e \in Entries(r) : e.key # ip => e \in Entries(st),
           \A U : Since(r, ip, U),
           \A j \in IPs : /\ j # ip
                          /\ Since(st, j, others[j])
                          /\ Cardinality(others[j] \cup {ip}) < MaxPins
                          => Since(r, j, others[j] \cup {ip})
    PROVE  AttemptInv(r, tries', quiet', others') /\ HistoryTypes'
<1>1. /\ HistoryTypes'
      /\ tries'[ip] = tries[ip] + 1 /\ quiet'[ip] = 0
      /\ \A j \in IPs : j # ip =>
           /\ quiet'[j] = quiet[j] /\ tries'[j] <= tries[j]
           /\ tries'[j] > 0 => /\ tries[j] > 0
                               /\ others'[j] = others[j] \cup {ip}
                               /\ Cardinality(others[j] \cup {ip}) < MaxPins
  BY JudgedFacts
<1>2. AttemptTtl \in Nat
  BY LimitAssumption
<1>3. ASSUME NEW e \in Entries(r)
      PROVE  e.age = quiet'[e.key] /\ tries'[e.key] <= e.count
  <2>0. e.key \in IPs /\ e.count \in Nat
    BY AttemptTypes
  <2>1. CASE e.key = ip
    BY <2>1, <1>1, <1>3
  <2>2. CASE e.key # ip
    <3>1. e.age = quiet[e.key] /\ tries[e.key] <= e.count
      BY <2>2, <1>3 DEF AttemptInv
    <3>2. quiet'[e.key] = quiet[e.key] /\ tries'[e.key] <= tries[e.key]
      BY <1>1, <2>0, <2>2
    <3>3. tries[e.key] \in Nat /\ tries'[e.key] \in Nat
      BY <1>1, <2>0, LimitAssumption DEF HistoryTypes
    <3> QED BY <2>0, <3>1, <3>2, <3>3
  <2> QED BY <2>1, <2>2
<1>4. ASSUME NEW j \in IPs, tries'[j] > 0
      PROVE  quiet'[j] <= AttemptTtl /\ Since(r, j, others'[j])
  <2>1. CASE j = ip
    BY <2>1, <1>1, <1>2
  <2>2. CASE j # ip
    <3>1. tries[j] > 0 /\ others'[j] = others[j] \cup {ip}
          /\ Cardinality(others[j] \cup {ip}) < MaxPins /\ quiet'[j] = quiet[j]
      BY <2>2, <1>1, <1>4
    <3>2. quiet[j] <= AttemptTtl /\ Since(st, j, others[j])
      BY <3>1 DEF AttemptInv
    <3> QED BY <2>2, <3>1, <3>2
  <2> QED BY <2>1, <2>2
<1> QED BY <1>1, <1>3, <1>4 DEF AttemptInv

\* The record of the first failure of an address.
FirstFailure(ip) == [key |-> ip, age |-> 0, count |-> 1]

\* The record of a further one.
NextFailure(st, ip) == [Entry(st, ip) EXCEPT !.count = @ + 1]

\* A failure is counted in the record of its address, which is the last to be
\* evicted; a record the store has no room for is one whose failures are forgiven.
LEMMA FailedInv ==
    ASSUME HistoryTypes, NEW st, AttemptInv(st, tries, quiet, others),
           NEW ip \in IPs, Judged(ip), ~LockedIn(st, ip)
    PROVE  AttemptInv(RegisterFailure(st, ip), tries', quiet', others') /\ HistoryTypes'
<1>0. st \in Seq(AttemptEntry) /\ WellOrdered(st, MaxPins)
  BY DEF AttemptInv
<1>1. /\ MaxPins \in Nat \ {0} /\ MaxPins \in Nat /\ MaxAttempts \in Nat /\ MaxAttempts > 0
      /\ AttemptTtl \in Nat /\ tries[ip] \in Nat
  BY LimitAssumption DEF HistoryTypes
<1>2. /\ tries[ip] < MaxAttempts
      /\ ip \in Keys(st) => /\ Entry(st, ip) \in AttemptEntry
                            /\ Entry(st, ip).key = ip
                            /\ Entry(st, ip).count < MaxAttempts
                            /\ tries[ip] <= Entry(st, ip).count
      /\ ip \notin Keys(st) => tries[ip] = 0
  BY GuessLeft
<1>3. tries[ip] <= MaxAttempts
  BY <1>1, <1>2
<1>4. CASE ip \in Keys(st)
  <2>1. /\ NextFailure(st, ip) \in AttemptEntry
        /\ NextFailure(st, ip).key = ip
        /\ [NextFailure(st, ip) EXCEPT !.age = 0].key = ip
        /\ [NextFailure(st, ip) EXCEPT !.age = 0].age = 0
        /\ tries[ip] + 1 <= [NextFailure(st, ip) EXCEPT !.age = 0].count
    BY <1>1, <1>2, <1>4 DEF NextFailure, AttemptEntry
  <2>2. RegisterFailure(st, ip) = Refresh(st, NextFailure(st, ip))
    BY <1>4 DEF RegisterFailure, NextFailure
  <2> DEFINE e == NextFailure(st, ip)
             x == [e EXCEPT !.age = 0]
  <2>3. e \in AttemptEntry /\ e.key = ip /\ x.key = ip /\ x.age = 0 /\ tries[ip] + 1 <= x.count
    BY <2>1
  <2> HIDE DEF e
  <2>4. /\ Refresh(st, e) \in Seq(AttemptEntry)
        /\ WellOrdered(Refresh(st, e), MaxPins)
        /\ Entries(Refresh(st, e)) =
             {y \in Entries(st) : y.key # e.key} \cup {[e EXCEPT !.age = 0]}
        /\ Keys(Refresh(st, e)) = Keys(st) \cup {e.key}
        /\ \A U, j : Since(st, j, U) /\ j # e.key
                         => Since(Refresh(st, e), j, U \cup {e.key})
        /\ \A U : Since(Refresh(st, e), e.key, U)
    <3>1. /\ MaxPins \in Nat /\ EntrySet(AttemptEntry, AttemptTtl) /\ e \in AttemptEntry
          /\ e.key \in Keys(st) \/ Len(st) < MaxPins
      BY <1>1, <1>4, <2>3, AttemptsAreEntries
    <3> HIDE DEF x
    <3> QED BY ONLY <1>0, <3>1, RefreshStore
  <2> DEFINE r == Refresh(st, e)
  <2>5. /\ r \in Seq(AttemptEntry)
        /\ WellOrdered(r, MaxPins)
        /\ Entries(r) = {y \in Entries(st) : y.key # ip} \cup {x}
        /\ \A U, j : Since(st, j, U) /\ j # ip => Since(r, j, U \cup {ip})
        /\ \A U : Since(r, ip, U)
    BY <2>3, <2>4
  <2> HIDE DEF r, x
  <2>6. \A y \in Entries(r) : y.key = ip => y.age = 0 /\ tries[ip] + 1 <= y.count
    BY <2>3, <2>5
  <2>7. \A y \in Entries(r) : y.key # ip => y \in Entries(st)
    BY <2>3, <2>5
  <2>8. \A j \in IPs : /\ j # ip
                       /\ Since(st, j, others[j])
                       /\ Cardinality(others[j] \cup {ip}) < MaxPins
                       => Since(r, j, others[j] \cup {ip})
    BY <2>5
  <2>9. AttemptInv(r, tries', quiet', others') /\ HistoryTypes'
    BY <1>3, <2>5, <2>6, <2>7, <2>8, JudgedInv
  <2> QED BY <2>2, <2>9 DEF r, e
<1>5. CASE ip \notin Keys(st)
  <2>1. /\ FirstFailure(ip) \in AttemptEntry /\ FirstFailure(ip).key = ip
        /\ FirstFailure(ip).age = 0 /\ FirstFailure(ip).count = 1
    BY <1>1 DEF FirstFailure, AttemptEntry
  <2>2. RegisterFailure(st, ip) = Append(MakeRoom(st, MaxPins), FirstFailure(ip))
    BY <1>5 DEF RegisterFailure, FirstFailure
  <2> DEFINE room == MakeRoom(st, MaxPins)
             e == FirstFailure(ip)
             r == Append(room, e)
  <2>3. /\ room \in Seq(AttemptEntry) /\ WellOrdered(room, MaxPins) /\ Len(room) < MaxPins
        /\ Entries(room) \subseteq Entries(st)
        /\ Keys(room) \subseteq Keys(st)
        /\ \A U, k : Since(st, k, U) /\ k \in Keys(room) => Since(room, k, U)
    BY <1>0, <1>1, MakeRoomStore
  <2>4. ASSUME NEW j \in IPs, j # ip, Since(st, j, others[j]),
               Cardinality(others[j] \cup {ip}) < MaxPins
        PROVE  Since(room, j, others[j])
    <3>1. IsFiniteSet(others[j])
      BY DEF HistoryTypes
    <3>2. CASE j \in Keys(room)
      BY <3>2, <2>3, <2>4
    <3>3. CASE j \notin Keys(room)
      <4>1. Cardinality(others[j] \cup {ip}) >= MaxPins
        BY <1>0, <1>1, <1>5, <2>4, <3>1, <3>3, EvictedWhenDue
      <4>2. Cardinality(others[j] \cup {ip}) \in Nat
        BY <3>1, FS_AddElement, FS_CardinalityType
      <4> QED BY <4>1, <4>2, <2>4, <1>1
    <3> QED BY <3>2, <3>3
  <2> HIDE DEF room, e
  <2>5. e \in AttemptEntry /\ e.key = ip /\ e.age = 0 /\ e.count = 1
    BY <2>1 DEF e
  <2>6. e.key \notin Keys(room)
    BY <1>5, <2>3, <2>5
  <2>7. /\ Append(room, e) \in Seq(AttemptEntry)
        /\ WellOrdered(Append(room, e), MaxPins)
        /\ Entries(Append(room, e)) = Entries(room) \cup {e}
        /\ Keys(Append(room, e)) = Keys(room) \cup {e.key}
        /\ \A U, j : Since(room, j, U) => Since(Append(room, e), j, U \cup {e.key})
        /\ \A U : Since(Append(room, e), e.key, U)
    <3>1. MaxPins \in Nat /\ EntrySet(AttemptEntry, AttemptTtl)
      BY <1>1, AttemptsAreEntries
    <3>2. /\ room \in Seq(AttemptEntry) /\ WellOrdered(room, MaxPins) /\ Len(room) < MaxPins
          /\ e \in AttemptEntry /\ e.age = 0 /\ e.key \notin Keys(room)
      BY <2>3, <2>5, <2>6
    <3> HIDE DEF r
    <3> QED BY ONLY <3>1, <3>2, AppendStore
  <2>8. /\ r \in Seq(AttemptEntry) /\ WellOrdered(r, MaxPins)
        /\ Entries(r) = Entries(room) \cup {e}
        /\ \A U, j : Since(room, j, U) => Since(r, j, U \cup {ip})
        /\ \A U : Since(r, ip, U)
    BY <2>5, <2>7
  <2> HIDE DEF r
  <2>9. \A y \in Entries(r) : y.key = ip => y.age = 0 /\ tries[ip] + 1 <= y.count
    <3>1. \A y \in Entries(room) : y.key # ip
      BY <1>5, <2>3, <1>0, AttemptTypes
    <3>2. tries[ip] = 0
      BY <1>2, <1>5
    <3> QED BY <2>5, <2>8, <3>1, <3>2
  <2>10. \A y \in Entries(r) : y.key # ip => y \in Entries(st)
    BY <2>3, <2>5, <2>8
  <2>11. \A j \in IPs : /\ j # ip
                        /\ Since(st, j, others[j])
                        /\ Cardinality(others[j] \cup {ip}) < MaxPins
                        => Since(r, j, others[j] \cup {ip})
    BY <2>4, <2>8
  <2>12. AttemptInv(r, tries', quiet', others') /\ HistoryTypes'
    BY <1>3, <2>8, <2>9, <2>10, <2>11, JudgedInv
  <2> QED BY <2>2, <2>12 DEF r, room, e
<1> QED BY <1>4, <1>5

\* The clock: ages and the history's times advance together, and failures are
\* forgiven when their record expires.
LEMMA TickInv ==
    ASSUME HistoryTypes, AttemptInv(attempts, tries, quiet, others), Tick
    PROVE  AttemptInv(attempts, tries, quiet, others)' /\ HistoryTypes'
<1> DEFINE older(e) == [e EXCEPT !.age = IF @ > AttemptTtl THEN @ ELSE @ + 1]
<1>0. /\ attempts \in Seq(AttemptEntry) /\ WellOrdered(attempts, MaxPins)
      /\ AttemptTtl \in Nat /\ MaxPins \in Nat /\ MaxAttempts \in Nat
  BY LimitAssumption DEF AttemptInv
<1>1. ASSUME NEW ip \in IPs
      PROVE  /\ quiet[ip] \in 0..AttemptTtl + 1 /\ tries[ip] \in 0..MaxAttempts + 1
             /\ quiet'[ip] = IF quiet[ip] > AttemptTtl THEN quiet[ip] ELSE quiet[ip] + 1
             /\ quiet'[ip] > AttemptTtl => tries'[ip] = 0 /\ others'[ip] = {}
             /\ ~(quiet'[ip] > AttemptTtl) => tries'[ip] = tries[ip] /\ others'[ip] = others[ip]
  BY DEF Tick, HistoryTypes
<1>2. HistoryTypes'
  <2>1. \A ip \in IPs : quiet'[ip] \in 0..AttemptTtl + 1 /\ tries'[ip] \in 0..MaxAttempts + 1
    BY <1>0, <1>1
  <2>2. \A ip \in IPs : others'[ip] \in SUBSET IPs /\ IsFiniteSet(others'[ip])
    BY <1>1, FS_EmptySet DEF HistoryTypes
  <2>3. /\ quiet' = [ip \in IPs |-> quiet'[ip]] /\ tries' = [ip \in IPs |-> tries'[ip]]
        /\ others' = [ip \in IPs |-> others'[ip]]
    BY DEF Tick
  <2> QED BY <2>1, <2>2, <2>3 DEF HistoryTypes
<1>3. /\ Older(attempts, AttemptTtl) \in Seq(AttemptEntry)
      /\ WellOrdered(Older(attempts, AttemptTtl), MaxPins)
      /\ Entries(Older(attempts, AttemptTtl)) =
           {[e EXCEPT !.age = IF @ > AttemptTtl THEN @ ELSE @ + 1] : e \in Entries(attempts)}
      /\ Keys(Older(attempts, AttemptTtl)) = Keys(attempts)
      /\ \A U, j : Since(attempts, j, U) => Since(Older(attempts, AttemptTtl), j, U)
  BY <1>0, AttemptsAreEntries, OlderStore
<1>4. attempts' = Older(attempts, AttemptTtl)
  BY DEF Tick
<1>5. /\ attempts' \in Seq(AttemptEntry) /\ WellOrdered(attempts', MaxPins)
      /\ Entries(attempts') = {older(e) : e \in Entries(attempts)}
      /\ \A U, j : Since(attempts, j, U) => Since(attempts', j, U)
  BY <1>3, <1>4
<1>6. ASSUME NEW e \in AttemptEntry
      PROVE  /\ older(e).key = e.key /\ older(e).count = e.count
             /\ older(e).age = IF e.age > AttemptTtl THEN e.age ELSE e.age + 1
  BY DEF AttemptEntry
<1> HIDE DEF older
<1>7. ASSUME NEW x \in Entries(attempts')
      PROVE  x.age = quiet'[x.key] /\ tries'[x.key] <= x.count
  <2>1. PICK e \in Entries(attempts) : x = older(e)
    BY <1>5, <1>7
  <2>2. e \in AttemptEntry /\ e.key \in IPs /\ e.count \in 1..MaxAttempts
    BY <1>0, AttemptTypes
  <2>3. /\ x.key = e.key /\ x.count = e.count
        /\ x.age = IF e.age > AttemptTtl THEN e.age ELSE e.age + 1
    BY <1>6, <2>1, <2>2
  <2>4. e.age = quiet[e.key] /\ tries[e.key] <= e.count
    BY DEF AttemptInv
  <2>5. tries'[e.key] = 0 \/ tries'[e.key] = tries[e.key]
    BY <1>1, <2>2
  <2> QED BY <1>0, <1>1, <2>2, <2>3, <2>4, <2>5
<1>8. ASSUME NEW ip \in IPs, tries'[ip] > 0
      PROVE  quiet'[ip] <= AttemptTtl /\ Since(attempts', ip, others'[ip])
  <2>1. ~(quiet'[ip] > AttemptTtl)
    BY <1>1, <1>8
  <2>2. tries'[ip] = tries[ip] /\ others'[ip] = others[ip]
    BY <1>1, <2>1
  <2>3. Since(attempts, ip, others[ip])
    BY <1>8, <2>2 DEF AttemptInv
  <2>4. quiet'[ip] \in Nat
    BY <1>0, <1>1
  <2> QED BY <1>0, <1>5, <2>1, <2>2, <2>3, <2>4
<1> QED BY <1>2, <1>5, <1>7, <1>8 DEF AttemptInv

-----------------------------------------------------------------------------
\* The invariant holds at the start.
LEMMA InitInv == Init => IInv
<1> SUFFICES ASSUME Init PROVE IInv
  OBVIOUS
<1>0. MaxPins \in Nat /\ MaxAttempts \in Nat /\ AttemptTtl \in Nat /\ Tarpit \in Nat
  BY LimitAssumption
<1>1. PinInv(pins)
  BY <1>0 DEF Init, PinInv, WellOrdered
<1>2. HistoryTypes
  BY <1>0, FS_EmptySet DEF Init, HistoryTypes
<1>3. AttemptInv(attempts, tries, quiet, others)
  <2>1. Entries(attempts) = {} /\ WellOrdered(attempts, MaxPins)
    BY <1>0 DEF Init, Entries, WellOrdered
  <2> QED BY <2>1 DEF Init, AttemptInv
<1>4. ConnInv
  BY <1>0 DEF Init, ConnInv, NoConn
<1> QED BY <1>1, <1>2, <1>3, <1>4 DEF IInv

ConnRecord == [ip : IPs \cup {NoIp},
               phase : {"free", "idle", "tarpit", "kick", "granting", "in"},
               limit : BOOLEAN, left : 0..Tarpit]

\* What the callbacks set of a connection keeps it one.
LEMMA ConnFields ==
    ASSUME NEW r \in ConnRecord, NEW ip \in IPs, NEW lim \in BOOLEAN
    PROVE  /\ NoConn \in ConnRecord
           /\ [r EXCEPT !.ip = ip, !.phase = "idle"] \in ConnRecord
           /\ [r EXCEPT !.ip = ip, !.phase = "idle"].ip = ip
           /\ [r EXCEPT !.phase = "tarpit", !.limit = lim, !.left = Tarpit] \in ConnRecord
           /\ [r EXCEPT !.phase = "tarpit", !.limit = lim, !.left = Tarpit].ip = r.ip
<1>0. Tarpit \in 0..Tarpit /\ Tarpit \in Nat
  BY LimitAssumption
<1>1. NoConn \in ConnRecord
  BY <1>0 DEF NoConn, ConnRecord
<1>2. /\ [r EXCEPT !.ip = ip, !.phase = "idle"] \in ConnRecord
      /\ [r EXCEPT !.ip = ip, !.phase = "idle"].ip = ip
  BY DEF ConnRecord
<1>3. /\ [r EXCEPT !.phase = "tarpit", !.limit = lim, !.left = Tarpit] \in ConnRecord
      /\ [r EXCEPT !.phase = "tarpit", !.limit = lim, !.left = Tarpit].ip = r.ip
  BY <1>0 DEF ConnRecord
<1> QED BY <1>1, <1>2, <1>3

\* Every step keeps the connections well formed.
LEMMA ConnStep ==
    ASSUME ConnInv, [Next]_vars
    PROVE  ConnInv'
<1>0. Tarpit \in Nat /\ NoConn \in ConnRecord
  BY LimitAssumption DEF NoConn, ConnRecord
<1>1. ASSUME NEW c \in Conns, NEW ip \in IPs, ConnectionMade(c, ip) PROVE ConnInv'
  <2> DEFINE r == [NoConn EXCEPT !.ip = ip, !.phase = "idle"]
  <2>1. conn' = [conn EXCEPT ![c] = r]
    BY <1>1 DEF ConnectionMade
  <2>2. r \in ConnRecord /\ r.ip \in IPs
    BY <1>0, ConnFields
  <2> HIDE DEF r
  <2> QED BY <2>1, <2>2 DEF ConnInv, ConnRecord
<1>2. ASSUME NEW c \in Conns, ConnectionLost(c) PROVE ConnInv'
  BY <1>0, <1>2 DEF ConnInv, ConnectionLost, NoConn
<1>3. ASSUME NEW c \in Conns, NEW lim \in BOOLEAN, conn[c].phase = "idle",
             conn' = InTarpit(c, lim)
      PROVE  ConnInv'
  <2> DEFINE r == [conn[c] EXCEPT !.phase = "tarpit", !.limit = lim, !.left = Tarpit]
  <2>1. conn[c] \in ConnRecord /\ conn[c].ip \in IPs
    BY <1>3 DEF ConnInv, ConnRecord
  <2>2. conn' = [conn EXCEPT ![c] = r]
    BY <1>3, <2>1 DEF InTarpit, ConnInv
  <2>3. r \in ConnRecord /\ r.ip \in IPs
    BY <2>1, ConnFields
  <2> HIDE DEF r
  <2> QED BY <2>2, <2>3 DEF ConnInv, ConnRecord
<1>4. ASSUME NEW c \in Conns, NEW root, LoginLocked(c, root) PROVE ConnInv'
  BY <1>3, <1>4 DEF LoginLocked
<1>5. ASSUME NEW c \in Conns, LoginAccepted(c) PROVE ConnInv'
  BY <1>5 DEF ConnInv, LoginAccepted
<1>6. ASSUME NEW c \in Conns, NEW root, LoginFailed(c, root) PROVE ConnInv'
  <2>1. PICK lim \in BOOLEAN : conn' = InTarpit(c, lim) /\ conn[c].phase = "idle"
    BY <1>6, Zenon DEF LoginFailed, LockedIn
  <2> QED BY <1>3, <2>1
<1>7. ASSUME NEW c \in Conns, Granted(c) PROVE ConnInv'
  BY <1>7 DEF ConnInv, Granted
<1>8. ASSUME NEW c \in Conns, TarpitOver(c) PROVE ConnInv'
  <2>1. PICK ph \in {"kick", "idle"} :
            conn' = [conn EXCEPT ![c].limit = FALSE, ![c].phase = ph]
    BY <1>8 DEF TarpitOver
  <2>2. conn[c].phase = "tarpit"
    BY <1>8 DEF TarpitOver
  <2> QED BY <2>1, <2>2 DEF ConnInv
<1>9. ASSUME NEW c \in Conns, DisconnectAuthLimit(c) PROVE ConnInv'
  BY <1>0, <1>9 DEF ConnInv, DisconnectAuthLimit, NoConn
<1>10. ASSUME Sweep PROVE ConnInv'
  BY <1>10 DEF ConnInv, Sweep
<1>11. ASSUME Tick PROVE ConnInv'
  BY <1>0, <1>11 DEF ConnInv, Tick
<1>12. ASSUME UNCHANGED vars PROVE ConnInv'
  BY <1>12 DEF ConnInv, vars
<1> QED BY <1>1, <1>2, <1>4, <1>5, <1>6, <1>7, <1>8, <1>9, <1>10, <1>11, <1>12 DEF Next

\* Every step keeps both stores and the history.
LEMMA StoresStep ==
    ASSUME IInv, [Next]_vars
    PROVE  /\ PinInv(pins)'
           /\ AttemptInv(attempts, tries, quiet, others)'
           /\ HistoryTypes'
<1> DEFINE Kept == Purge(attempts, AttemptTtl)
           Good == /\ PinInv(pins)'
                   /\ AttemptInv(attempts, tries, quiet, others)'
                   /\ HistoryTypes'
<1>0. /\ PinInv(pins) /\ AttemptInv(attempts, tries, quiet, others) /\ HistoryTypes
      /\ \A c \in Conns : conn[c].phase = "idle" => conn[c].ip \in IPs
  BY DEF IInv, ConnInv
<1>1. AttemptInv(Kept, tries, quiet, others)
  BY <1>0, AttemptPurge
<1>2. ASSUME UNCHANGED history PROVE HistoryTypes'
  BY <1>0, <1>2 DEF history, HistoryTypes
<1>3. ASSUME UNCHANGED history, attempts' = Kept
      PROVE  AttemptInv(attempts, tries, quiet, others)'
  BY <1>1, <1>3 DEF history
<1>4. ASSUME UNCHANGED <<pins, attempts, history>> PROVE Good
  BY <1>0, <1>2, <1>4 DEF history
<1>5. ASSUME pins' = Purge(pins, PinTtl) PROVE PinInv(pins)'
  BY <1>0, <1>5, PinPurge
<1>6. ASSUME NEW ip \in IPs, NEW root, pins' = PinsAfterLogin(ip, root) PROVE PinInv(pins)'
  BY <1>0, <1>6, PinsAfterLoginInv
<1>7. ASSUME NEW c \in Conns, NEW ip \in IPs, ConnectionMade(c, ip) PROVE Good
  <2>1. pins' = GetOrPin(ip) /\ attempts' = Kept /\ UNCHANGED history
    BY <1>7 DEF ConnectionMade
  <2>2. PinInv(pins)'
    BY <2>1, <1>0, GetOrPinInv
  <2> QED BY <2>1, <2>2, <1>2, <1>3
<1>8. ASSUME NEW c \in Conns, ConnectionLost(c) PROVE Good
  BY <1>4, <1>8 DEF ConnectionLost
<1>9. ASSUME NEW c \in Conns, NEW root, LoginLocked(c, root) PROVE Good
  <2>1. /\ conn[c].ip \in IPs /\ pins' = PinsAfterLogin(conn[c].ip, root)
        /\ attempts' = Kept /\ UNCHANGED history
    BY <1>0, <1>9 DEF LoginLocked
  <2> QED BY <2>1, <1>2, <1>3, <1>6
<1>10. ASSUME NEW c \in Conns, LoginAccepted(c) PROVE Good
  <2> DEFINE ip == conn[c].ip
  <2>1. /\ ip \in IPs /\ pins' = PinsAfterLogin(ip, TRUE)
        /\ attempts' = Delete(Kept, ip) /\ tries' = [tries EXCEPT ![ip] = 0]
        /\ others' = [others EXCEPT ![ip] = {}] /\ quiet' = quiet
    BY <1>0, <1>10 DEF LoginAccepted
  <2> HIDE DEF ip, Kept
  <2>2. AttemptInv(Delete(Kept, ip), [tries EXCEPT ![ip] = 0], quiet, [others EXCEPT ![ip] = {}])
    BY <1>0, <1>1, <2>1, AcceptInv DEF HistoryTypes
  <2>3. HistoryTypes'
    BY <1>0, <2>1, FS_EmptySet, LimitAssumption DEF HistoryTypes
  <2>4. PinInv(pins)'
    BY <2>1, <1>6
  <2>5. AttemptInv(attempts, tries, quiet, others)'
    BY <2>1, <2>2
  <2> QED BY <2>3, <2>4, <2>5
<1>11. ASSUME NEW c \in Conns, NEW root, LoginFailed(c, root) PROVE Good
  <2> DEFINE ip == conn[c].ip
  <2>1. /\ ip \in IPs /\ pins' = PinsAfterLogin(ip, root) /\ ~LockedIn(Kept, ip)
        /\ attempts' = RegisterFailure(Kept, ip) /\ Judged(ip)
    BY <1>0, <1>11 DEF LoginFailed
  <2> HIDE DEF ip, Kept
  <2>2. AttemptInv(RegisterFailure(Kept, ip), tries', quiet', others') /\ HistoryTypes'
    BY <1>0, <1>1, <2>1, FailedInv
  <2>3. PinInv(pins)'
    BY <2>1, <1>6
  <2>4. AttemptInv(attempts, tries, quiet, others)'
    BY <2>1, <2>2
  <2> QED BY <2>2, <2>3, <2>4
<1>12. ASSUME NEW c \in Conns, Granted(c) PROVE Good
  BY <1>4, <1>12 DEF Granted
<1>13. ASSUME NEW c \in Conns, TarpitOver(c) PROVE Good
  BY <1>2, <1>3, <1>5, <1>13 DEF TarpitOver
<1>14. ASSUME NEW c \in Conns, DisconnectAuthLimit(c) PROVE Good
  BY <1>4, <1>14 DEF DisconnectAuthLimit
<1>15. ASSUME Sweep PROVE Good
  BY <1>2, <1>3, <1>5, <1>15 DEF Sweep, history
<1>16. ASSUME Tick PROVE Good
  <2>1. pins' = Older(pins, PinTtl)
    BY <1>16 DEF Tick
  <2>2. PinInv(pins)'
    BY <1>0, <2>1, PinOlder
  <2> QED BY <1>0, <1>16, <2>2, TickInv
<1>17. ASSUME UNCHANGED vars PROVE Good
  BY <1>4, <1>17 DEF vars, history
<1> HIDE DEF Good
<1>18. Good
  BY <1>7, <1>8, <1>9, <1>10, <1>11, <1>12, <1>13, <1>14, <1>15, <1>16, <1>17 DEF Next
<1> QED BY <1>18 DEF Good

\* IInv is an inductive invariant.
THEOREM Invariance == Spec => []IInv
<1>1. ASSUME IInv, [Next]_vars PROVE IInv'
  <2>1. ConnInv'
    BY <1>1, ConnStep DEF IInv
  <2>2. PinInv(pins)' /\ AttemptInv(attempts, tries, quiet, others)' /\ HistoryTypes'
    BY <1>1, StoresStep
  <2> QED BY <2>1, <2>2 DEF IInv
<1> QED BY <1>1, InitInv, PTL DEF Spec

\* Neither store outgrows max_pins or loses the order of use.
THEOREM StoresStayOrdered == Spec => []StoresOrdered
<1>1. IInv => StoresOrdered
  BY DEF IInv, PinInv, AttemptInv, StoresOrdered
<1> QED BY <1>1, Invariance, PTL

\* No address gets more than max_attempts guesses before they are forgiven, from
\* whatever connections and in whatever order they come.
THEOREM GuessesStayLimited == Spec => []GuessLimit
<1>1. ASSUME IInv PROVE GuessLimit
  <2> SUFFICES ASSUME NEW ip \in IPs, tries[ip] > 0 PROVE tries[ip] <= MaxAttempts
    BY <1>1, LimitAssumption DEF IInv, HistoryTypes, GuessLimit
  <2>1. attempts \in Seq(AttemptEntry) /\ Since(attempts, ip, others[ip])
    BY <1>1 DEF IInv, AttemptInv
  <2>2. ip \in Keys(attempts)
    BY <2>1, SinceMonotone
  <2>3. PICK e \in Entries(attempts) : e.key = ip
    BY <2>1, <2>2, AttemptTypes
  <2>4. e.count \in 1..MaxAttempts
    BY <2>1, AttemptTypes
  <2>5. tries[ip] <= e.count
    BY <1>1, <2>3 DEF IInv, AttemptInv
  <2>6. tries[ip] \in Nat /\ MaxAttempts \in Nat
    BY <1>1, LimitAssumption DEF IInv, HistoryTypes
  <2> QED BY <2>4, <2>5, <2>6
<1> QED BY <1>1, Invariance, PTL

\* A refused attempt never prolongs a lockout.
THEOREM LockoutStaysTimed == Spec => []LockoutIsTimed
<1>1. ASSUME IInv PROVE LockoutIsTimed
  <2> DEFINE kept == Purge(attempts, AttemptTtl)
  <2>1. /\ AttemptInv(kept, tries, quiet, others)
        /\ Entries(kept) = {e \in Entries(attempts) : e.age <= AttemptTtl}
    BY <1>1, AttemptPurge DEF IInv
  <2> HIDE DEF kept
  <2>2. ASSUME NEW ip \in IPs, LockedIn(kept, ip) PROVE quiet[ip] <= AttemptTtl
    <3>1. kept \in Seq(AttemptEntry) /\ ip \in Keys(kept)
      BY <2>1, <2>2 DEF AttemptInv, LockedIn
    <3>2. PICK e \in Entries(kept) : e.key = ip
      BY <3>1, AttemptTypes
    <3>3. e.age <= AttemptTtl /\ e.age = quiet[ip]
      BY <2>1, <3>2 DEF AttemptInv
    <3> QED BY <3>3
  <2> QED BY <2>2 DEF LockoutIsTimed, kept
<1> QED BY <1>1, Invariance, PTL

\* A connection leaves the tarpit for another guess only while its address has
\* guesses left, although others may have used them up during the wait.
THEOREM SpentGuessesEndTheSession == Spec => NoGuessWhenSpent
<1>1. ASSUME IInv, [Next]_vars
      PROVE  [\A c \in Conns :
                conn[c].phase = "tarpit" /\ conn'[c].phase = "idle"
                    => tries[conn[c].ip] < MaxAttempts]_vars
  <2> SUFFICES ASSUME Next, NEW d \in Conns, conn[d].phase = "tarpit", conn'[d].phase = "idle"
               PROVE  tries[conn[d].ip] < MaxAttempts
    BY <1>1
  <2>0. /\ HistoryTypes /\ AttemptInv(attempts, tries, quiet, others)
        /\ conn \in [Conns -> ConnRecord] /\ conn[d].ip \in IPs
    BY <1>1 DEF IInv, ConnInv, ConnRecord
  <2>1. ASSUME NEW c \in Conns, NEW r, conn' = [conn EXCEPT ![c] = r],
               conn[c].phase # "tarpit"
        PROVE  FALSE
    BY <2>0, <2>1
  <2>2. ASSUME NEW c \in Conns, NEW ip \in IPs, ConnectionMade(c, ip) PROVE FALSE
    BY <2>1, <2>2 DEF ConnectionMade
  <2>3. ASSUME NEW c \in Conns, conn' = [conn EXCEPT ![c] = NoConn] PROVE FALSE
    BY <2>0, <2>3 DEF NoConn
  <2>4. ASSUME NEW c \in Conns, NEW lim, conn[c].phase = "idle", conn' = InTarpit(c, lim)
        PROVE  FALSE
    BY <2>0, <2>4 DEF InTarpit, ConnRecord
  <2>5. ASSUME NEW c \in Conns, NEW root, LoginLocked(c, root) PROVE FALSE
    BY <2>4, <2>5 DEF LoginLocked
  <2>6. ASSUME NEW c \in Conns, LoginAccepted(c) PROVE FALSE
    BY <2>0, <2>6 DEF LoginAccepted
  <2>7. ASSUME NEW c \in Conns, NEW root, LoginFailed(c, root) PROVE FALSE
    BY <2>4, <2>7 DEF LoginFailed
  <2>8. ASSUME NEW c \in Conns, Granted(c) PROVE FALSE
    BY <2>0, <2>8 DEF Granted
  <2>9. ASSUME NEW c \in Conns, TarpitOver(c) PROVE tries[conn[d].ip] < MaxAttempts
    <3> DEFINE kept == Purge(attempts, AttemptTtl)
    <3>1. c = d
      BY <2>0, <2>9 DEF TarpitOver
    <3>2. ~LockedIn(kept, conn[d].ip)
      <4>1. attempts' = kept
        BY <2>9 DEF TarpitOver
      <4> SUFFICES ASSUME LockedIn(attempts', conn[d].ip) PROVE FALSE
        BY <4>1
      <4>2. conn' = [conn EXCEPT ![d].limit = FALSE, ![d].phase = "kick"]
        BY <2>9, <3>1 DEF TarpitOver
      <4> QED BY <4>2, <2>0 DEF ConnRecord
    <3>3. AttemptInv(kept, tries, quiet, others)
      BY <2>0, AttemptPurge
    <3> HIDE DEF kept
    <3> QED BY <2>0, <3>2, <3>3, GuessLeft
  <2>10. ASSUME UNCHANGED conn PROVE FALSE
    BY <2>10
  <2>11. ASSUME Tick PROVE FALSE
    <3>1. conn'[d].phase = conn[d].phase
      BY <2>0, <2>11 DEF Tick, ConnRecord
    <3> QED BY <3>1
  <2> QED BY <2>2, <2>3, <2>5, <2>6, <2>7, <2>8, <2>9, <2>10, <2>11
          DEF Next, ConnectionLost, DisconnectAuthLimit, Sweep
<1> QED BY <1>1, Invariance, PTL DEF Spec, NoGuessWhenSpent
=============================================================================
