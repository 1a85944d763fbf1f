------------------------------ MODULE LruStore ------------------------------
(***************************************************************************)
(* The bounded OrderedDict with a time to live that session_manager.py     *)
(* keeps once and auth.py keeps twice.  A store is the sequence of its     *)
(* entries, least recently used first.  An entry carries its key and, for  *)
(* its last_seen, its age: how long ago that was.  Ages stop growing one   *)
(* past the time to live, where every comparison has the same outcome.     *)
(***************************************************************************)
EXTENDS Naturals, Sequences

Keys(store) == {store[i].key : i \in DOMAIN store}

Entry(store, k) == store[CHOOSE i \in DOMAIN store : store[i].key = k]

\* The entries at the places of S, in their order.
Selected(store, S) ==
    LET sel[n \in 0..Len(store)] ==
          IF n = 0 THEN <<>>
          ELSE IF n \in S THEN Append(sel[n - 1], store[n])
          ELSE sel[n - 1]
    IN  sel[Len(store)]

\* Mutation: >= for > in the test of the age.
PurgeEarly(store, ttl) ==
    Selected(store, {i \in DOMAIN store : store[i].age < ttl})

\* _purge_expired_unlocked
Purge(store, ttl) ==
    Selected(store, {i \in DOMAIN store : store[i].age <= ttl})

\* del store[k]
Delete(store, k) ==
    Selected(store, {i \in DOMAIN store : store[i].key # k})

\* last_seen = now and move_to_end, or the insertion of a new entry.
Refresh(store, e) == Append(Delete(store, e.key), [e EXCEPT !.age = 0])

\* while len(store) >= max: popitem(last=False)
MakeRoom(store, max) ==
    IF Len(store) < max THEN store
    ELSE SubSeq(store, Len(store) - max + 2, Len(store))

\* The clock moves on for every entry.
Older(store, ttl) ==
    [i \in DOMAIN store |->
        [store[i] EXCEPT !.age = IF @ > ttl THEN @ ELSE @ + 1]]

\* One entry per key, no more than max of them, and the order of use is the
\* order of last_seen, so that eviction takes the entry idle for longest.
WellOrdered(store, max) ==
    /\ Len(store) <= max
    /\ \A i, j \in DOMAIN store : i < j =>
         /\ store[i].key # store[j].key
         /\ store[i].age >= store[j].age
=============================================================================
