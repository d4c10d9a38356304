------------------------ MODULE ResolverCacheProofs ------------------------
(***************************************************************************)
(* The cache of the resolver, for every value of the constants.            *)
(*                                                                         *)
(* CacheInv is the agreement of the map and the queue, with the types it   *)
(* needs and the fact that the request under way is not cached.            *)
(* RecentInv says of every call that resolved a request nothing has        *)
(* dropped since what RecentIsCached only says at the limit: the request   *)
(* is cached with nothing newer in the queue than what was resolved after  *)
(* the call, or as many others as the cache holds were.  AnswerInv says    *)
(* what a lookup that is still current has read so far: of each file it    *)
(* has passed, what the process says now.                                  *)
(*                                                                         *)
(* The lemmas come first: what a list of a finite set in an order is, of   *)
(* which retain, the sort and the removal of duplicates are made, and what *)
(* retain, push_back and pop_front do to the entries of a queue without    *)
(* duplicates and to the entries newer than a given one.                   *)
(*                                                                         *)
(* The last two parts are about the lookups: which desktop entry is left   *)
(* of those with one id, and that a chain of fall-backs ends with the text *)
(* for an unknown application only where all before it are missing.        *)
(***************************************************************************)
EXTENDS ResolverCache, FiniteSetTheorems, SequenceTheorems, WellFoundedInduction, TLAPS

-----------------------------------------------------------------------------
(* Lists of the members of a finite set in an order. *)

\* A total order on a set.
Ordered(set, order) ==
  /\ \A x \in set : <<x, x>> \in order
  /\ \A x, y \in set : <<x, y>> \in order \/ <<y, x>> \in order
  /\ \A x, y \in set : <<x, y>> \in order /\ <<y, x>> \in order => x = y
  /\ \A x, y, z \in set : <<x, y>> \in order /\ <<y, z>> \in order => <<x, z>> \in order

\* The place of a member in the list.
Place(set, order, x) == Cardinality({y \in set : <<y, x>> \in order})

LEMMA PlaceType ==
  ASSUME NEW set, IsFiniteSet(set), NEW order, Ordered(set, order), NEW x \in set
  PROVE  Cardinality(set) \in Nat /\ Place(set, order, x) \in 1..Cardinality(set)
  <1> DEFINE low == {y \in set : <<y, x>> \in order}
  <1>1. Cardinality(set) \in Nat
    BY FS_CardinalityType
  <1>2. IsFiniteSet(low) /\ Cardinality(low) <= Cardinality(set) /\ Cardinality(low) \in Nat
    BY FS_Subset, FS_CardinalityType
  <1>3. Cardinality(low) # 0
    <2>1. x \in low
      BY DEF Ordered
    <2> QED BY <1>2, <2>1, FS_EmptySet
  <1> HIDE DEF low
  <1>4. Cardinality(low) \in 1..Cardinality(set)
    BY <1>1, <1>2, <1>3
  <1> QED BY <1>1, <1>4 DEF Place, low

LEMMA PlaceIncreases ==
  ASSUME NEW set, IsFiniteSet(set), NEW order, Ordered(set, order),
         NEW x \in set, NEW y \in set, x # y, <<x, y>> \in order
  PROVE  Place(set, order, x) < Place(set, order, y)
  <1> DEFINE low == {z \in set : <<z, x>> \in order}  high == {z \in set : <<z, y>> \in order}
  <1>1. IsFiniteSet(high)
    BY FS_Subset
  <1>2. low \in SUBSET high /\ y \in high /\ y \notin low
    BY DEF Ordered
  <1> HIDE DEF low, high
  <1>3. Cardinality(low) <= Cardinality(high) /\ Cardinality(high) # Cardinality(low)
    BY <1>1, <1>2, FS_Subset
  <1>4. Cardinality(low) \in Nat /\ Cardinality(high) \in Nat
    BY <1>1, <1>2, FS_Subset, FS_CardinalityType
  <1>5. Cardinality(low) < Cardinality(high)
    BY <1>3, <1>4
  <1> QED BY <1>5 DEF Place, low, high

LEMMA PlaceOnto ==
  ASSUME NEW set, IsFiniteSet(set), NEW order, Ordered(set, order), NEW k \in 1..Cardinality(set)
  PROVE  \E x \in set : Place(set, order, x) = k
  <1> DEFINE size == Cardinality(set)  f == [x \in set |-> Place(set, order, x)]
  <1>1. size \in Nat
    BY FS_CardinalityType
  <1>2. f \in [set -> 1..size]
    BY PlaceType
  <1>3. \A x, y \in set : f[x] = f[y] => x = y
    <2> SUFFICES ASSUME NEW x \in set, NEW y \in set, x # y
                 PROVE  Place(set, order, x) # Place(set, order, y)
      OBVIOUS
    <2>1. Place(set, order, x) \in 1..size /\ Place(set, order, y) \in 1..size
      BY PlaceType
    <2> HIDE DEF size
    <2>2. CASE <<x, y>> \in order
      <3>1. Place(set, order, x) < Place(set, order, y)
        BY <2>2, PlaceIncreases
      <3> QED BY <1>1, <2>1, <3>1
    <2>3. CASE <<y, x>> \in order
      <3>1. Place(set, order, y) < Place(set, order, x)
        BY <2>3, PlaceIncreases
      <3> QED BY <1>1, <2>1, <3>1
    <2> QED BY <2>2, <2>3 DEF Ordered
  <1>4. f \in Injection(set, 1..size)
    <2> HIDE DEF size
    <2> QED BY <1>2, <1>3 DEF Injection, IsInjective
  <1>5. IsFiniteSet(1..size) /\ Cardinality(1..size) = size
    <2>1. \A m \in Nat : IsFiniteSet(1..m) /\ Cardinality(1..m) = m
      BY FS_Interval
    <2> QED BY <1>1, <2>1
  <1>6. f \in Surjection(set, 1..size)
    <2> HIDE DEF f
    <2> QED BY <1>4, <1>5, FS_Injection
  <1> QED BY <1>6 DEF Surjection

\* The list has every member once, the earlier in the order first.
LEMMA ListedIs ==
  ASSUME NEW set, IsFiniteSet(set), NEW order, Ordered(set, order)
  PROVE  LET size == Cardinality(set)
             at   == Listed(set, order)
         IN  /\ size \in Nat /\ at \in [1..size -> set]
             /\ \A k, l \in 1..size : k < l => <<at[k], at[l]>> \in order /\ at[k] # at[l]
             /\ \A x \in set : \E k \in 1..size : at[k] = x
  <1> DEFINE size == Cardinality(set)  at == Listed(set, order)
  <1>1. size \in Nat
    BY FS_CardinalityType
  <1>2. at = [k \in 1..size |-> CHOOSE x \in set : Place(set, order, x) = k]
    BY DEF Listed, Place
  <1>3. \A k \in 1..size : at[k] \in set /\ Place(set, order, at[k]) = k
    <2> HIDE DEF at
    <2>1. \A k \in 1..size : \E x \in set : Place(set, order, x) = k
      BY PlaceOnto
    <2> QED BY <1>2, <2>1
  <1> HIDE DEF at
  <1>4. at \in [1..size -> set]
    BY <1>2, <1>3
  <1> HIDE DEF size
  <1>5. ASSUME NEW k \in 1..size, NEW l \in 1..size, k < l
        PROVE  <<at[k], at[l]>> \in order /\ at[k] # at[l]
    <2>1. at[k] \in set /\ at[l] \in set /\ at[k] # at[l]
      BY <1>1, <1>3, <1>5
    <2>2. ASSUME <<at[l], at[k]>> \in order PROVE FALSE
      <3>1. Place(set, order, at[l]) < Place(set, order, at[k])
        BY <2>1, <2>2, PlaceIncreases
      <3>2. Place(set, order, at[l]) = l /\ Place(set, order, at[k]) = k
        BY <1>3
      <3> QED BY <1>1, <1>5, <3>1, <3>2
    <2> QED BY <2>1, <2>2 DEF Ordered
  <1>6. ASSUME NEW x \in set PROVE \E k \in 1..size : at[k] = x
    <2> DEFINE k == Place(set, order, x)
    <2>1. k \in 1..size
      BY PlaceType DEF size
    <2> HIDE DEF k
    <2>2. at[k] \in set /\ Place(set, order, at[k]) = k
      BY <1>3, <2>1
    <2>3. at[k] = x
      <3>1. ASSUME at[k] # x, <<at[k], x>> \in order PROVE FALSE
        <4>1. Place(set, order, at[k]) < Place(set, order, x)
          BY <2>2, <3>1, PlaceIncreases
        <4> QED BY <1>1, <2>1, <2>2, <4>1 DEF k
      <3>2. ASSUME at[k] # x, <<x, at[k]>> \in order PROVE FALSE
        <4>1. Place(set, order, x) < Place(set, order, at[k])
          BY <2>2, <3>2, PlaceIncreases
        <4> QED BY <1>1, <2>1, <2>2, <4>1 DEF k
      <3> QED BY <2>2, <3>1, <3>2 DEF Ordered
    <2> QED BY <2>1, <2>3
  <1> QED BY <1>1, <1>4, <1>5, <1>6 DEF at, size

\* What the list of indices says of the entries that are picked.
Lists(at, kept, entries) ==
  LET size == Cardinality(kept)
  IN  /\ size \in Nat /\ at \in [1..size -> kept]
      /\ Picked(entries, kept) = [k \in 1..size |-> entries[at[k]]]
      /\ \A k, l \in 1..size : k < l => at[k] < at[l]
      /\ \A i \in kept : \E k \in 1..size : at[k] = i

LEMMA PickedIs ==
  ASSUME NEW n \in Nat, NEW kept \in SUBSET (1..n), NEW entries
  PROVE  \E at : Lists(at, kept, entries)
  <1> DEFINE order == {pair \in kept \X kept : pair[1] <= pair[2]}
             size  == Cardinality(kept)
             at    == Listed(kept, order)
  <1>1. IsFiniteSet(kept) /\ kept \subseteq Nat
    <2>1. 1 \in Int /\ n \in Int
      OBVIOUS
    <2>2. IsFiniteSet(1..n)
      BY <2>1, FS_Interval
    <2>3. IsFiniteSet(kept)
      BY <2>2, FS_Subset
    <2> QED BY <2>3
  <1>2. \A i, j \in kept : <<i, j>> \in order <=> i <= j
    OBVIOUS
  <1>3. Picked(entries, kept) = [k \in DOMAIN at |-> entries[at[k]]]
    BY DEF Picked
  <1> HIDE DEF order
  <1>4. Ordered(kept, order)
    BY <1>1, <1>2 DEF Ordered
  <1>5. /\ size \in Nat /\ at \in [1..size -> kept]
        /\ \A k, l \in 1..size : k < l => <<at[k], at[l]>> \in order /\ at[k] # at[l]
        /\ \A i \in kept : \E k \in 1..size : at[k] = i
    BY <1>1, <1>4, ListedIs
  <1> HIDE DEF at, size
  <1>6. ASSUME NEW k \in 1..size, NEW l \in 1..size, k < l PROVE at[k] < at[l]
    <2>1. at[k] \in kept /\ at[l] \in kept /\ <<at[k], at[l]>> \in order /\ at[k] # at[l]
      BY <1>5, <1>6
    <2>2. at[k] \in Nat /\ at[l] \in Nat /\ at[k] <= at[l]
      BY <1>1, <1>2, <2>1
    <2> QED BY <2>1, <2>2
  <1>7. Lists(at, kept, entries)
    BY <1>3, <1>5, <1>6 DEF Lists, size
  <1> QED BY <1>7

\* What is picked are the entries at the indices.
LEMMA PickedSet ==
  ASSUME NEW n \in Nat, NEW kept \in SUBSET (1..n), NEW entries
  PROVE  ToSet(Picked(entries, kept)) = {entries[i] : i \in kept}
  <1>1. PICK at : Lists(at, kept, entries)
    BY PickedIs
  <1> DEFINE rest == Picked(entries, kept)  size == Cardinality(kept)
  <1>2. /\ at \in [1..size -> kept] /\ rest = [k \in 1..size |-> entries[at[k]]]
        /\ \A i \in kept : \E k \in 1..size : at[k] = i
    BY <1>1 DEF Lists
  <1> HIDE DEF rest, size
  <1>3. DOMAIN rest = 1..size /\ \A k \in 1..size : rest[k] = entries[at[k]] /\ at[k] \in kept
    <2>1. \A k \in 1..size : at[k] \in kept
      BY <1>2
    <2>2. DOMAIN rest = 1..size
      BY <1>2
    <2>3. \A k \in 1..size : rest[k] = entries[at[k]]
      BY <1>2
    <2> QED BY <2>1, <2>2, <2>3
  <1>4. ASSUME NEW x \in ToSet(rest) PROVE x \in {entries[i] : i \in kept}
    <2>1. PICK k \in 1..size : x = rest[k]
      BY <1>3, <1>4 DEF ToSet
    <2> QED BY <1>3, <2>1
  <1>5. ASSUME NEW i \in kept PROVE entries[i] \in ToSet(rest)
    BY <1>2, <1>3 DEF ToSet
  <1> QED BY <1>4, <1>5 DEF rest

-----------------------------------------------------------------------------
(* Queues: what retain, pop_front and push_back leave of one. *)

\* The entries of a queue after an entry.
Newer(queue, entry) ==
  {other \in ToSet(queue) : \E i, j \in DOMAIN queue : i < j /\ queue[i] = entry /\ queue[j] = other}

\* The indices that retain keeps.
Kept(queue, entry) == {i \in DOMAIN queue : queue[i] # entry}

LEMMA WithoutIndices ==
  ASSUME NEW S, NEW queue \in Seq(S), NEW entry
  PROVE  /\ \E at : Lists(at, Kept(queue, entry), queue)
         /\ Without(queue, entry) = Picked(queue, Kept(queue, entry))
  <1>1. Without(queue, entry) = Picked(queue, Kept(queue, entry))
    BY DEF Without, Kept
  <1>2. DOMAIN queue = 1..Len(queue) /\ Len(queue) \in Nat /\ Kept(queue, entry) \in SUBSET (1..Len(queue))
    BY DEF Kept
  <1> QED BY <1>1, <1>2, PickedIs

\* retain drops the entry and nothing else, and leaves the others in their order.
LEMMA WithoutQueue ==
  ASSUME NEW S, NEW queue \in Seq(S), NEW entry
  PROVE  /\ Without(queue, entry) \in Seq(S)
         /\ ToSet(Without(queue, entry)) = ToSet(queue) \ {entry}
         /\ IsInjective(queue) => IsInjective(Without(queue, entry))
         /\ \A x : Newer(Without(queue, entry), x) \subseteq Newer(queue, x)
  <1> DEFINE kept == Kept(queue, entry)
             size == Cardinality(kept)
             rest == Without(queue, entry)
  <1>1. PICK at :
          /\ size \in Nat /\ at \in [1..size -> kept]
          /\ rest = [k \in 1..size |-> queue[at[k]]]
          /\ \A k, l \in 1..size : k < l => at[k] < at[l]
          /\ \A i \in kept : \E k \in 1..size : at[k] = i
    BY WithoutIndices DEF Lists
  <1>2. kept \subseteq DOMAIN queue /\ \A i \in DOMAIN queue : queue[i] \in S /\ i \in Nat
    BY DEF Kept
  <1>3. \A i \in DOMAIN queue : i \in kept <=> queue[i] # entry
    BY DEF Kept
  <1> HIDE DEF kept, size, rest
  <1>4. DOMAIN rest = 1..size /\ \A k \in 1..size : rest[k] = queue[at[k]] /\ at[k] \in kept
    BY <1>1
  <1>5. rest \in Seq(S)
    <2>1. \A k \in 1..size : queue[at[k]] \in S
      BY <1>1, <1>2
    <2>2. rest \in [1..size -> S]
      BY <1>1, <2>1
    <2> QED BY <1>1, <2>2
  <1>6. ToSet(rest) = ToSet(queue) \ {entry}
    <2>1. ASSUME NEW x \in ToSet(rest) PROVE x \in ToSet(queue) \ {entry}
      BY <1>2, <1>3, <1>4, <2>1 DEF ToSet
    <2>2. ASSUME NEW x \in ToSet(queue) \ {entry} PROVE x \in ToSet(rest)
      <3>1. PICK i \in DOMAIN queue : queue[i] = x
        BY <2>2 DEF ToSet
      <3>2. PICK k \in 1..size : at[k] = i
        BY <1>1, <1>3, <2>2, <3>1
      <3> QED BY <1>4, <3>1, <3>2 DEF ToSet
    <2> QED BY <2>1, <2>2
  <1>7. ASSUME IsInjective(queue), NEW k \in 1..size, NEW l \in 1..size, rest[k] = rest[l]
        PROVE  k = l
    <2>1. at[k] = at[l]
      BY <1>2, <1>4, <1>7 DEF IsInjective
    <2> QED BY <1>1, <1>2, <1>4, <2>1
  <1>8. ASSUME NEW x, NEW y \in Newer(rest, x) PROVE y \in Newer(queue, x)
    <2>1. PICK k, l \in 1..size : k < l /\ rest[k] = x /\ rest[l] = y
      BY <1>4, <1>8 DEF Newer
    <2>2. at[k] \in DOMAIN queue /\ at[l] \in DOMAIN queue /\ at[k] < at[l]
      BY <1>1, <1>2, <2>1
    <2>3. queue[at[k]] = x /\ queue[at[l]] = y
      BY <1>4, <2>1
    <2> QED BY <2>2, <2>3 DEF Newer, ToSet
  <1>9. IsInjective(queue) => IsInjective(rest)
    BY <1>4, <1>7 DEF IsInjective
  <1> QED BY <1>5, <1>6, <1>8, <1>9 DEF rest

\* push_back of an entry that is not in the queue.
LEMMA AppendQueue ==
  ASSUME NEW S, NEW queue \in Seq(S), NEW entry \in S, entry \notin ToSet(queue)
  PROVE  /\ Append(queue, entry) \in Seq(S)
         /\ ToSet(Append(queue, entry)) = ToSet(queue) \cup {entry}
         /\ IsInjective(queue) => IsInjective(Append(queue, entry))
         /\ Newer(Append(queue, entry), entry) = {}
         /\ \A x : Newer(Append(queue, entry), x) \subseteq Newer(queue, x) \cup {entry}
  <1> DEFINE long == Append(queue, entry)  n == Len(queue)
  <1>1. /\ n \in Nat /\ DOMAIN queue = 1..n /\ DOMAIN long = 1..(n + 1)
        /\ long[n + 1] = entry /\ \A i \in 1..n : long[i] = queue[i] /\ queue[i] # entry
        /\ long \in Seq(S)
    BY DEF ToSet
  <1> HIDE DEF long, n
  <1>2. ToSet(long) = ToSet(queue) \cup {entry}
    BY <1>1 DEF ToSet
  <1>3. IsInjective(queue) => IsInjective(long)
    BY <1>1 DEF IsInjective
  <1>4. ASSUME NEW y \in Newer(long, entry) PROVE FALSE
    BY <1>1, <1>4 DEF Newer
  <1>5. ASSUME NEW x, NEW y \in Newer(long, x), y # entry PROVE y \in Newer(queue, x)
    <2>1. PICK i, j \in 1..(n + 1) : i < j /\ long[i] = x /\ long[j] = y
      BY <1>1, <1>5 DEF Newer
    <2>2. i \in 1..n /\ j \in 1..n
      BY <1>1, <1>5, <2>1
    <2> QED BY <1>1, <2>1, <2>2 DEF Newer, ToSet
  <1> QED BY <1>1, <1>2, <1>3, <1>4, <1>5 DEF long

\* pop_front: every other entry is newer than the one dropped.
LEMMA TailQueue ==
  ASSUME NEW S, NEW queue \in Seq(S), queue # <<>>, IsInjective(queue)
  PROVE  /\ Tail(queue) \in Seq(S) /\ Head(queue) \in S
         /\ ToSet(Tail(queue)) = ToSet(queue) \ {Head(queue)}
         /\ IsInjective(Tail(queue))
         /\ \A x : Newer(Tail(queue), x) \subseteq Newer(queue, x)
         /\ Newer(queue, Head(queue)) = ToSet(queue) \ {Head(queue)}
  <1> DEFINE rest == Tail(queue)  n == Len(queue)  oldest == Head(queue)
  <1>1. /\ n \in Nat \ {0} /\ DOMAIN queue = 1..n /\ DOMAIN rest = 1..(n - 1)
        /\ oldest = queue[1] /\ \A i \in 1..(n - 1) : rest[i] = queue[i + 1]
        /\ rest \in Seq(S) /\ oldest \in S
    OBVIOUS
  <1> HIDE DEF rest, n, oldest
  <1>2. \A i, j \in 1..n : queue[i] = queue[j] => i = j
    BY <1>1 DEF IsInjective
  <1>3. ToSet(rest) = ToSet(queue) \ {oldest}
    <2>1. ASSUME NEW x \in ToSet(rest) PROVE x \in ToSet(queue) \ {oldest}
      <3>1. PICK i \in 1..(n - 1) : rest[i] = x
        BY <1>1, <2>1 DEF ToSet
      <3>2. i + 1 \in 1..n /\ 1 \in 1..n /\ i + 1 # 1 /\ queue[i + 1] = x
        BY <1>1, <3>1
      <3>3. x # oldest
        BY <1>1, <1>2, <3>2
      <3> QED BY <1>1, <3>2, <3>3 DEF ToSet
    <2>2. ASSUME NEW x \in ToSet(queue) \ {oldest} PROVE x \in ToSet(rest)
      <3>1. PICK i \in 1..n : queue[i] = x
        BY <1>1, <2>2 DEF ToSet
      <3>2. i # 1 /\ (i - 1) \in 1..(n - 1) /\ (i - 1) + 1 = i
        BY <1>1, <2>2, <3>1
      <3> QED BY <1>1, <3>1, <3>2 DEF ToSet
    <2> QED BY <2>1, <2>2
  <1>4. IsInjective(rest)
    BY <1>1, <1>2 DEF IsInjective
  <1>5. ASSUME NEW x, NEW y \in Newer(rest, x) PROVE y \in Newer(queue, x)
    <2>1. PICK i, j \in 1..(n - 1) : i < j /\ rest[i] = x /\ rest[j] = y
      BY <1>1, <1>5 DEF Newer
    <2>2. i + 1 \in 1..n /\ j + 1 \in 1..n /\ i + 1 < j + 1
      BY <1>1, <2>1
    <2> QED BY <1>1, <2>1, <2>2 DEF Newer, ToSet
  <1>6. Newer(queue, oldest) = ToSet(queue) \ {oldest}
    <2>1. ASSUME NEW x \in Newer(queue, oldest) PROVE x \in ToSet(queue) \ {oldest}
      BY <1>1, <1>2, <2>1 DEF Newer, ToSet
    <2>2. ASSUME NEW x \in ToSet(queue) \ {oldest} PROVE x \in Newer(queue, oldest)
      <3>1. PICK i \in 1..n : queue[i] = x
        BY <1>1, <2>2 DEF ToSet
      <3>2. 1 < i /\ 1 \in 1..n
        BY <1>1, <2>2, <3>1
      <3> QED BY <1>1, <2>2, <3>1, <3>2 DEF Newer
    <2> QED BY <2>1, <2>2
  <1> QED BY <1>1, <1>3, <1>4, <1>5, <1>6 DEF rest, oldest

-----------------------------------------------------------------------------
(* The queue and the map. *)

AllRequests == Request \cup {CHOOSE request \in Request : TRUE}
Calls       == [op : {"resolve", "invalidate", "clear"}, request : AllRequests]

\* What the pieces of the state are; a request whose lookup is under way is not cached.
Typed ==
  /\ recency \in Seq(Request) /\ history \in Seq(Calls)
  /\ lookup \in Lookup \cup {None}
  /\ lookup # None => /\ lookup.request \notin Cached
                      /\ lookup.at = "insert" \/ lookup.request.pid \in Pid \ {None}
  /\ holder \in [Pid -> Program \cup {None}]

CacheInv ==
  /\ Typed
  /\ IsFiniteSet(Cached) /\ CacheConsistent

\* The queue once pop_front has made room in it, and the entry that pop_front drops.
Room(queue, out) == IF out = {} THEN queue ELSE Tail(queue)

\* There is room for one more entry after an eviction, and whoever is evicted has the
\* whole of the rest of a full cache after it in the queue.
LEMMA EvictionMakesRoom ==
  ASSUME CacheInv
  PROVE  /\ Evicted \subseteq Cached /\ IsFiniteSet(Cached \ Evicted)
         /\ Cardinality(Cached \ Evicted) < Capacity
         /\ Room(recency, Evicted) \in Seq(Request)
         /\ ToSet(Room(recency, Evicted)) = Cached \ Evicted
         /\ IsInjective(Room(recency, Evicted))
         /\ \A x : Newer(Room(recency, Evicted), x) \subseteq Newer(recency, x)
         /\ \A x \in Evicted : /\ Newer(recency, x) = Cached \ {x}
                               /\ Cardinality(Cached \ {x}) = Capacity - 1
                               /\ IsFiniteSet(Cached \ {x})
  <1> USE DEF CacheInv, Typed, CacheConsistent
  <1>1. Cardinality(Cached) \in Nat /\ Capacity \in Nat \ {0}
    BY FS_CardinalityType, CacheAssumption DEF CacheAssumption
  <1>2. CASE Cardinality(Cached) = Capacity /\ recency # <<>>
    <2>1. Evicted = {Head(recency)} /\ Room(recency, Evicted) = Tail(recency)
      BY <1>2 DEF Evicted, Room
    <2>2. /\ Tail(recency) \in Seq(Request) /\ ToSet(Tail(recency)) = Cached \ {Head(recency)}
          /\ IsInjective(Tail(recency)) /\ \A x : Newer(Tail(recency), x) \subseteq Newer(recency, x)
          /\ Newer(recency, Head(recency)) = Cached \ {Head(recency)}
      BY <1>2, TailQueue
    <2>3. Head(recency) \in Cached
      <3>1. 1 \in DOMAIN recency /\ Head(recency) = recency[1]
        BY <1>2
      <3>2. Head(recency) \in ToSet(recency)
        BY <3>1 DEF ToSet
      <3> QED BY <3>2
    <2>4. /\ IsFiniteSet(Cached \ {Head(recency)})
          /\ Cardinality(Cached \ {Head(recency)}) = Capacity - 1
      BY <1>2, <2>3, FS_RemoveElement
    <2>5. Cardinality(Cached \ Evicted) < Capacity
      BY <1>1, <2>1, <2>4
    <2>6. \A x \in Evicted : x = Head(recency)
      BY <2>1
    <2> HIDE DEF CacheInv
    <2> QED BY <2>1, <2>2, <2>3, <2>4, <2>5, <2>6
  <1>3. CASE ~(Cardinality(Cached) = Capacity /\ recency # <<>>)
    <2>1. Evicted = {} /\ Room(recency, Evicted) = recency /\ Cached \ Evicted = Cached
      BY <1>3 DEF Evicted, Room
    <2>2. Cardinality(Cached) # Capacity
      <3>1. CASE recency = <<>>
        <4>1. Cached = {}
          BY <3>1 DEF ToSet
        <4> QED BY <1>1, <4>1, FS_EmptySet
      <3> QED BY <1>3, <3>1
    <2>3. Cardinality(Cached) < Capacity
      BY <1>1, <2>2
    <2> QED BY <2>1, <2>3
  <1> QED BY <1>2, <1>3

LEMMA InitCache == Init => CacheInv
  <1> SUFFICES ASSUME Init PROVE CacheInv
    OBVIOUS
  <1>1. Cached = {} /\ recency = <<>> /\ lookup = None /\ history = <<>>
    BY DEF Init, Cached
  <1>2. ToSet(recency) = {} /\ IsInjective(recency)
    BY <1>1 DEF ToSet, IsInjective
  <1>3. IsFiniteSet(Cached) /\ Cardinality(Cached) = 0
    BY <1>1, FS_EmptySet
  <1>4. Cardinality(Cached) <= Capacity
    BY <1>3, CacheAssumption DEF CacheAssumption
  <1> QED BY <1>1, <1>2, <1>3, <1>4 DEF Init, CacheInv, CacheConsistent, Typed

\* A call is recorded and begins with no lookup under way.
LEMMA CallRecorded ==
  ASSUME NEW op \in {"resolve", "invalidate", "clear"}, NEW request \in AllRequests,
         Typed, Call(op, request)
  PROVE  lookup = None /\ history' \in Seq(Calls)
  BY DEF Call, Typed, Calls

LEMMA HitCache ==
  ASSUME CacheInv, NEW request \in Request, Hit(request)
  PROVE  CacheInv'
  <1> USE DEF CacheInv, CacheConsistent, Typed
  <1> DEFINE rest == Without(recency, request)
  <1>1. lookup = None /\ history' \in Seq(Calls)
    BY CallRecorded DEF Hit, AllRequests
  <1>2. /\ recency' = Append(rest, request) /\ cache' = cache /\ lookup' = lookup
        /\ holder' = holder /\ request \in Cached
    BY DEF Hit, processVars
  <1>3. rest \in Seq(Request) /\ ToSet(rest) = Cached \ {request} /\ IsInjective(rest)
    BY WithoutQueue
  <1> HIDE DEF rest
  <1>4. /\ recency' \in Seq(Request) /\ IsInjective(recency')
        /\ ToSet(recency') = (Cached \ {request}) \cup {request}
    BY <1>2, <1>3, AppendQueue
  <1>5. Cached' = Cached
    BY <1>2 DEF Cached
  <1> QED BY <1>1, <1>2, <1>4, <1>5

LEMMA MissCache ==
  ASSUME CacheInv, NEW request \in Request, Miss(request)
  PROVE  CacheInv'
  <1> USE DEF CacheInv, CacheConsistent, Typed
  <1>1. lookup = None /\ history' \in Seq(Calls)
    BY CallRecorded DEF Miss, AllRequests
  <1>2. /\ cache' = cache /\ recency' = recency /\ holder' = holder /\ request \notin Cached
        /\ lookup' = [request |-> request, at |-> IF request.pid = None THEN "insert" ELSE "dir",
                      process |-> NoProcess]
    BY DEF Miss, cacheVars, processVars
  <1>3. NoProcess \in Snapshot
    BY DEF NoProcess, Snapshot, Contents
  <1>4. lookup' \in Lookup /\ lookup'.request = request
    BY <1>2, <1>3 DEF Lookup
  <1>6. lookup'.at = "insert" \/ request.pid \in Pid \ {None}
    BY <1>2, CacheAssumption DEF CacheAssumption
  <1>5. Cached' = Cached
    BY <1>2 DEF Cached
  <1> QED BY <1>1, <1>2, <1>4, <1>5, <1>6

\* A snapshot with one more file read is a snapshot.
LEMMA ReadMore ==
  ASSUME Typed, lookup # None, NEW file \in {"comm", "exe", "info", "cgroup"}, ReadFile(file)
  PROVE  /\ lookup' \in Lookup /\ lookup'.request = lookup.request
         /\ lookup'.at = After(file)
         /\ lookup'.process = [lookup.process EXCEPT ![file] = IF Holder = None THEN None ELSE Holder[file]]
  <1> DEFINE found == IF Holder = None THEN None ELSE Holder[file]
  <1>1. lookup \in Lookup /\ lookup' = [lookup EXCEPT !.at = After(file), !.process[file] = found]
    BY DEF Typed, ReadFile
  <1>2. found \in Contents(file)
    <2>1. lookup.at = file
      BY DEF ReadFile
    <2>2. Holder \in Program \cup {None}
      BY <2>1 DEF Typed, Holder
    <2> QED BY <2>2 DEF Contents
  <1>3. /\ lookup'.request = lookup.request /\ lookup'.at = After(file)
        /\ lookup'.process = [lookup.process EXCEPT ![file] = found]
        /\ lookup' = [request |-> lookup.request, at |-> lookup'.at, process |-> lookup'.process]
    BY <1>1 DEF Lookup, Snapshot
  <1>4. lookup'.process \in Snapshot
    BY <1>1, <1>2, <1>3 DEF Lookup, Snapshot
  <1>5. After(file) \in {"exe", "info", "cgroup", "insert"}
    BY DEF After
  <1> HIDE DEF found
  <1>6. lookup' \in Lookup
    BY <1>1, <1>3, <1>4, <1>5 DEF Lookup
  <1> QED BY <1>3, <1>6 DEF found

LEMMA ReadCache ==
  ASSUME CacheInv, ReadFails \/ ReadDir \/ \E file \in {"comm", "exe", "info", "cgroup"} : ReadFile(file)
  PROVE  CacheInv' /\ lookup # None /\ lookup' # None /\ UNCHANGED <<cacheVars, history>>
  <1>1. /\ lookup # None /\ UNCHANGED <<cacheVars, processVars, history>>
    BY DEF ReadFails, ReadDir, ReadFile
  <1>2. /\ lookup' \in Lookup /\ lookup'.request = lookup.request
        /\ lookup'.at = "insert" \/ lookup.at # "insert"
    <2>1. CASE ReadFails
      BY <2>1 DEF ReadFails, CacheInv, Typed, Lookup
    <2>2. CASE ReadDir
      BY <2>2 DEF ReadDir, CacheInv, Typed, Lookup
    <2>3. ASSUME NEW file \in {"comm", "exe", "info", "cgroup"}, ReadFile(file)
          PROVE  lookup' \in Lookup /\ lookup'.request = lookup.request /\ lookup.at # "insert"
      <3>1. lookup.at # "insert"
        BY <2>3 DEF ReadFile
      <3> QED BY <1>1, <2>3, <3>1, ReadMore DEF CacheInv
    <2> QED BY <2>1, <2>2, <2>3
  <1>3. lookup' # None
    BY <1>2, CacheAssumption DEF CacheAssumption
  <1>4. Cached' = Cached
    BY <1>1 DEF Cached, cacheVars
  <1> QED BY <1>1, <1>2, <1>3, <1>4 DEF CacheInv, CacheConsistent, Typed, cacheVars, processVars

LEMMA InsertCache ==
  ASSUME CacheInv, Insert
  PROVE  CacheInv'
  <1> DEFINE request == lookup.request  rest == Room(recency, Evicted)
  <1>1. /\ lookup # None /\ lookup' = None /\ UNCHANGED <<processVars, history>>
        /\ Cached' = (Cached \ Evicted) \cup {request}
        /\ recency' = Append(rest, request)
    BY DEF Insert, Cached, Room
  <1>2. request \in Request /\ request \notin Cached
    BY <1>1 DEF CacheInv, Typed, Lookup
  <1>3. /\ Evicted \subseteq Cached /\ IsFiniteSet(Cached \ Evicted)
        /\ Cardinality(Cached \ Evicted) < Capacity
        /\ rest \in Seq(Request) /\ ToSet(rest) = Cached \ Evicted /\ IsInjective(rest)
    BY EvictionMakesRoom
  <1> HIDE DEF request, rest
  <1>4. /\ recency' \in Seq(Request) /\ IsInjective(recency')
        /\ ToSet(recency') = (Cached \ Evicted) \cup {request}
    BY <1>1, <1>2, <1>3, AppendQueue
  <1>5. /\ IsFiniteSet(Cached')
        /\ Cardinality(Cached') = Cardinality(Cached \ Evicted) + 1
    BY <1>1, <1>2, <1>3, FS_AddElement
  <1>6. Cardinality(Cached') <= Capacity
    BY <1>3, <1>5, FS_CardinalityType, CacheAssumption DEF CacheAssumption
  <1>7. Cached' \subseteq Request
    BY <1>1, <1>2 DEF CacheInv, CacheConsistent
  <1> QED BY <1>1, <1>4, <1>5, <1>6, <1>7 DEF CacheInv, CacheConsistent, Typed, processVars

LEMMA InvalidateCache ==
  ASSUME CacheInv, NEW request \in Request, Invalidate(request)
  PROVE  CacheInv'
  <1>1. lookup = None /\ history' \in Seq(Calls)
    BY CallRecorded DEF Invalidate, AllRequests, CacheInv
  <1>2. /\ recency' = Without(recency, request) /\ Cached' = Cached \ {request}
        /\ lookup' = lookup /\ holder' = holder
    BY DEF Invalidate, Cached, processVars
  <1>3. /\ recency' \in Seq(Request) /\ IsInjective(recency') /\ ToSet(recency') = Cached \ {request}
    BY <1>2, WithoutQueue DEF CacheInv, CacheConsistent, Typed
  <1>4. IsFiniteSet(Cached') /\ Cardinality(Cached') <= Cardinality(Cached)
    BY <1>2, FS_Subset DEF CacheInv
  <1>5. Cardinality(Cached') <= Capacity
    BY <1>4, FS_CardinalityType, CacheAssumption DEF CacheAssumption, CacheInv, CacheConsistent
  <1> QED BY <1>1, <1>2, <1>3, <1>4, <1>5 DEF CacheInv, CacheConsistent, Typed

LEMMA ClearEmpties ==
  ASSUME CacheInv, ClearCache
  PROVE  CacheInv'
  <1>1. lookup = None /\ history' \in Seq(Calls)
    BY CallRecorded DEF ClearCache, AllRequests, CacheInv
  <1>2. recency' = <<>> /\ Cached' = {} /\ lookup' = lookup /\ holder' = holder
    BY DEF ClearCache, Cached, processVars
  <1>3. ToSet(recency') = {} /\ IsInjective(recency')
    BY <1>2 DEF ToSet, IsInjective
  <1>4. IsFiniteSet(Cached') /\ Cardinality(Cached') <= Capacity
    BY <1>2, FS_EmptySet, CacheAssumption DEF CacheAssumption
  <1> QED BY <1>1, <1>2, <1>3, <1>4 DEF CacheInv, CacheConsistent, Typed

LEMMA ChangeCache ==
  ASSUME CacheInv, NEW pid \in Pid, NEW program \in Program \cup {None}, ProcessChanges(pid, program)
  PROVE  CacheInv'
  <1>1. holder' \in [Pid -> Program \cup {None}]
    BY DEF ProcessChanges, CacheInv, Typed
  <1>2. UNCHANGED <<cache, recency, lookup, history>> /\ Cached' = Cached
    BY DEF ProcessChanges, cacheVars, Cached
  <1> QED BY <1>1, <1>2 DEF CacheInv, CacheConsistent, Typed

LEMMA CacheStep == CacheInv /\ [Next]_vars => CacheInv'
  <1> SUFFICES ASSUME CacheInv, [Next]_vars PROVE CacheInv'
    OBVIOUS
  <1>1. CASE UNCHANGED vars
    <2>1. Cached' = Cached
      BY <1>1 DEF Cached, vars, cacheVars
    <2> QED BY <1>1, <2>1 DEF CacheInv, CacheConsistent, Typed, vars, cacheVars, processVars
  <1>2. ASSUME NEW request \in Request, Hit(request) PROVE CacheInv'
    BY <1>2, HitCache
  <1>3. ASSUME NEW request \in Request, Miss(request) PROVE CacheInv'
    BY <1>3, MissCache
  <1>4. ASSUME NEW request \in Request, Invalidate(request) PROVE CacheInv'
    BY <1>4, InvalidateCache
  <1>5. CASE ClearCache
    BY <1>5, ClearEmpties
  <1>6. CASE ReadFails \/ ReadDir \/ \E file \in {"comm", "exe", "info", "cgroup"} : ReadFile(file)
    BY <1>6, ReadCache
  <1>7. CASE Insert
    BY <1>7, InsertCache
  <1>8. ASSUME NEW pid \in Pid, NEW program \in Program \cup {None}, ProcessChanges(pid, program)
        PROVE  CacheInv'
    BY <1>8, ChangeCache
  <1>9. CASE Rest
    BY <1>1, <1>9 DEF Rest
  <1> QED BY <1>1, <1>2, <1>3, <1>4, <1>5, <1>6, <1>7, <1>8, <1>9 DEF Next

LEMMA CacheInvariance == Spec => []CacheInv
  <1> QED BY InitCache, CacheStep, PTL DEF Spec

\* The queue and the map agree and stay within the capacity: what insert_cache, touch
\* and invalidate keep in step by hand.
THEOREM Consistent == Spec => []CacheConsistent
  <1>1. CacheInv => CacheConsistent
    BY DEF CacheInv
  <1> QED BY <1>1, CacheInvariance, PTL

-----------------------------------------------------------------------------
(* What was resolved last. *)

\* The requests resolved after call i of a list of calls, and a call of the list that
\* resolved a request nothing has dropped since.
UsedAfter(calls, i) ==
  {calls[j].request : j \in {j \in (i+1)..Len(calls) : calls[j].op = "resolve"}}
Drops(call, request) == call.op = "clear" \/ (call.op = "invalidate" /\ call.request = request)
Standing(calls, i) ==
  /\ calls[i].op = "resolve"
  /\ \A j \in (i+1)..Len(calls) : ~Drops(calls[j], calls[i].request)

\* A request is cached with nothing newer in the queue than what was resolved since,
\* or too many others were.
Recent(calls, queue, i) ==
  \/ calls[i].request \in ToSet(queue) /\ Newer(queue, calls[i].request) \subseteq UsedAfter(calls, i)
  \/ Cardinality(UsedAfter(calls, i) \ {calls[i].request}) >= Capacity

RecentInv ==
  /\ lookup # None =>
       /\ history # <<>>
       /\ history[Len(history)] = [op |-> "resolve", request |-> lookup.request]
  /\ \A i \in 1..Len(history) :
       (Standing(history, i) /\ (lookup # None => i < Len(history))) => Recent(history, recency, i)

LEMMA UsedFinite ==
  ASSUME NEW calls \in Seq(Calls), NEW i \in Nat
  PROVE  IsFiniteSet(UsedAfter(calls, i))
  <1> DEFINE when == {j \in (i+1)..Len(calls) : calls[j].op = "resolve"}
             used == [j \in when |-> calls[j].request]
  <1>1. IsFiniteSet(when)
    <2>1. IsFiniteSet((i+1)..Len(calls))
      <3>1. i + 1 \in Int /\ Len(calls) \in Int
        OBVIOUS
      <3> QED BY <3>1, FS_Interval
    <2> QED BY <2>1, FS_Subset
  <1> HIDE DEF when
  <1>2. used \in Surjection(when, {calls[j].request : j \in when})
    BY DEF Surjection
  <1>3. IsFiniteSet({calls[j].request : j \in when})
    <2> HIDE DEF used
    <2> QED BY <1>1, <1>2, FS_Surjection
  <1> QED BY <1>3 DEF UsedAfter, when

\* A call more.
LEMMA OneMore ==
  ASSUME NEW calls \in Seq(Calls), NEW call \in Calls, NEW i \in 1..Len(calls)
  PROVE  /\ Append(calls, call)[i] = calls[i]
         /\ UsedAfter(Append(calls, call), i) =
              UsedAfter(calls, i) \cup IF call.op = "resolve" THEN {call.request} ELSE {}
         /\ Standing(Append(calls, call), i) => Standing(calls, i) /\ ~Drops(call, calls[i].request)
  <1> DEFINE more == Append(calls, call)  n == Len(calls)
  <1>1. /\ n \in Nat /\ Len(more) = n + 1 /\ more[n + 1] = call
        /\ \A j \in 1..n : more[j] = calls[j]
    OBVIOUS
  <1> HIDE DEF more, n
  <1>2. i \in 1..n
    BY DEF n
  <1>3. /\ (i + 1)..Len(more) = ((i + 1)..n) \cup {n + 1}
        /\ (i + 1)..n \subseteq 1..n
    BY <1>1, <1>2
  <1>4. UsedAfter(more, i) = UsedAfter(calls, i) \cup IF call.op = "resolve" THEN {call.request} ELSE {}
    <2>1. ASSUME NEW x \in UsedAfter(more, i)
          PROVE  x \in UsedAfter(calls, i) \cup IF call.op = "resolve" THEN {call.request} ELSE {}
      <3>1. PICK j \in ((i + 1)..n) \cup {n + 1} : more[j].op = "resolve" /\ x = more[j].request
        BY <1>3, <2>1 DEF UsedAfter
      <3>2. CASE j = n + 1
        BY <1>1, <3>1, <3>2
      <3>3. CASE j \in (i + 1)..n
        <4>1. more[j] = calls[j]
          BY <1>1, <1>3, <3>3
        <4> QED BY <3>1, <3>3, <4>1 DEF UsedAfter, n
      <3> QED BY <3>1, <3>2, <3>3
    <2>2. ASSUME NEW x \in UsedAfter(calls, i) PROVE x \in UsedAfter(more, i)
      <3>1. PICK j \in (i + 1)..n : calls[j].op = "resolve" /\ x = calls[j].request
        BY <2>2 DEF UsedAfter, n
      <3>2. more[j] = calls[j] /\ j \in (i + 1)..Len(more)
        BY <1>1, <1>3, <3>1
      <3> QED BY <3>1, <3>2 DEF UsedAfter
    <2>3. ASSUME call.op = "resolve" PROVE call.request \in UsedAfter(more, i)
      <3>1. n + 1 \in (i + 1)..Len(more)
        BY <1>1, <1>2
      <3> QED BY <1>1, <2>3, <3>1 DEF UsedAfter
    <2> QED BY <2>1, <2>2, <2>3
  <1>5. ASSUME Standing(more, i) PROVE Standing(calls, i) /\ ~Drops(call, calls[i].request)
    <2>1. more[i] = calls[i]
      BY <1>1, <1>2
    <2>2. ~Drops(call, calls[i].request)
      <3>1. n + 1 \in (i + 1)..Len(more)
        BY <1>1, <1>2
      <3> QED BY <1>1, <1>5, <2>1, <3>1 DEF Standing
    <2>3. ASSUME NEW j \in (i + 1)..n PROVE ~Drops(calls[j], calls[i].request)
      <3>1. j \in (i + 1)..Len(more) /\ more[j] = calls[j]
        BY <1>1, <1>3
      <3> QED BY <1>5, <2>1, <3>1 DEF Standing
    <2> QED BY <1>5, <2>1, <2>2, <2>3 DEF Standing, n
  <1> QED BY <1>1, <1>2, <1>4, <1>5 DEF more

\* Too many others stay too many.
LEMMA StillTooMany ==
  ASSUME NEW before, NEW after, IsFiniteSet(after), before \subseteq after, Cardinality(before) >= Capacity
  PROVE  Cardinality(after) >= Capacity
  <1>1. IsFiniteSet(before) /\ Cardinality(before) <= Cardinality(after)
    BY FS_Subset
  <1> QED BY <1>1, FS_CardinalityType, CacheAssumption DEF CacheAssumption

\* Nothing has been resolved after the last call.
LEMMA NothingAfterLast ==
  ASSUME NEW calls \in Seq(Calls)
  PROVE  UsedAfter(calls, Len(calls)) = {}
  BY DEF UsedAfter

LEMMA InitRecent == Init => RecentInv
  BY DEF Init, RecentInv

\* A call more when the request is not touched by it: the queue lost nothing but what the
\* call dropped, and gained nothing but what it resolved.
LEMMA CallKeepsRecent ==
  ASSUME Typed, NEW call \in Calls, NEW queue \in Seq(Request), NEW i \in 1..Len(history),
         history' = Append(history, call), Standing(history', i), Recent(history, recency, i),
         NEW used, used = (IF call.op = "resolve" THEN {call.request} ELSE {}),
         ~Drops(call, history[i].request) /\ history[i].request \in ToSet(recency) =>
           /\ history[i].request \in ToSet(queue)
           /\ Newer(queue, history[i].request) \subseteq Newer(recency, history[i].request) \cup used
  PROVE  Recent(history', queue, i)
  <1> DEFINE request == history[i].request
  <1>1. /\ history'[i] = history[i] /\ UsedAfter(history', i) = UsedAfter(history, i) \cup used
        /\ ~Drops(call, request)
    BY OneMore DEF Typed
  <1>2. IsFiniteSet(UsedAfter(history', i))
    <2>1. history' \in Seq(Calls) /\ i \in Nat
      BY DEF Typed
    <2> QED BY <2>1, UsedFinite
  <1> HIDE DEF request
  <1>3. CASE request \in ToSet(recency) /\ Newer(recency, request) \subseteq UsedAfter(history, i)
    BY <1>1, <1>3 DEF Recent, request
  <1>4. CASE Cardinality(UsedAfter(history, i) \ {request}) >= Capacity
    <2>1. /\ UsedAfter(history, i) \ {request} \subseteq UsedAfter(history', i) \ {request}
          /\ IsFiniteSet(UsedAfter(history', i) \ {request})
      BY <1>1, <1>2, FS_Subset
    <2>2. Cardinality(UsedAfter(history', i) \ {request}) >= Capacity
      BY <1>4, <2>1, StillTooMany
    <2> QED BY <1>1, <2>2 DEF Recent, request
  <1> QED BY <1>3, <1>4 DEF Recent, request

LEMMA HitRecent ==
  ASSUME CacheInv, RecentInv, NEW request \in Request, Hit(request)
  PROVE  RecentInv'
  <1> DEFINE call == [op |-> "resolve", request |-> request]  rest == Without(recency, request)
             n == Len(history)
  <1>1. /\ history' = Append(history, call) /\ lookup = None /\ lookup' = None
        /\ recency' = Append(rest, request)
    BY DEF Hit, Call
  <1>2. call \in Calls /\ history \in Seq(Calls) /\ recency \in Seq(Request)
    BY DEF Calls, AllRequests, CacheInv, Typed
  <1>3. /\ rest \in Seq(Request) /\ ToSet(rest) = ToSet(recency) \ {request}
        /\ \A x : Newer(rest, x) \subseteq Newer(recency, x)
    BY <1>2, WithoutQueue
  <1> HIDE DEF rest
  <1>4. /\ recency' \in Seq(Request) /\ ToSet(recency') = ToSet(rest) \cup {request}
        /\ Newer(recency', request) = {}
        /\ \A x : Newer(recency', x) \subseteq Newer(rest, x) \cup {request}
    BY <1>1, <1>3, AppendQueue
  <1>5. n \in Nat /\ Len(history') = n + 1 /\ history'[n + 1] = call
    BY <1>1, <1>2
  <1>6. ASSUME NEW i \in 1..n, Standing(history', i) PROVE Recent(history', recency', i)
    <2>1. Standing(history, i)
      BY <1>1, <1>2, <1>6, OneMore
    <2>2. Recent(history, recency, i)
      BY <1>1, <2>1 DEF RecentInv
    <2>3. /\ ToSet(recency) \subseteq ToSet(recency')
          /\ \A x : Newer(recency', x) \subseteq Newer(recency, x) \cup {request}
      BY <1>3, <1>4
    <2>4. call.op = "resolve" /\ call.request = request
      OBVIOUS
    <2> HIDE DEF call
    <2> QED BY <1>1, <1>2, <1>4, <1>6, <2>2, <2>3, <2>4, CallKeepsRecent DEF CacheInv
  <1>7. Recent(history', recency', n + 1)
    <2>1. history'[n + 1].request = request
      BY <1>5
    <2> QED BY <1>4, <2>1 DEF Recent
  <1> QED BY <1>1, <1>5, <1>6, <1>7 DEF RecentInv

LEMMA MissRecent ==
  ASSUME CacheInv, RecentInv, NEW request \in Request, Miss(request)
  PROVE  RecentInv'
  <1> DEFINE call == [op |-> "resolve", request |-> request]  n == Len(history)
  <1>1. /\ history' = Append(history, call) /\ lookup = None /\ recency' = recency
        /\ lookup' = [request |-> request, at |-> IF request.pid = None THEN "insert" ELSE "dir",
                      process |-> NoProcess]
    BY DEF Miss, Call, cacheVars
  <1>2. call \in Calls /\ history \in Seq(Calls) /\ recency \in Seq(Request)
    BY DEF Calls, AllRequests, CacheInv, Typed
  <1>3. lookup' # None /\ lookup'.request = request
    <2>1. NoProcess \in Snapshot
      BY DEF NoProcess, Snapshot, Contents
    <2>2. lookup' \in Lookup
      BY <1>1, <2>1 DEF Lookup
    <2> QED BY <1>1, <2>2, CacheAssumption DEF CacheAssumption
  <1>4. n \in Nat /\ Len(history') = n + 1 /\ history'[n + 1] = call /\ history' # <<>>
    BY <1>1, <1>2
  <1>5. ASSUME NEW i \in 1..n, Standing(history', i) PROVE Recent(history', recency', i)
    <2>1. Standing(history, i)
      BY <1>1, <1>2, <1>5, OneMore
    <2>2. Recent(history, recency, i)
      BY <1>1, <2>1 DEF RecentInv
    <2> HIDE DEF call
    <2> QED BY <1>1, <1>2, <1>5, <2>2, CallKeepsRecent DEF CacheInv
  <1> QED BY <1>1, <1>3, <1>4, <1>5 DEF RecentInv

LEMMA InvalidateRecent ==
  ASSUME CacheInv, RecentInv, NEW request \in Request, Invalidate(request)
  PROVE  RecentInv'
  <1> DEFINE call == [op |-> "invalidate", request |-> request]  n == Len(history)
  <1>1. /\ history' = Append(history, call) /\ lookup = None /\ lookup' = None
        /\ recency' = Without(recency, request)
    BY DEF Invalidate, Call
  <1>2. call \in Calls /\ history \in Seq(Calls) /\ recency \in Seq(Request)
    BY DEF Calls, AllRequests, CacheInv, Typed
  <1>3. /\ recency' \in Seq(Request) /\ ToSet(recency') = ToSet(recency) \ {request}
        /\ \A x : Newer(recency', x) \subseteq Newer(recency, x)
    BY <1>1, <1>2, WithoutQueue
  <1>4. n \in Nat /\ Len(history') = n + 1 /\ history'[n + 1] = call
    BY <1>1, <1>2
  <1>5. ASSUME NEW i \in 1..n, Standing(history', i) PROVE Recent(history', recency', i)
    <2>1. Standing(history, i)
      BY <1>1, <1>2, <1>5, OneMore
    <2>2. Recent(history, recency, i)
      BY <1>1, <2>1 DEF RecentInv
    <2>3. ~Drops(call, history[i].request) /\ history[i].request \in ToSet(recency)
            => history[i].request \in ToSet(recency')
      BY <1>3 DEF Drops
    <2> HIDE DEF call
    <2> QED BY <1>1, <1>2, <1>3, <1>5, <2>2, <2>3, CallKeepsRecent DEF CacheInv
  <1>6. ~Standing(history', n + 1)
    BY <1>4 DEF Standing
  <1> QED BY <1>1, <1>4, <1>5, <1>6 DEF RecentInv

LEMMA ClearRecent ==
  ASSUME CacheInv, RecentInv, ClearCache
  PROVE  RecentInv'
  <1> DEFINE call == [op |-> "clear", request |-> CHOOSE request \in Request : TRUE]  n == Len(history)
  <1>1. history' = Append(history, call) /\ lookup = None /\ lookup' = None
    BY DEF ClearCache, Call
  <1>2. call \in Calls /\ history \in Seq(Calls)
    BY DEF Calls, AllRequests, CacheInv, Typed
  <1>3. n \in Nat /\ Len(history') = n + 1 /\ history'[n + 1] = call /\ call.op = "clear"
    BY <1>1, <1>2
  <1> HIDE DEF call
  <1>4. ASSUME NEW i \in 1..n PROVE ~Standing(history', i)
    BY <1>1, <1>2, <1>3, OneMore DEF Drops
  <1>5. ~Standing(history', n + 1)
    BY <1>3 DEF Standing
  <1> QED BY <1>1, <1>3, <1>4, <1>5 DEF RecentInv

\* The lookup ends: the request goes behind the others, which its call had counted
\* already, and the one that is evicted had a full cache after it.
LEMMA InsertRecent ==
  ASSUME CacheInv, RecentInv, Insert
  PROVE  RecentInv'
  <1> DEFINE request == lookup.request  rest == Room(recency, Evicted)  n == Len(history)
  <1>1. /\ lookup # None /\ lookup' = None /\ history' = history /\ recency' = Append(rest, request)
    BY DEF Insert, Room
  <1>2. /\ request \in Request /\ request \notin Cached /\ ToSet(recency) = Cached
        /\ history \in Seq(Calls) /\ n \in Nat
    BY <1>1 DEF CacheInv, CacheConsistent, Typed, Lookup
  <1>3. n \in 1..n /\ history[n].op = "resolve" /\ history[n].request = request
    <2>1. history # <<>> /\ history[n] = [op |-> "resolve", request |-> request]
      BY <1>1 DEF RecentInv
    <2> QED BY <1>2, <2>1
  <1>4. /\ rest \in Seq(Request) /\ ToSet(rest) = Cached \ Evicted
        /\ \A x : Newer(rest, x) \subseteq Newer(recency, x)
    BY EvictionMakesRoom
  <1>5. \A x \in Evicted : /\ Newer(recency, x) = Cached \ {x} /\ x \in Cached
                           /\ Cardinality(Cached \ {x}) = Capacity - 1 /\ IsFiniteSet(Cached \ {x})
    BY EvictionMakesRoom
  <1> HIDE DEF request, rest
  <1>6. /\ ToSet(recency') = (Cached \ Evicted) \cup {request}
        /\ Newer(recency', request) = {}
        /\ \A x : Newer(recency', x) \subseteq Newer(rest, x) \cup {request}
    BY <1>1, <1>2, <1>4, AppendQueue
  <1>7. ASSUME NEW i \in 1..n, i < n, Standing(history, i) PROVE Recent(history, recency', i)
    <2> DEFINE r == history[i].request  used == UsedAfter(history, i)
    <2>1. Recent(history, recency, i)
      BY <1>7 DEF RecentInv
    <2>2. request \in used /\ IsFiniteSet(used)
      <3>1. n \in (i + 1)..n /\ i \in Nat
        BY <1>2, <1>7
      <3> QED BY <1>2, <1>3, <3>1, UsedFinite DEF UsedAfter
    <2> HIDE DEF r, used
    <2>3. CASE r \in Cached /\ Newer(recency, r) \subseteq used /\ r \notin Evicted
      <3>1. Newer(recency', r) \subseteq used /\ r \in ToSet(recency')
        BY <1>4, <1>6, <2>2, <2>3
      <3> QED BY <3>1 DEF Recent, r, used
    <2>4. CASE r \in Cached /\ Newer(recency, r) \subseteq used /\ r \in Evicted
      <3> DEFINE others == Cached \ {r}
      <3>1. others \subseteq used /\ Cardinality(others) = Capacity - 1 /\ IsFiniteSet(others)
        BY <1>5, <2>4
      <3>2. request \notin others /\ request # r
        BY <1>2, <2>4
      <3> HIDE DEF others
      <3>3. Cardinality(others \cup {request}) = Capacity
        <4>1. Cardinality(others \cup {request}) = Cardinality(others) + 1
          BY <3>1, <3>2, FS_AddElement
        <4> QED BY <3>1, <4>1, CacheAssumption DEF CacheAssumption
      <3>4. others \cup {request} \subseteq used \ {r} /\ IsFiniteSet(used \ {r})
        BY <2>2, <3>1, <3>2, FS_Subset DEF others
      <3>5. Cardinality(used \ {r}) >= Capacity
        BY <3>3, <3>4, StillTooMany, CacheAssumption DEF CacheAssumption
      <3> QED BY <3>5 DEF Recent, r, used
    <2>5. CASE Cardinality(used \ {r}) >= Capacity
      BY <2>5 DEF Recent, r, used
    <2> QED BY <1>2, <2>1, <2>3, <2>4, <2>5 DEF Recent, r, used
  <1>8. Recent(history, recency', n)
    BY <1>3, <1>6 DEF Recent
  <1> QED BY <1>1, <1>2, <1>7, <1>8 DEF RecentInv

LEMMA RecentStep == CacheInv /\ RecentInv /\ [Next]_vars => RecentInv'
  <1> SUFFICES ASSUME CacheInv, RecentInv, [Next]_vars PROVE RecentInv'
    OBVIOUS
  <1>1. CASE UNCHANGED vars
    BY <1>1 DEF RecentInv, vars, cacheVars
  <1>2. ASSUME NEW request \in Request, Hit(request) PROVE RecentInv'
    BY <1>2, HitRecent
  <1>3. ASSUME NEW request \in Request, Miss(request) PROVE RecentInv'
    BY <1>3, MissRecent
  <1>4. ASSUME NEW request \in Request, Invalidate(request) PROVE RecentInv'
    BY <1>4, InvalidateRecent
  <1>5. CASE ClearCache
    BY <1>5, ClearRecent
  <1>6. CASE ReadFails \/ ReadDir \/ \E file \in {"comm", "exe", "info", "cgroup"} : ReadFile(file)
    <2>1. lookup # None /\ lookup' # None /\ UNCHANGED <<cacheVars, history>>
      BY <1>6, ReadCache
    <2>2. lookup'.request = lookup.request
      <3>1. CASE ReadFails \/ ReadDir
        BY <3>1, <2>1 DEF ReadFails, ReadDir, CacheInv, Typed, Lookup
      <3>2. ASSUME NEW file \in {"comm", "exe", "info", "cgroup"}, ReadFile(file)
            PROVE  lookup'.request = lookup.request
        BY <2>1, <3>2, ReadMore DEF CacheInv
      <3> QED BY <1>6, <3>1, <3>2
    <2> QED BY <2>1, <2>2 DEF RecentInv, cacheVars
  <1>7. CASE Insert
    BY <1>7, InsertRecent
  <1>8. ASSUME NEW pid \in Pid, NEW program \in Program \cup {None}, ProcessChanges(pid, program)
        PROVE  RecentInv'
    BY <1>8 DEF ProcessChanges, cacheVars, RecentInv
  <1>9. CASE Rest
    BY <1>1, <1>9 DEF Rest
  <1> QED BY <1>1, <1>2, <1>3, <1>4, <1>5, <1>6, <1>7, <1>8, <1>9 DEF Next

\* Least recently used: a request is evicted only after as many others were resolved as
\* the cache holds, whatever was invalidated, cleared and evicted in between.
THEOREM LeastRecentlyUsed == Spec => []RecentIsCached
  <1>1. CacheInv /\ RecentInv => RecentIsCached
    <2> SUFFICES ASSUME CacheInv, RecentInv, NEW i \in 1..Len(history),
                        history[i].op = "resolve",
                        \A j \in (i+1)..Len(history) : ~Dropped(j, history[i].request),
                        Cardinality(ResolvedAfter(i) \ {history[i].request}) < Capacity,
                        lookup # None => i < Len(history)
                 PROVE  history[i].request \in Cached
      BY DEF RecentIsCached
    <2>1. Standing(history, i)
      BY DEF Standing, Drops, Dropped
    <2>2. Recent(history, recency, i)
      BY <2>1 DEF RecentInv
    <2>3. IsFiniteSet(UsedAfter(history, i) \ {history[i].request})
      <3>1. history \in Seq(Calls) /\ i \in Nat
        BY DEF CacheInv, Typed
      <3> QED BY <3>1, UsedFinite, FS_Subset
    <2>4. Cardinality(UsedAfter(history, i) \ {history[i].request}) < Capacity
      BY DEF UsedAfter, ResolvedAfter
    <2>5. ~(Cardinality(UsedAfter(history, i) \ {history[i].request}) >= Capacity)
      BY <2>3, <2>4, FS_CardinalityType, CacheAssumption DEF CacheAssumption
    <2> QED BY <2>2, <2>5 DEF Recent, CacheInv, CacheConsistent
  <1>2. CacheInv /\ RecentInv /\ [Next]_vars => RecentInv'
    BY RecentStep
  <1> QED BY <1>1, <1>2, InitRecent, CacheInvariance, PTL DEF Spec

-----------------------------------------------------------------------------
(* What a cached answer says of the process. *)

\* The program behind the lookup under way has a name that can be read.
Readable == Holder # None /\ Holder.comm # None

\* What a lookup has read so far is of the process that there is now, if that has not
\* changed since the lookup began.
Pending ==
  lookup # None /\ lookup.request \in current =>
    LET process == lookup.process
    IN  CASE lookup.at \in {"dir", "comm"} -> process = NoProcess
          [] lookup.at = "exe"    -> Readable /\ process = [NoProcess EXCEPT !.comm = Holder.comm]
          [] lookup.at = "info"   -> Readable /\ process = [Holder EXCEPT !.info = None, !.cgroup = None]
          [] lookup.at = "cgroup" -> Readable /\ process = [Holder EXCEPT !.cgroup = None]
          [] lookup.at = "insert" -> process = Seen(Behind(lookup.request))

AnswerInv == Pending /\ AnswersCurrent

LEMMA InitAnswers == Init => AnswerInv
  BY DEF Init, AnswerInv, Pending, AnswersCurrent

\* The program behind the lookup under way.
LEMMA HolderType ==
  ASSUME Typed, lookup # None, lookup.at # "insert"
  PROVE  /\ Holder # None => Holder \in Snapshot
         /\ Seen(Behind(lookup.request)) = IF Readable THEN Holder ELSE NoProcess
  <1>1. Behind(lookup.request) = IF Holder = None THEN NoProcess ELSE Holder
    BY CacheAssumption DEF Typed, Holder, Behind, CacheAssumption
  <1>2. NoProcess.comm = None
    BY DEF NoProcess
  <1>3. Holder # None => Holder \in Snapshot
    BY CacheAssumption DEF Typed, Holder, CacheAssumption
  <1> QED BY <1>1, <1>2, <1>3 DEF Seen, Readable

\* Nothing cached is touched, and what is current stays so: the answers stay right.
LEMMA AnswersKept ==
  ASSUME AnswersCurrent, UNCHANGED <<index, holder>>,
         \A r \in Cached' : r \in current' => r \in Cached \cap current /\ cache'[r] = cache[r]
  PROVE  AnswersCurrent'
  <1> SUFFICES ASSUME NEW r \in Cached' \cap current'
               PROVE  cache'[r] = ResolveUncached(index, r, Seen(Behind(r)))'
    BY DEF AnswersCurrent
  <1>1. cache'[r] = cache[r] /\ cache[r] = ResolveUncached(index, r, Seen(Behind(r)))
    BY DEF AnswersCurrent
  <1>2. Behind(r)' = Behind(r)
    BY DEF Behind
  <1> QED BY <1>1, <1>2

LEMMA HitAnswers ==
  ASSUME CacheInv, AnswerInv, NEW request \in Request, Hit(request)
  PROVE  AnswerInv'
  <1>1. UNCHANGED <<index, cache, holder, lookup, current>> /\ Cached' = Cached
    BY DEF Hit, processVars, Cached
  <1>2. AnswersCurrent'
    BY <1>1, AnswersKept DEF AnswerInv
  <1>3. Pending'
    BY <1>1 DEF AnswerInv, Pending, Readable, Holder, Behind
  <1> QED BY <1>2, <1>3 DEF AnswerInv

LEMMA DropAnswers ==
  ASSUME AnswerInv,
         (\E request \in Request : Invalidate(request)) \/ ClearCache
  PROVE  AnswerInv'
  <1>1. /\ UNCHANGED <<index, holder>> /\ lookup = None /\ lookup' = None
        /\ Cached' \subseteq Cached /\ current' \subseteq current
        /\ \A r \in Cached' : cache'[r] = cache[r]
    BY DEF Invalidate, ClearCache, processVars, Cached, Call
  <1>2. AnswersCurrent'
    BY <1>1, AnswersKept DEF AnswerInv
  <1>3. Pending'
    BY <1>1 DEF Pending
  <1> QED BY <1>2, <1>3 DEF AnswerInv

LEMMA MissAnswers ==
  ASSUME CacheInv, AnswerInv, NEW request \in Request, Miss(request)
  PROVE  AnswerInv'
  <1>1. /\ UNCHANGED <<index, cache, holder>> /\ Cached' = Cached /\ request \notin Cached
        /\ current' = current \cup {request}
        /\ lookup' = [request |-> request, at |-> IF request.pid = None THEN "insert" ELSE "dir",
                      process |-> NoProcess]
    BY DEF Miss, cacheVars, processVars, Cached
  <1>2. AnswersCurrent'
    BY <1>1, AnswersKept DEF AnswerInv
  <1>3. Pending'
    <2>1. CASE request.pid = None
      <3>1. lookup'.at = "insert" /\ lookup'.process = NoProcess
        BY <1>1, <2>1
      <3>2. Seen(Behind(lookup.request))' = NoProcess
        BY <1>1, <2>1 DEF Behind, Seen
      <3> QED BY <3>1, <3>2 DEF Pending
    <2>2. CASE request.pid # None
      BY <1>1, <2>2 DEF Pending
    <2> QED BY <2>1, <2>2
  <1> QED BY <1>2, <1>3 DEF AnswerInv

\* A snapshot, file by file.
LEMMA FileByFile ==
  ASSUME NEW program \in Snapshot
  PROVE  /\ [[NoProcess EXCEPT !.comm = program.comm] EXCEPT !["exe"] = program["exe"]]
              = [program EXCEPT !.info = None, !.cgroup = None]
         /\ [[program EXCEPT !.info = None, !.cgroup = None] EXCEPT !["info"] = program["info"]]
              = [program EXCEPT !.cgroup = None]
         /\ [[program EXCEPT !.cgroup = None] EXCEPT !["cgroup"] = program["cgroup"]] = program
  <1>1. program = [comm |-> program.comm, exe |-> program.exe, info |-> program.info,
                   cgroup |-> program.cgroup]
    BY DEF Snapshot
  <1>2. [program EXCEPT !.info = None, !.cgroup = None] =
          [comm |-> program.comm, exe |-> program.exe, info |-> None, cgroup |-> None]
    <2> DEFINE some == [program EXCEPT !.info = None]
    <2>1. some = [comm |-> program.comm, exe |-> program.exe, info |-> None, cgroup |-> program.cgroup]
      BY <1>1
    <2> HIDE DEF some
    <2>2. [some EXCEPT !.cgroup = None] =
            [comm |-> program.comm, exe |-> program.exe, info |-> None, cgroup |-> None]
      BY <2>1
    <2> QED BY <2>2 DEF some
  <1>3. [program EXCEPT !.cgroup = None] =
          [comm |-> program.comm, exe |-> program.exe, info |-> program.info, cgroup |-> None]
    BY <1>1
  <1>4. [NoProcess EXCEPT !.comm = program.comm] =
          [comm |-> program.comm, exe |-> None, info |-> None, cgroup |-> None]
    BY DEF NoProcess
  <1> QED BY <1>1, <1>2, <1>3, <1>4

\* One of the steps of a lookup.
LEMMA ReadAnswers ==
  ASSUME CacheInv, AnswerInv,
         ReadFails \/ ReadDir \/ \E file \in {"comm", "exe", "info", "cgroup"} : ReadFile(file)
  PROVE  AnswerInv'
  <1>1. /\ UNCHANGED <<index, cache, holder, current>> /\ Cached' = Cached
        /\ lookup # None /\ lookup.at # "insert" /\ lookup \in Lookup
    BY DEF ReadFails, ReadDir, ReadFile, cacheVars, processVars, Cached, CacheInv, Typed
  <1>2. AnswersCurrent'
    BY <1>1, AnswersKept DEF AnswerInv
  <1>3. /\ Holder # None => Holder \in Snapshot
        /\ Seen(Behind(lookup.request)) = IF Readable THEN Holder ELSE NoProcess
    BY <1>1, HolderType DEF CacheInv
  <1>4. CASE ReadFails
    <2>1. /\ lookup.at \in {"dir", "comm"} /\ ~Readable /\ lookup'.at = "insert"
          /\ lookup'.request = lookup.request /\ lookup'.process = lookup.process
      BY <1>1, <1>4 DEF ReadFails, Readable, Lookup
    <2>2. Seen(Behind(lookup.request))' = NoProcess
      <3>1. Behind(lookup.request)' = Behind(lookup.request)
        BY <1>1, <2>1 DEF Behind
      <3> QED BY <1>3, <2>1, <3>1
    <2>3. lookup'.request \in current' => lookup'.process = NoProcess
      BY <1>1, <2>1 DEF AnswerInv, Pending
    <2> QED BY <1>2, <2>1, <2>2, <2>3 DEF AnswerInv, Pending
  <1>5. CASE ReadDir
    <2>1. /\ lookup.at = "dir" /\ lookup'.at = "comm"
          /\ lookup'.request = lookup.request /\ lookup'.process = lookup.process
      BY <1>1, <1>5 DEF ReadDir, Lookup
    <2> QED BY <1>1, <1>2, <2>1 DEF AnswerInv, Pending
  <1>6. ASSUME NEW file \in {"comm", "exe", "info", "cgroup"}, ReadFile(file)
        PROVE  AnswerInv'
    <2> DEFINE process == lookup.process
    <2>1. /\ lookup'.request = lookup.request /\ lookup'.at = After(file) /\ lookup.at = file
          /\ lookup'.process = [process EXCEPT ![file] = IF Holder = None THEN None ELSE Holder[file]]
          /\ process \in Snapshot /\ (file = "comm" => Readable)
      <3>1. lookup.at = file /\ (file = "comm" => Readable)
        BY <1>6 DEF ReadFile, Readable
      <3> QED BY <1>1, <1>6, <3>1, ReadMore DEF CacheInv, Lookup
    <2>2. Holder' = Holder /\ Readable' = Readable
      BY <1>1, <2>1 DEF Holder, Readable
    <2>3. SUFFICES ASSUME lookup' # None, lookup'.request \in current' PROVE Pending'
      BY <1>2 DEF AnswerInv, Pending
    <2>4. lookup.request \in current
      BY <1>1, <2>1, <2>3
    <2>5. CASE file = "comm"
      <3>1. process = NoProcess /\ Readable
        BY <1>1, <2>1, <2>4, <2>5 DEF AnswerInv, Pending
      <3>2. lookup'.process = [NoProcess EXCEPT !.comm = Holder.comm] /\ lookup'.at = "exe"
        BY <2>1, <2>5, <3>1 DEF After, Readable
      <3> QED BY <2>2, <3>1, <3>2 DEF Pending
    <2>6. CASE file = "exe"
      <3>1. Readable /\ process = [NoProcess EXCEPT !.comm = Holder.comm] /\ Holder \in Snapshot
        BY <1>1, <1>3, <2>1, <2>4, <2>6 DEF AnswerInv, Pending, Readable
      <3>2. lookup'.process = [Holder EXCEPT !.info = None, !.cgroup = None] /\ lookup'.at = "info"
        BY <2>1, <2>6, <3>1, FileByFile DEF After, Readable
      <3> QED BY <2>2, <3>1, <3>2 DEF Pending
    <2>7. CASE file = "info"
      <3>1. /\ Readable /\ process = [Holder EXCEPT !.info = None, !.cgroup = None]
            /\ Holder \in Snapshot
        BY <1>1, <1>3, <2>1, <2>4, <2>7 DEF AnswerInv, Pending, Readable
      <3>2. lookup'.process = [Holder EXCEPT !.cgroup = None] /\ lookup'.at = "cgroup"
        BY <2>1, <2>7, <3>1, FileByFile DEF After, Readable
      <3> QED BY <2>2, <3>1, <3>2 DEF Pending
    <2>8. CASE file = "cgroup"
      <3>1. Readable /\ process = [Holder EXCEPT !.cgroup = None] /\ Holder \in Snapshot
        BY <1>1, <1>3, <2>1, <2>4, <2>8 DEF AnswerInv, Pending, Readable
      <3>2. lookup'.process = Holder /\ lookup'.at = "insert"
        BY <2>1, <2>8, <3>1, FileByFile DEF After, Readable
      <3>3. Seen(Behind(lookup.request))' = Holder
        <4>1. Behind(lookup.request)' = Behind(lookup.request)
          BY <1>1, <2>1 DEF Behind
        <4> QED BY <1>3, <3>1, <4>1
      <3> QED BY <3>2, <3>3 DEF Pending
    <2> QED BY <2>5, <2>6, <2>7, <2>8
  <1> QED BY <1>4, <1>5, <1>6

LEMMA InsertAnswers ==
  ASSUME CacheInv, AnswerInv, Insert
  PROVE  AnswerInv'
  <1> DEFINE request == lookup.request
  <1>1. /\ lookup # None /\ lookup.at = "insert" /\ lookup' = None /\ UNCHANGED <<index, holder>>
        /\ Cached' = (Cached \ Evicted) \cup {request} /\ current' = current \ Evicted
        /\ \A r \in Cached' :
             cache'[r] = IF r = request THEN ResolveUncached(index, request, lookup.process) ELSE cache[r]
    BY DEF Insert, Cached, processVars
  <1>2. \A r : Behind(r)' = Behind(r)
    BY <1>1 DEF Behind
  <1>3. ASSUME NEW r \in Cached' \cap current'
        PROVE  cache'[r] = ResolveUncached(index, r, Seen(Behind(r)))
    <2>1. r \in current
      BY <1>1, <1>3
    <2>2. CASE r = request
      <3>1. lookup.process = Seen(Behind(request))
        BY <1>1, <2>1, <2>2 DEF AnswerInv, Pending
      <3> QED BY <1>1, <1>3, <2>2, <3>1
    <2>3. CASE r # request
      <3>1. r \in Cached
        BY <1>1, <1>3, <2>3
      <3> QED BY <1>1, <1>3, <2>1, <2>3, <3>1 DEF AnswerInv, AnswersCurrent
    <2> QED BY <2>2, <2>3
  <1>4. AnswersCurrent'
    <2> SUFFICES ASSUME NEW r \in Cached' \cap current'
                 PROVE  cache'[r] = ResolveUncached(index, r, Seen(Behind(r)))'
      BY DEF AnswersCurrent
    <2>1. index' = index /\ Behind(r)' = Behind(r)
      BY <1>1, <1>2
    <2>2. ResolveUncached(index, r, Seen(Behind(r)))' = ResolveUncached(index', r, Seen(Behind(r)'))
      OBVIOUS
    <2> QED BY <1>3, <2>1, <2>2
  <1>5. Pending'
    BY <1>1 DEF Pending
  <1> QED BY <1>4, <1>5 DEF AnswerInv

\* Another process behind an id: whatever was asked of the id is current no more.
LEMMA ChangeAnswers ==
  ASSUME CacheInv, AnswerInv, NEW pid \in Pid, NEW program \in Program \cup {None},
         ProcessChanges(pid, program)
  PROVE  AnswerInv'
  <1>1. /\ UNCHANGED <<index, cache, lookup>> /\ Cached' = Cached
        /\ current' = {r \in current : r.pid # pid} /\ holder' = [holder EXCEPT ![pid] = program]
    BY DEF ProcessChanges, cacheVars, Cached
  <1>2. ASSUME NEW r \in current' PROVE Behind(r)' = Behind(r) /\ holder'[r.pid] = holder[r.pid] /\ r \in current
    <2>1. r.pid # pid /\ r \in current
      BY <1>1
    <2>2. holder'[r.pid] = holder[r.pid]
      BY <1>1, <2>1 DEF CacheInv, Typed
    <2> QED BY <2>1, <2>2 DEF Behind
  <1>3. AnswersCurrent'
    <2> SUFFICES ASSUME NEW r \in Cached' \cap current'
                 PROVE  cache'[r] = ResolveUncached(index, r, Seen(Behind(r)))'
      BY DEF AnswersCurrent
    <2>1. index' = index /\ Behind(r)' = Behind(r) /\ r \in Cached \cap current
      BY <1>1, <1>2
    <2>2. ResolveUncached(index, r, Seen(Behind(r)))' = ResolveUncached(index', r, Seen(Behind(r)'))
      OBVIOUS
    <2> QED BY <1>1, <2>1, <2>2 DEF AnswerInv, AnswersCurrent
  <1>4. Pending'
    <2> SUFFICES ASSUME lookup # None, lookup.request \in current' PROVE Pending'
      BY <1>1 DEF Pending
    <2>1. Behind(lookup.request)' = Behind(lookup.request) /\ lookup.request \in current
      BY <1>1, <1>2
    <2>2. Holder' = Holder /\ Readable' = Readable
      BY <1>1, <1>2 DEF Holder, Readable
    <2> QED BY <1>1, <2>1, <2>2 DEF AnswerInv, Pending
  <1> QED BY <1>3, <1>4 DEF AnswerInv

LEMMA AnswerStep == CacheInv /\ AnswerInv /\ [Next]_vars => AnswerInv'
  <1> SUFFICES ASSUME CacheInv, AnswerInv, [Next]_vars PROVE AnswerInv'
    OBVIOUS
  <1>1. CASE UNCHANGED vars
    <2>1. UNCHANGED <<index, cache, holder, lookup, current>> /\ Cached' = Cached
      BY <1>1 DEF vars, cacheVars, processVars, Cached
    <2>2. AnswersCurrent'
      BY <2>1, AnswersKept DEF AnswerInv
    <2> QED BY <2>1, <2>2 DEF AnswerInv, Pending, Readable, Holder, Behind
  <1>2. ASSUME NEW request \in Request, Hit(request) PROVE AnswerInv'
    BY <1>2, HitAnswers
  <1>3. ASSUME NEW request \in Request, Miss(request) PROVE AnswerInv'
    BY <1>3, MissAnswers
  <1>4. CASE (\E request \in Request : Invalidate(request)) \/ ClearCache
    BY <1>4, DropAnswers
  <1>5. CASE ReadFails \/ ReadDir \/ \E file \in {"comm", "exe", "info", "cgroup"} : ReadFile(file)
    BY <1>5, ReadAnswers
  <1>6. CASE Insert
    BY <1>6, InsertAnswers
  <1>7. ASSUME NEW pid \in Pid, NEW program \in Program \cup {None}, ProcessChanges(pid, program)
        PROVE  AnswerInv'
    BY <1>7, ChangeAnswers
  <1>8. CASE Rest
    BY <1>1, <1>8 DEF Rest
  <1> QED BY <1>1, <1>2, <1>3, <1>4, <1>5, <1>6, <1>7, <1>8 DEF Next

\* A cached answer is the one a lookup would give now, unless the process behind the id
\* has changed since that lookup began.
THEOREM AnswersTrue == Spec => []AnswersCurrent
  <1>1. AnswerInv => AnswersCurrent
    BY DEF AnswerInv
  <1> QED BY <1>1, InitAnswers, AnswerStep, CacheInvariance, PTL DEF Spec

-----------------------------------------------------------------------------
(* The index of desktop entries. *)

\* An entry that is found, with the directory it is from.
Found(dirs, x) ==
  \E i \in DOMAIN dirs : \E file \in dirs[i].files :
    Intact(dirs[i]) /\ Shown(file) /\ x = [from |-> i, entry |-> Entry(file)]

LEMMA FoundIffEntry ==
  ASSUME NEW dirs, NEW x
  PROVE  x \in EntriesOf(dirs) <=> Found(dirs, x)
  BY DEF EntriesOf, Found

\* A file with its entry, and the entry's id.
LEMMA EntryId == \A file : Entry(file).id = file.stem
  BY DEF Entry

LEMMA RankIs ==
  ASSUME NEW id \in ToSet(Ids)
  PROVE  Rank(id) \in DOMAIN Ids /\ Ids[Rank(id)] = id /\ Rank(id) \in Nat
  <1>1. \E n \in DOMAIN Ids : Ids[n] = id
    BY DEF ToSet
  <1>2. DOMAIN Ids \subseteq Nat
    BY DirectoriesAssumption DEF DirectoriesAssumption
  <1> QED BY <1>1, <1>2 DEF Rank

\* Finitely many entries are found.
LEMMA EntriesFinite ==
  ASSUME NEW dirs \in Directories
  PROVE  IsFiniteSet(EntriesOf(dirs))
  <1> DEFINE shown(i) == {file \in dirs[i].files : Shown(file)}
             of(i)    == {[from |-> i, entry |-> Entry(file)] : file \in shown(i)}
             some     == {i \in DOMAIN dirs : Intact(dirs[i])}
             all      == {of(i) : i \in some}
  <1>1. /\ DOMAIN dirs = 1..Len(dirs) /\ Len(dirs) \in Nat
        /\ \A i \in DOMAIN dirs : IsFiniteSet(dirs[i].files)
    BY DirectoriesAssumption DEF DirectoriesAssumption
  <1>2. IsFiniteSet(some)
    <2>1. 1 \in Int /\ Len(dirs) \in Int
      BY <1>1
    <2>2. IsFiniteSet(DOMAIN dirs)
      BY <1>1, <2>1, FS_Interval
    <2> QED BY <2>2, FS_Subset
  <1>3. ASSUME NEW i \in some PROVE IsFiniteSet(of(i))
    <2> DEFINE f == [file \in shown(i) |-> [from |-> i, entry |-> Entry(file)]]
    <2>1. IsFiniteSet(shown(i))
      BY <1>1, FS_Subset
    <2>2. f \in Surjection(shown(i), of(i))
      BY DEF Surjection
    <2> HIDE DEF f, of, shown
    <2> QED BY <2>1, <2>2, FS_Surjection
  <1>4. IsFiniteSet(all)
    <2> DEFINE f == [i \in some |-> of(i)]
    <2> HIDE DEF of, some
    <2>1. f \in Surjection(some, all)
      BY DEF Surjection
    <2> HIDE DEF f, all
    <2> QED BY <1>2, <2>1, FS_Surjection
  <1>5. \A S \in all : IsFiniteSet(S)
    BY <1>3
  <1>6. EntriesOf(dirs) = UNION all
    BY DEF EntriesOf
  <1> HIDE DEF all
  <1> QED BY <1>4, <1>5, <1>6, FS_UNION

\* What is found in one directory under one id is one entry.
LEMMA EntryFacts ==
  ASSUME NEW dirs \in Directories, NEW x \in EntriesOf(dirs)
  PROVE  /\ x.entry.id \in ToSet(Ids) /\ x.from \in Nat
         /\ \A y \in EntriesOf(dirs) : x.from = y.from /\ x.entry.id = y.entry.id => x = y
  <1>1. PICK i \in DOMAIN dirs : \E file \in dirs[i].files :
          Shown(file) /\ x = [from |-> i, entry |-> Entry(file)]
    BY FoundIffEntry DEF Found
  <1>2. PICK file \in dirs[i].files : x = [from |-> i, entry |-> Entry(file)]
    BY <1>1
  <1>3. x.entry.id = file.stem /\ x.from = i
    BY <1>2, EntryId
  <1>4. /\ i \in Nat /\ file.stem \in ToSet(Ids)
        /\ \A f, g \in dirs[i].files : f.stem = g.stem => f = g
    BY DirectoriesAssumption DEF DirectoriesAssumption
  <1>5. ASSUME NEW y \in EntriesOf(dirs), x.from = y.from, x.entry.id = y.entry.id
        PROVE  x = y
    <2>1. PICK j \in DOMAIN dirs : \E other \in dirs[j].files : y = [from |-> j, entry |-> Entry(other)]
      BY FoundIffEntry DEF Found
    <2>2. PICK other \in dirs[j].files : y = [from |-> j, entry |-> Entry(other)]
      BY <2>1
    <2>3. j = i /\ other.stem = file.stem
      BY <1>3, <1>5, <2>2, EntryId
    <2>4. other = file
      BY <1>4, <2>3
    <2> QED BY <1>2, <2>2, <2>3, <2>4
  <1> QED BY <1>3, <1>4, <1>5

\* By id, then by directory, is an order of what is found.
LEMMA EntriesOrdered ==
  ASSUME NEW dirs \in Directories
  PROVE  Ordered(EntriesOf(dirs), NotAfter(EntriesOf(dirs)))
  <1> DEFINE found == EntriesOf(dirs)  order == NotAfter(found)
             rank(x) == Rank(x.entry.id)
  <1>1. \A x, y \in found : <<x, y>> \in order <=>
          \/ rank(x) < rank(y)
          \/ x.entry.id = y.entry.id /\ x.from <= y.from
    BY DEF NotAfter
  <1>2. \A x, y \in found : rank(x) = rank(y) => x.entry.id = y.entry.id
    <2> SUFFICES ASSUME NEW x \in found, NEW y \in found, rank(x) = rank(y) PROVE x.entry.id = y.entry.id
      OBVIOUS
    <2>1. x.entry.id \in ToSet(Ids) /\ y.entry.id \in ToSet(Ids)
      BY EntryFacts
    <2>2. Ids[rank(x)] = x.entry.id /\ Ids[rank(y)] = y.entry.id
      BY <2>1, RankIs
    <2> QED BY <2>2
  <1>3. \A x, y \in found : x.entry.id = y.entry.id => rank(x) = rank(y)
    OBVIOUS
  <1>4. \A x \in found : rank(x) \in Nat /\ x.from \in Nat
    BY EntryFacts, RankIs
  <1>5. \A x, y \in found : x.from = y.from /\ x.entry.id = y.entry.id => x = y
    BY EntryFacts
  <1> HIDE DEF found, order, rank
  <1>6. \A x \in found : <<x, x>> \in order
    BY <1>1, <1>4
  <1>7. ASSUME NEW x \in found, NEW y \in found PROVE <<x, y>> \in order \/ <<y, x>> \in order
    <2>1. rank(x) \in Nat /\ rank(y) \in Nat /\ x.from \in Nat /\ y.from \in Nat
      BY <1>4
    <2>2. rank(x) = rank(y) => x.entry.id = y.entry.id
      BY <1>2
    <2>3. \/ rank(x) < rank(y) \/ rank(y) < rank(x)
          \/ x.entry.id = y.entry.id /\ (x.from <= y.from \/ y.from <= x.from)
      BY <2>1, <2>2
    <2> QED BY <1>1, <2>3
  <1>8. ASSUME NEW x \in found, NEW y \in found, <<x, y>> \in order, <<y, x>> \in order
        PROVE  x = y
    <2>1. rank(x) \in Nat /\ rank(y) \in Nat /\ x.from \in Nat /\ y.from \in Nat
      BY <1>4
    <2>2. ~(rank(x) < rank(y)) /\ ~(rank(y) < rank(x))
      BY <1>1, <1>3, <1>8, <2>1
    <2>3. x.from = y.from /\ x.entry.id = y.entry.id
      BY <1>1, <1>8, <2>1, <2>2
    <2> QED BY <1>5, <2>3
  <1>9. ASSUME NEW x \in found, NEW y \in found, NEW z \in found, <<x, y>> \in order, <<y, z>> \in order
        PROVE  <<x, z>> \in order
    <2>1. /\ rank(x) \in Nat /\ rank(y) \in Nat /\ rank(z) \in Nat
          /\ x.from \in Nat /\ y.from \in Nat /\ z.from \in Nat
      BY <1>4
    <2>2. /\ rank(x) < rank(y) \/ (x.entry.id = y.entry.id /\ x.from <= y.from)
          /\ rank(y) < rank(z) \/ (y.entry.id = z.entry.id /\ y.from <= z.from)
      BY <1>1, <1>9
    <2>3. rank(x) < rank(z) \/ (x.entry.id = z.entry.id /\ x.from <= z.from)
      <3>1. x.entry.id = y.entry.id => rank(x) = rank(y)
        BY <1>3
      <3>2. y.entry.id = z.entry.id => rank(y) = rank(z)
        BY <1>3
      <3> QED BY <2>1, <2>2, <3>1, <3>2
    <2> QED BY <1>1, <2>3
  <1>10. Ordered(found, order)
    BY <1>6, <1>7, <1>8, <1>9 DEF Ordered
  <1> QED BY <1>10 DEF found, order

\* The sorted entries before neighbours with one id are dropped, and what is left of them.
Sorted(dirs) == Listed(EntriesOf(dirs), NotAfter(EntriesOf(dirs)))
Ahead(dirs, k) == k = 1 \/ Sorted(dirs)[k - 1].entry.id # Sorted(dirs)[k].entry.id

LEMMA SortedIs ==
  ASSUME NEW dirs \in Directories
  PROVE  LET size == Cardinality(EntriesOf(dirs))
             at   == Sorted(dirs)
         IN  /\ size \in Nat /\ at \in [1..size -> EntriesOf(dirs)]
             /\ \A k, l \in 1..size : k < l => <<at[k], at[l]>> \in NotAfter(EntriesOf(dirs)) /\ at[k] # at[l]
             /\ \A x \in EntriesOf(dirs) : \E k \in 1..size : at[k] = x
  BY EntriesFinite, EntriesOrdered, ListedIs DEF Sorted

LEMMA IndexIs ==
  ASSUME NEW dirs \in Directories
  PROVE  LET size == Cardinality(EntriesOf(dirs))
         IN  /\ Index(dirs) \in Seq({x.entry : x \in EntriesOf(dirs)})
             /\ ToSet(Index(dirs)) = {Sorted(dirs)[k].entry : k \in {k \in 1..size : Ahead(dirs, k)}}
  <1> DEFINE size    == Cardinality(EntriesOf(dirs))
             at      == Sorted(dirs)
             entries == [k \in DOMAIN at |-> at[k].entry]
             kept    == {k \in DOMAIN entries : k = 1 \/ entries[k - 1].id # entries[k].id}
             some    == {x.entry : x \in EntriesOf(dirs)}
  <1>1. size \in Nat /\ at \in [1..size -> EntriesOf(dirs)]
    BY SortedIs
  <1>2. Index(dirs) = Picked(entries, kept)
    BY DEF Index, Dedup, Sorted
  <1> HIDE DEF size, at
  <1>3. DOMAIN entries = 1..size /\ \A k \in 1..size : entries[k] = at[k].entry /\ entries[k] \in some
    BY <1>1
  <1>4. kept = {k \in 1..size : Ahead(dirs, k)}
    <2>1. \A k \in 1..size : k # 1 => k - 1 \in 1..size
      BY <1>1
    <2> HIDE DEF entries
    <2> QED BY <1>3, <2>1 DEF Ahead, at
  <1> HIDE DEF entries, kept
  <1>5. kept \in SUBSET (1..size)
    BY <1>4
  <1>6. ToSet(Index(dirs)) = {entries[k] : k \in kept}
    BY <1>1, <1>2, <1>5, PickedSet
  <1>7. {entries[k] : k \in kept} = {at[k].entry : k \in kept}
    BY <1>3, <1>5
  <1>8. Index(dirs) \in Seq(some)
    <2>1. PICK of : Lists(of, kept, entries)
      BY <1>1, <1>5, PickedIs
    <2> DEFINE number == Cardinality(kept)
    <2>2. /\ number \in Nat /\ of \in [1..number -> kept]
          /\ Index(dirs) = [k \in 1..number |-> entries[of[k]]]
      BY <1>2, <2>1 DEF Lists
    <2> HIDE DEF number, some
    <2>3. Index(dirs) \in [1..number -> some]
      BY <1>3, <1>5, <2>2
    <2> QED BY <2>2, <2>3
  <1> QED BY <1>4, <1>6, <1>7, <1>8 DEF size, at, some

\* Of all that is found under an id, what is not after the rest is what the index has.
LEMMA FirstFoundStays ==
  ASSUME NEW dirs \in Directories, NEW x \in EntriesOf(dirs),
         \A y \in EntriesOf(dirs) : y.entry.id = x.entry.id => x.from <= y.from
  PROVE  {entry \in ToSet(Index(dirs)) : entry.id = x.entry.id} = {x.entry}
  <1> DEFINE found == EntriesOf(dirs)  order == NotAfter(found)  size == Cardinality(found)
             at == Sorted(dirs)  id == x.entry.id
  <1>1. /\ size \in Nat /\ at \in [1..size -> found]
        /\ \A k, l \in 1..size : k < l => <<at[k], at[l]>> \in order /\ at[k] # at[l]
        /\ \A y \in found : \E k \in 1..size : at[k] = y
    BY SortedIs
  <1>2. Ordered(found, order)
    BY EntriesOrdered
  <1>3. \A y, z \in found : <<y, z>> \in order <=>
          \/ Rank(y.entry.id) < Rank(z.entry.id)
          \/ y.entry.id = z.entry.id /\ y.from <= z.from
    BY DEF NotAfter
  <1>4. \A y \in found : y.entry.id \in ToSet(Ids) /\ Rank(y.entry.id) \in Nat /\ Ids[Rank(y.entry.id)] = y.entry.id
    BY EntryFacts, RankIs
  <1>5. ToSet(Index(dirs)) = {at[k].entry : k \in {k \in 1..size : Ahead(dirs, k)}}
    BY IndexIs
  <1>6. \A k \in 1..size : Ahead(dirs, k) <=> (k = 1 \/ at[k - 1].entry.id # at[k].entry.id)
    BY DEF Ahead
  <1>7. \A y \in found : y.entry.id = id => <<x, y>> \in order
    BY <1>3
  <1> HIDE DEF found, order, size, at
  <1>8. x \in found
    BY DEF found
  <1>9. PICK k0 \in 1..size : at[k0] = x
    BY <1>1, <1>8
  <1>10. ASSUME NEW k \in 1..size, at[k].entry.id = id PROVE k0 <= k
    <2>1. at[k] \in found /\ <<x, at[k]>> \in order
      BY <1>1, <1>7, <1>10
    <2>2. ASSUME k < k0 PROVE FALSE
      <3>1. <<at[k], x>> \in order /\ at[k] # x
        BY <1>1, <1>9, <2>2
      <3> QED BY <1>2, <1>8, <2>1, <3>1 DEF Ordered
    <2> QED BY <1>1, <2>2
  <1>11. Ahead(dirs, k0)
    <2> SUFFICES ASSUME k0 # 1, at[k0 - 1].entry.id = at[k0].entry.id PROVE FALSE
      BY <1>6
    <2>1. k0 - 1 \in 1..size /\ k0 - 1 < k0
      BY <1>1
    <2>2. k0 <= k0 - 1
      BY <1>9, <1>10, <2>1
    <2> QED BY <2>1, <2>2
  <1>12. ASSUME NEW k \in 1..size, Ahead(dirs, k), at[k].entry.id = id PROVE k = k0
    <2> SUFFICES ASSUME k0 < k PROVE FALSE
      BY <1>1, <1>10, <1>12
    <2>1. k - 1 \in 1..size /\ k0 <= k - 1 /\ k - 1 < k /\ k # 1
      BY <1>1
    <2>2. at[k] \in found /\ at[k - 1] \in found
      BY <1>1, <2>1
    <2>3. <<x, at[k - 1]>> \in order
      <3>1. CASE k0 = k - 1
        BY <1>2, <1>8, <1>9, <3>1 DEF Ordered
      <3>2. CASE k0 < k - 1
        BY <1>1, <1>9, <2>1, <3>2
      <3> QED BY <1>1, <2>1, <3>1, <3>2
    <2>4. <<at[k - 1], at[k]>> \in order
      BY <1>1, <2>1
    <2>5. Rank(at[k - 1].entry.id) = Rank(id)
      <3> DEFINE a == Rank(id)  b == Rank(at[k - 1].entry.id)
      <3>1. a \in Nat /\ b \in Nat
        BY <1>4, <1>8, <2>2
      <3>2. a < b \/ id = at[k - 1].entry.id
        BY <1>3, <1>8, <2>2, <2>3
      <3>3. b < a \/ id = at[k - 1].entry.id
        BY <1>3, <1>12, <2>2, <2>4
      <3>4. id = at[k - 1].entry.id => a = b
        OBVIOUS
      <3> HIDE DEF a, b
      <3>5. a = b
        BY <3>1, <3>2, <3>3, <3>4
      <3> QED BY <3>5 DEF a, b
    <2>6. at[k - 1].entry.id = id
      BY <1>4, <1>8, <2>2, <2>5
    <2> QED BY <1>6, <1>12, <2>1, <2>6
  <1>13. ASSUME NEW entry \in ToSet(Index(dirs)), entry.id = id PROVE entry = x.entry
    <2>1. PICK k \in 1..size : Ahead(dirs, k) /\ entry = at[k].entry
      BY <1>5, <1>13
    <2> QED BY <1>9, <1>12, <1>13, <2>1
  <1>14. x.entry \in ToSet(Index(dirs))
    BY <1>5, <1>9, <1>11
  <1> QED BY <1>13, <1>14

\* The index is the one of the directories of the start.
Indexed == directories \in Directories /\ index = Index(directories)

LEMMA IndexStep == Indexed /\ [Next]_vars => Indexed'
  <1> SUFFICES ASSUME Indexed, [Next]_vars PROVE Indexed'
    OBVIOUS
  <1>1. UNCHANGED <<directories, index>>
    BY DEF Next, vars, Hit, Miss, Invalidate, ClearCache, ReadFails, ReadDir, ReadFile, Insert,
           ProcessChanges, Rest
  <1> QED BY <1>1 DEF Indexed

\* Which entry an id leads to is decided by the first intact directory that shows one, for
\* any number of directories with any files, and not by how the entries were sorted.
THEOREM UserWins == Spec => []UserOverridesSystem
  <1>1. Init => Indexed
    BY DEF Init, Indexed
  <1>2. Indexed => UserOverridesSystem
    <2> SUFFICES ASSUME Indexed, NEW i \in DOMAIN directories, NEW id \in ToSet(Ids),
                        Shows(directories[i], id), \A j \in 1..(i-1) : ~Shows(directories[j], id)
                 PROVE  {entry \in ToSet(index) : entry.id = id} =
                          {Entry(file) : file \in {file \in directories[i].files : file.stem = id}}
      BY DEF UserOverridesSystem
    <2>1. directories \in Directories /\ index = Index(directories)
      BY DEF Indexed
    <2>2. PICK file \in directories[i].files : Intact(directories[i]) /\ file.stem = id /\ Shown(file)
      BY DEF Shows
    <2> DEFINE x == [from |-> i, entry |-> Entry(file)]
    <2>3. x \in EntriesOf(directories) /\ x.entry.id = id /\ x.from = i /\ x.entry = Entry(file)
      BY <2>2, FoundIffEntry, EntryId DEF Found
    <2> HIDE DEF x
    <2>4. /\ DOMAIN directories = 1..Len(directories) /\ Len(directories) \in Nat
          /\ \A f, g \in directories[i].files : f.stem = g.stem => f = g
      BY <2>1, DirectoriesAssumption DEF DirectoriesAssumption
    <2>5. ASSUME NEW y \in EntriesOf(directories), y.entry.id = id PROVE i <= y.from
      <3>1. PICK j \in DOMAIN directories : \E other \in directories[j].files :
              Intact(directories[j]) /\ Shown(other) /\ y = [from |-> j, entry |-> Entry(other)]
        BY FoundIffEntry DEF Found
      <3>2. Shows(directories[j], id) /\ y.from = j
        BY <2>5, <3>1, EntryId DEF Shows
      <3>3. ~(j \in 1..(i - 1))
        BY <3>2
      <3> QED BY <2>4, <3>2, <3>3
    <2>6. {entry \in ToSet(index) : entry.id = id} = {Entry(file)}
      BY <2>1, <2>3, <2>5, FirstFoundStays
    <2>7. {f \in directories[i].files : f.stem = id} = {file}
      BY <2>2, <2>4
    <2> QED BY <2>6, <2>7
  <1> QED BY <1>1, <1>2, IndexStep, PTL DEF Spec

-----------------------------------------------------------------------------
(* The first of several sources that says something. *)

\* Nothing that the requests, the processes or the desktop entries say of an
\* application reads like the text for an unknown one.
NothingReadsUnknown ==
  /\ Unknown # None
  /\ \A request \in Request : Unknown \notin Hints(request)
  /\ \A process \in Snapshot : Unknown \notin Facts(process)
  /\ \A dirs \in Directories : \A i \in DOMAIN dirs : \A file \in dirs[i].files :
       Entry(file).name # Unknown

LEMMA Least ==
  ASSUME NEW S \in SUBSET Nat, S # {}
  PROVE  Min(S) \in S /\ \A i \in S : Min(S) <= i
  <1> DEFINE less == OpToRel(<, Nat)
  <1>1. IsWellFoundedOn(less, Nat)
    BY NatLessThanWellFounded
  <1>2. \A i, j \in Nat : i < j => <<i, j>> \in less
    BY DEF OpToRel
  <1> HIDE DEF less
  <1>3. PICK m \in S : \A i \in S : <<i, m>> \notin less
    BY <1>1, WFMin
  <1>4. ASSUME NEW i \in S PROVE m <= i
    <2>1. i \in Nat /\ m \in Nat
      OBVIOUS
    <2>2. ~(i < m)
      BY <1>2, <1>3, <2>1
    <2> QED BY <2>1, <2>2
  <1>5. m \in S /\ \A i \in S : m =< i
    BY <1>3, <1>4
  <1> QED BY <1>5 DEF Min

\* A chain of options is the first that is there, if any is.
LEMMA FirstIs ==
  ASSUME NEW n \in Nat, NEW options, DOMAIN options = 1..n
  PROVE  \/ FirstOf(options) = None /\ \A i \in 1..n : options[i] = None
         \/ \E i \in 1..n : /\ FirstOf(options) = options[i] /\ options[i] # None
                            /\ \A j \in 1..n : j < i => options[j] = None
  <1> DEFINE known == {i \in 1..n : options[i] # None}
  <1>1. FirstOf(options) = IF known = {} THEN None ELSE options[Min(known)]
    BY DEF FirstOf
  <1>2. CASE known = {}
    BY <1>1, <1>2
  <1>3. CASE known # {}
    <2>1. Min(known) \in known /\ \A i \in known : Min(known) <= i
      <3>1. known \in SUBSET Nat
        OBVIOUS
      <3> HIDE DEF known
      <3> QED BY <1>3, <3>1, Least
    <2>2. FirstOf(options) = options[Min(known)]
      BY <1>1, <1>3
    <2> DEFINE i == Min(known)
    <2> HIDE DEF i
    <2>3. i \in 1..n /\ options[i] # None /\ FirstOf(options) = options[i]
      BY <2>1, <2>2 DEF i
    <2>4. ASSUME NEW j \in 1..n, j < i PROVE options[j] = None
      <3>1. j \notin known
        <4>1. j \in known => i <= j
          BY <2>1 DEF i
        <4> QED BY <2>3, <2>4, <4>1
      <3> QED BY <3>1
    <2> QED BY <2>3, <2>4
  <1> QED BY <1>2, <1>3

\* The entry that is found is one of the index.
LEMMA FoundIs ==
  ASSUME NEW entries, NEW some, DOMAIN entries = 1..Len(entries), Len(entries) \in Nat
  PROVE  FirstEntry(entries, some) = None \/ \E i \in DOMAIN entries : FirstEntry(entries, some) = entries[i]
  <1> DEFINE options == [i \in DOMAIN entries |-> IF entries[i] \in some THEN entries[i] ELSE None]
  <1>1. DOMAIN options = 1..Len(entries) /\ \A i \in 1..Len(entries) : options[i] \in {entries[i], None}
    OBVIOUS
  <1>2. FirstEntry(entries, some) = FirstOf(options)
    BY DEF FirstEntry
  <1> HIDE DEF options
  <1>3. \/ FirstOf(options) = None
        \/ \E i \in 1..Len(entries) : FirstOf(options) = options[i] /\ options[i] # None
    BY <1>1, FirstIs
  <1> QED BY <1>1, <1>2, <1>3

LEMMA FindIs ==
  ASSUME NEW entries, NEW app_id, NEW name, DOMAIN entries = 1..Len(entries), Len(entries) \in Nat
  PROVE  Find(entries, app_id, name) = None \/ \E i \in DOMAIN entries : Find(entries, app_id, name) = entries[i]
  <1> DEFINE x == IF app_id = None THEN None
                  ELSE FirstEntry(entries, {entry \in ToSet(entries) : Bare[app_id] \in {entry.id, entry.flatpak_app_id}})
             y == IF name = None THEN None
                  ELSE FirstEntry(entries, {entry \in ToSet(entries) : entry.executable_name = name})
             options == <<x, y>>
  <1>1. Find(entries, app_id, name) = FirstOf(options)
    BY DEF Find
  <1>2. x = None \/ \E i \in DOMAIN entries : x = entries[i]
    BY FoundIs
  <1>3. y = None \/ \E i \in DOMAIN entries : y = entries[i]
    BY FoundIs
  <1> HIDE DEF x, y
  <1>4. DOMAIN options = 1..2 /\ options[1] = x /\ options[2] = y
    OBVIOUS
  <1> HIDE DEF options
  <1>5. FirstOf(options) = None \/ \E i \in 1..2 : FirstOf(options) = options[i]
    BY <1>4, FirstIs
  <1>6. FirstOf(options) \in {None, x, y}
    BY <1>4, <1>5
  <1> QED BY <1>1, <1>2, <1>3, <1>6

\* Three options.
LEMMA FirstOfThree ==
  ASSUME NEW x, NEW y, NEW z
  PROVE  /\ FirstOf(<<x, y, z>>) \in {x, y, z}
         /\ FirstOf(<<x, y, z>>) = None => x = None /\ y = None /\ z = None
  <1> DEFINE options == <<x, y, z>>
  <1>1. DOMAIN options = 1..3 /\ options[1] = x /\ options[2] = y /\ options[3] = z
    OBVIOUS
  <1> HIDE DEF options
  <1>2. \/ FirstOf(options) = None /\ \A i \in 1..3 : options[i] = None
        \/ \E i \in 1..3 : FirstOf(options) = options[i] /\ options[i] # None
    BY <1>1, FirstIs
  <1>3. /\ FirstOf(options) \in {x, y, z}
        /\ FirstOf(options) = None => x = None /\ y = None /\ z = None
    BY <1>1, <1>2
  <1> QED BY <1>3 DEF options

\* Two options before five.
LEMMA Joined ==
  ASSUME NEW x, NEW y, NEW c, NEW d, NEW e, NEW f, NEW g, NEW whole, whole = <<x, y>> \o <<c, d, e, f, g>>
  PROVE  /\ DOMAIN whole = 1..7 /\ whole[1] = x /\ whole[2] = y
         /\ whole[3] = c /\ whole[4] = d /\ whole[5] = e /\ whole[6] = f
  <1> DEFINE some == {x, y, c, d, e, f, g}  front == <<x, y>>  back == <<c, d, e, f, g>>
  <1>1. x \in some /\ y \in some /\ c \in some /\ d \in some /\ e \in some /\ f \in some /\ g \in some
    OBVIOUS
  <1> HIDE DEF some
  <1>2. front \in Seq(some) /\ Len(front) = 2 /\ front[1] = x /\ front[2] = y
    BY <1>1
  <1>3. back \in Seq(some) /\ Len(back) = 5
    BY <1>1
  <1>4. back[1] = c /\ back[2] = d /\ back[3] = e /\ back[4] = f
    OBVIOUS
  <1>5. whole = front \o back
    OBVIOUS
  <1> HIDE DEF front, back
  <1>6. whole \in Seq(some) /\ Len(whole) = Len(front) + Len(back)
    <2>1. front \o back \in Seq(some) /\ Len(front \o back) = Len(front) + Len(back)
      BY <1>2, <1>3, ConcatProperties
    <2> QED BY <1>5, <2>1
  <1>7. \A i \in 1 .. Len(front) + Len(back) : whole[i] = IF i <= Len(front) THEN front[i] ELSE back[i - Len(front)]
    <2>1. \A i \in 1 .. Len(front) + Len(back) :
            (front \o back)[i] = IF i <= Len(front) THEN front[i] ELSE back[i - Len(front)]
      BY <1>2, <1>3, ConcatProperties, Zenon
    <2> QED BY <1>5, <2>1
  <1>8. Len(whole) = 7 /\ DOMAIN whole = 1..7
    BY <1>2, <1>3, <1>6
  <1>9. \A i \in 1..7 : whole[i] = IF i <= 2 THEN front[i] ELSE back[i - 2]
    BY <1>2, <1>3, <1>7
  <1>10. whole[1] = front[1] /\ whole[2] = front[2] /\ whole[3] = back[1] /\ whole[4] = back[2]
         /\ whole[5] = back[3] /\ whole[6] = back[4]
    BY <1>9
  <1> QED BY <1>2, <1>4, <1>8, <1>10

\* The name that is shown is the last resort only if nothing else is there.
LEMMA LastResort ==
  ASSUME NEW a, NEW m \in BOOLEAN, NEW b, NEW c, NEW d, NEW e, NEW f,
         Unknown # None, Unknown \notin {a, b, c, d, e, f},
         DisplayName(a, m, b, c, d, e, f) = Unknown
  PROVE  a = None /\ b = None /\ c = None /\ d = None /\ e = None /\ f = None
  <1> DEFINE options == (IF m THEN <<b, a>> ELSE <<a, b>>) \o <<c, d, e, f, Unknown>>
  <1>1. FirstOf(options) = Unknown
    BY DEF DisplayName
  <1>2. /\ DOMAIN options = 1..7
        /\ options[1] = (IF m THEN b ELSE a) /\ options[2] = (IF m THEN a ELSE b)
        /\ options[3] = c /\ options[4] = d /\ options[5] = e /\ options[6] = f
    <2>1. CASE m
      <3>1. options = <<b, a>> \o <<c, d, e, f, Unknown>>
        BY <2>1
      <3> HIDE DEF options
      <3> QED BY <2>1, <3>1, Joined
    <2>2. CASE ~m
      <3>1. options = <<a, b>> \o <<c, d, e, f, Unknown>>
        BY <2>2
      <3> HIDE DEF options
      <3> QED BY <2>2, <3>1, Joined
    <2> QED BY <2>1, <2>2
  <1> HIDE DEF options
  <1>3. \A i \in 1..6 : options[i] # Unknown
    BY <1>2
  <1>4. PICK i \in 1..7 : FirstOf(options) = options[i] /\ \A j \in 1..7 : j < i => options[j] = None
    <2>1. \/ FirstOf(options) = None
          \/ \E i \in 1..7 : /\ FirstOf(options) = options[i] /\ options[i] # None
                             /\ \A j \in 1..7 : j < i => options[j] = None
      <3>1. DOMAIN options = 1..7 /\ 7 \in Nat
        BY <1>2
      <3> QED BY <3>1, FirstIs
    <2> QED BY <1>1, <2>1
  <1>5. i = 7
    BY <1>1, <1>3, <1>4
  <1>6. \A j \in 1..6 : options[j] = None
    BY <1>4, <1>5
  <1> QED BY <1>2, <1>6

\* What a resolution makes of a request and a process that do not read like it.
LEMMA UnknownMeansNothing ==
  ASSUME NEW entries, NEW request, NEW process,
         Len(entries) \in Nat, DOMAIN entries = 1..Len(entries),
         \A i \in DOMAIN entries : entries[i].name # Unknown,
         Unknown # None, Unknown \notin Hints(request), Unknown \notin Facts(process),
         ResolveUncached(entries, request, process).display_name = Unknown
  PROVE  Hints(request) \cup Facts(process) = {None}
  <1> DEFINE metadata_name   == PlainText(request.metadata_display_name)
             hinted          == PlainText(request.app_id)
             flatpak         == PlainText(FlatpakAppId(process))
             inferred_app_id == IF metadata_name \in AppIdLike THEN metadata_name ELSE None
             app_id          == FirstOf(<<hinted, flatpak, inferred_app_id>>)
             executable_name == IF process.exe = None THEN None ELSE PlainText(FileName[process.exe])
             process_name    == PlainText(process.comm)
             named           == PlainText(request.binary)
             binary          == FirstOf(<<named, executable_name, process_name>>)
             entry           == Find(entries, app_id, binary)
             entry_name      == IF entry = None THEN None ELSE entry.name
             machine_label   == metadata_name # None /\ metadata_name \in {app_id, binary} \cup AppIdLike
  <1>1. DisplayName(metadata_name, machine_label, entry_name, process_name, executable_name, binary, app_id)
          = Unknown
    BY DEF ResolveUncached
  <1>2. /\ Hints(request) = {hinted, metadata_name, named}
        /\ Facts(process) = {process_name, flatpak, executable_name}
    BY DEF Hints, Facts
  <1>3. machine_label \in BOOLEAN
    OBVIOUS
  <1>4. entry_name # Unknown
    <2>1. entry = None \/ \E i \in DOMAIN entries : entry = entries[i]
      BY FindIs
    <2> HIDE DEF entry
    <2> QED BY <2>1
  <1>5. inferred_app_id \in {metadata_name, None}
    OBVIOUS
  <1> HIDE DEF metadata_name, hinted, flatpak, inferred_app_id, executable_name, process_name, named,
               entry_name, machine_label
  <1>6. /\ app_id \in {hinted, flatpak, inferred_app_id}
        /\ app_id = None => hinted = None /\ flatpak = None
        /\ binary \in {named, executable_name, process_name}
        /\ binary = None => named = None
    <2>1. ASSUME NEW x, NEW y, NEW z, NEW one, one = FirstOf(<<x, y, z>>)
          PROVE  one \in {x, y, z} /\ (one = None => x = None /\ y = None)
      <3>1. FirstOf(<<x, y, z>>) \in {x, y, z} /\ (FirstOf(<<x, y, z>>) = None => x = None /\ y = None)
        BY FirstOfThree
      <3> QED BY <2>1, <3>1
    <2>2. app_id = FirstOf(<<hinted, flatpak, inferred_app_id>>)
      OBVIOUS
    <2>3. binary = FirstOf(<<named, executable_name, process_name>>)
      OBVIOUS
    <2> HIDE DEF app_id, binary
    <2>4. app_id \in {hinted, flatpak, inferred_app_id} /\ (app_id = None => hinted = None /\ flatpak = None)
      BY <2>1, <2>2
    <2>5. binary \in {named, executable_name, process_name} /\ (binary = None => named = None)
      BY <2>1, <2>3
    <2> QED BY <2>4, <2>5
  <1> HIDE DEF app_id, binary
  <1>7. Unknown \notin {metadata_name, entry_name, process_name, executable_name, binary, app_id}
    BY <1>2, <1>4, <1>5, <1>6
  <1>8. metadata_name = None /\ process_name = None /\ executable_name = None /\ binary = None /\ app_id = None
    BY <1>1, <1>3, <1>7, LastResort
  <1> QED BY <1>2, <1>6, <1>8

\* An application is unknown only if neither the request nor what is seen of its process
\* (nothing, if the name cannot be read) says anything of it, wherever nothing they can
\* say reads "unknown" itself.
THEOREM UnknownIsHonest == NothingReadsUnknown => (Spec => []UnknownSaysNothing)
  <1> SUFFICES ASSUME NothingReadsUnknown PROVE Spec => []UnknownSaysNothing
    OBVIOUS
  <1>1. Init => Indexed
    BY DEF Init, Indexed
  <1>2. CacheInv /\ Indexed /\ AnswersCurrent => UnknownSaysNothing
    <2> SUFFICES ASSUME CacheInv, Indexed, AnswersCurrent, NEW request \in Cached \cap current,
                        cache[request].display_name = Unknown
                 PROVE  Hints(request) \cup Facts(Seen(Behind(request))) = {None}
      BY DEF UnknownSaysNothing
    <2>1. request \in Request
      BY DEF CacheInv, CacheConsistent
    <2>2. Seen(Behind(request)) \in Snapshot
      <3>1. holder \in [Pid -> Program \cup {None}] /\ request.pid \in Pid \cup {None}
        BY <2>1, CacheAssumption DEF CacheInv, Typed, CacheAssumption
      <3>2. NoProcess \in Snapshot
        BY DEF NoProcess, Snapshot, Contents
      <3> QED BY <3>1, <3>2, CacheAssumption DEF Behind, Seen, CacheAssumption
    <2>3. ResolveUncached(index, request, Seen(Behind(request))).display_name = Unknown
      BY DEF AnswersCurrent
    <2>4. /\ Len(index) \in Nat /\ DOMAIN index = 1..Len(index)
          /\ \A i \in DOMAIN index : index[i].name # Unknown
          /\ Unknown # None /\ Unknown \notin Hints(request) /\ Unknown \notin Facts(Seen(Behind(request)))
      <3>1. directories \in Directories /\ index = Index(directories)
        BY DEF Indexed
      <3> DEFINE some == {x.entry : x \in EntriesOf(directories)}
      <3>2. \A entry \in some : entry.name # Unknown
        <4> SUFFICES ASSUME NEW x \in EntriesOf(directories) PROVE x.entry.name # Unknown
          OBVIOUS
        <4>1. PICK i \in DOMAIN directories : \E file \in directories[i].files :
                x = [from |-> i, entry |-> Entry(file)]
          BY FoundIffEntry DEF Found
        <4> QED BY <3>1, <4>1 DEF NothingReadsUnknown
      <3>3. index \in Seq(some)
        BY <3>1, IndexIs
      <3> HIDE DEF some
      <3>4. /\ Len(index) \in Nat /\ DOMAIN index = 1..Len(index)
            /\ \A i \in DOMAIN index : index[i].name # Unknown
        BY <3>2, <3>3
      <3> QED BY <2>1, <2>2, <3>4 DEF NothingReadsUnknown
    <2> QED BY <2>3, <2>4, UnknownMeansNothing
  <1> QED BY <1>1, <1>2, IndexStep, AnswersTrue, CacheInvariance, PTL DEF Spec
=============================================================================
