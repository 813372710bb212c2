------------------------------ MODULE LruCache ------------------------------
(* The byte-bounded cache of src/explorer/cache.mjs, one object shared by   *)
(* every explore() call of the process.  A JavaScript Map keeps its keys in *)
(* insertion order; entries is the map and order its keys, least recently   *)
(* used first.  total is the running count of bytes the code keeps beside   *)
(* the map.  The hit and miss counters, which only feed statistics, are     *)
(* left out.                                                                *)
EXTENDS Naturals, SequencesExt

CONSTANT MaxBytes

ASSUME MaxBytesAssumption == MaxBytes \in Nat

EmptyCache == [entries |-> [k \in {} |-> {}], order |-> << >>, total |-> 0]

Cached(c) == DOMAIN c.entries

\* expires is {} for an entry without a time to live, {t} otherwise.
Expired(e, now) == \E t \in e.expires : now > t

Place(order, k) == CHOOSE i \in DOMAIN order : order[i] = k
Without(order, k) == RemoveAt(order, Place(order, k))

\* The bytes of the entries of keys, one by one, and how many there are.
Held(entries, keys) == UNION {{k} \X (1 .. entries[k].size) : k \in keys}
Bytes(entries, keys) == Cardinality(Held(entries, keys))

Removed(c, k) ==
  [entries |-> Restrict(c.entries, Cached(c) \ {k}),
   order |-> Without(c.order, k),
   total |-> c.total - c.entries[k].size]

Hit(c, k, now) == k \in Cached(c) /\ ~Expired(c.entries[k], now)

\* get(): an expired entry goes, a live one becomes the most recently used.
AfterGet(c, k, now) ==
  IF k \notin Cached(c) THEN c
  ELSE IF Expired(c.entries[k], now) THEN Removed(c, k)
  ELSE [c EXCEPT !.order = Append(Without(c.order, k), k)]

\* How many entries the eviction loop takes: the fewest of the oldest ones that
\* make room for size more bytes, and all of them when nothing else does.
Oldest(c, n) == {c.order[i] : i \in 1 .. n}
Enough(c, size) ==
  {n \in 0 .. Len(c.order) : c.total - Bytes(c.entries, Oldest(c, n)) + size <= MaxBytes}
Evicted(c, size) == IF Enough(c, size) = {} THEN Len(c.order) ELSE Min(Enough(c, size))

AfterEviction(c, size) ==
  LET n == Evicted(c, size) IN
  [entries |-> Restrict(c.entries, Cached(c) \ Oldest(c, n)),
   order |-> SubSeq(c.order, n + 1, Len(c.order)),
   total |-> c.total - Bytes(c.entries, Oldest(c, n))]

Inserted(c, k, e) ==
  [entries |-> [j \in Cached(c) \union {k} |-> IF j = k THEN e ELSE c.entries[j]],
   order |-> Append(c.order, k),
   total |-> c.total + e.size]

\* Mutant: a replaced entry stays in the byte count.
AfterSetCountsTwice(c, k, e) ==
  LET replaced == IF k \in Cached(c) THEN [Removed(c, k) EXCEPT !.total = c.total] ELSE c
      roomy == AfterEviction(replaced, e.size)
  IN IF e.size <= MaxBytes THEN Inserted(roomy, k, e) ELSE roomy

\* set(): the old entry goes first, then the oldest ones until there is room.
\* A value larger than the whole cache empties it and is not stored.
AfterSet(c, k, e) ==
  LET replaced == IF k \in Cached(c) THEN Removed(c, k) ELSE c
      roomy == AfterEviction(replaced, e.size)
  IN IF e.size <= MaxBytes THEN Inserted(roomy, k, e) ELSE roomy

\* The cache's own bookkeeping: the running total is the sum of the sizes of
\* the entries, stays within the bound, and the order lists each key once.
CacheIsSound(c) ==
  /\ c.total = Bytes(c.entries, Cached(c))
  /\ c.total <= MaxBytes
  /\ Len(c.order) = Cardinality(Cached(c))
  /\ {c.order[i] : i \in 1..Len(c.order)} = Cached(c)
=============================================================================
