------------------------- MODULE BufferCacheProofs -------------------------
(***************************************************************************)
(* A buffer cache stays as it should be through each of its operations,    *)
(* for any set B of buffers and any set I of indexes: the free list holds  *)
(* the kept buffers without a user, and each buffer is in the chain of its *)
(* index alone.  B and I are parameters of the lemmas, since the programs  *)
(* have several caches.                                                    *)
(***************************************************************************)
EXTENDS BufferCache, ListLemmas

CacheTyped(c, B, I) ==
  c \in [used : [B -> Nat], index : [B -> I \cup {NoIndex}], chain : [I -> Seq(B)],
         free : Seq(B)]

(* The two halves of WellFormed.                                           *)
FreeKept(c) ==
  /\ IsInjective(c.free)
  /\ Range(c.free) = {b \in DOMAIN c.used : c.used[b] = 0 /\ c.index[b] # NoIndex}
Chained(c) ==
  \A i \in DOMAIN c.chain :
    /\ IsInjective(c.chain[i])
    /\ Range(c.chain[i]) = {b \in DOMAIN c.used : c.index[b] = i}

CacheKept(c, B, I) == CacheTyped(c, B, I) /\ WellFormed(c)

LEMMA TwoHalves ==
  ASSUME NEW c PROVE WellFormed(c) <=> FreeKept(c) /\ Chained(c)
BY DEF WellFormed, FreeKept, Chained

LEMMA EmptyOnce ==
  ASSUME NEW T
  PROVE  <<>> \in Seq(T) /\ IsInjective(<<>>) /\ Range(<<>>) = {}
BY DEF IsInjective, Range

-----------------------------------------------------------------------------
(* cache_init.                                                             *)
LEMMA EmptyKept ==
  ASSUME NEW B, NEW I, NoIndex \notin I
  PROVE  /\ CacheKept(EmptyCache(B, I), B, I)
         /\ EmptyCache(B, I).used = [b \in B |-> 0]
         /\ EmptyCache(B, I).index = [b \in B |-> NoIndex]
<1> DEFINE c == EmptyCache(B, I)
<1>1. /\ c.used = [b \in B |-> 0] /\ c.index = [b \in B |-> NoIndex]
      /\ c.chain = [i \in I |-> <<>>] /\ c.free = <<>>
      /\ c = [used |-> c.used, index |-> c.index, chain |-> c.chain, free |-> c.free]
  BY DEF EmptyCache
<1> HIDE DEF c
<1>2. /\ c.used \in [B -> Nat] /\ c.index \in [B -> I \cup {NoIndex}]
      /\ c.chain \in [I -> Seq(B)] /\ c.free \in Seq(B)
  BY <1>1, EmptyOnce
<1>3. CacheTyped(c, B, I)
  BY <1>1, <1>2 DEF CacheTyped
<1>4. FreeKept(c)
  <2>1. {b \in B : c.used[b] = 0 /\ c.index[b] # NoIndex} = {}
    BY <1>1
  <2>2. QED BY <1>1, <2>1, EmptyOnce DEF FreeKept
<1>5. Chained(c)
  <2>1. ASSUME NEW i \in I
        PROVE  IsInjective(c.chain[i]) /\ Range(c.chain[i]) = {b \in B : c.index[b] = i}
    BY <1>1, EmptyOnce
  <2>2. QED BY <1>1, <2>1 DEF Chained
<1>6. QED BY <1>1, <1>3, <1>4, <1>5, TwoHalves DEF CacheKept, c

-----------------------------------------------------------------------------
(* insert_hash_table, remove_hash_table.                                   *)
LEMMA HashKept ==
  ASSUME NEW B, NEW I, NoIndex \notin I, NEW c, CacheTyped(c, B, I), Chained(c),
         NEW b \in B, c.index[b] = NoIndex, NEW i \in I
  PROVE  /\ CacheTyped(Hash(c, b, i), B, I) /\ Chained(Hash(c, b, i))
         /\ Hash(c, b, i).used = c.used /\ Hash(c, b, i).free = c.free
         /\ Hash(c, b, i).index = [c.index EXCEPT ![b] = i]
<1> DEFINE d == Hash(c, b, i)
           l == <<b>> \o c.chain[i]
<1>1. /\ c = [used |-> c.used, index |-> c.index, chain |-> c.chain, free |-> c.free]
      /\ c.used \in [B -> Nat] /\ c.index \in [B -> I \cup {NoIndex}]
      /\ c.chain \in [I -> Seq(B)] /\ c.free \in Seq(B)
  BY DEF CacheTyped
<1>2. d = [c EXCEPT !.chain[i] = l, !.index[b] = i]
  BY DEF Hash
<1>3. /\ IsInjective(c.chain[i]) /\ Range(c.chain[i]) = {a \in B : c.index[a] = i}
      /\ b \notin Range(c.chain[i])
  BY <1>1 DEF Chained
<1>4. l \in Seq(B) /\ Range(l) = Range(c.chain[i]) \cup {b} /\ IsInjective(l)
  BY <1>1, <1>3, ConsOnce
<1> HIDE DEF l
<1>5. /\ d.used = c.used /\ d.free = c.free /\ d.index = [c.index EXCEPT ![b] = i]
      /\ d.chain = [c.chain EXCEPT ![i] = l]
      /\ d = [used |-> d.used, index |-> d.index, chain |-> d.chain, free |-> d.free]
  BY <1>1, <1>2
<1> HIDE DEF d
<1>6. d.index \in [B -> I \cup {NoIndex}] /\ d.chain \in [I -> Seq(B)]
  BY <1>1, <1>4, <1>5
<1>7. CacheTyped(d, B, I)
  BY <1>1, <1>5, <1>6 DEF CacheTyped
<1>8. ASSUME NEW j \in I
      PROVE  IsInjective(d.chain[j]) /\ Range(d.chain[j]) = {a \in B : d.index[a] = j}
  <2>1. CASE j = i
    <3>1. {a \in B : d.index[a] = i} = {a \in B : c.index[a] = i} \cup {b}
      BY <1>1, <1>5
    <3>2. d.chain[j] = l
      BY <1>1, <1>5, <2>1
    <3>3. QED BY <1>3, <1>4, <2>1, <3>1, <3>2
  <2>2. CASE j # i
    <3>1. {a \in B : d.index[a] = j} = {a \in B : c.index[a] = j}
      BY <1>1, <1>5, <2>2
    <3>2. d.chain[j] = c.chain[j]
      BY <1>1, <1>5, <2>2
    <3>3. QED BY <1>1, <3>1, <3>2 DEF Chained
  <2>3. QED BY <2>1, <2>2
<1>9. Chained(d)
  BY <1>1, <1>5, <1>6, <1>8 DEF Chained
<1>10. QED BY <1>5, <1>7, <1>9 DEF d

LEMMA UnhashKept ==
  ASSUME NEW B, NEW I, NoIndex \notin I, NEW c, CacheTyped(c, B, I), Chained(c),
         NEW b \in B
  PROVE  /\ CacheTyped(Unhash(c, b), B, I) /\ Chained(Unhash(c, b))
         /\ Unhash(c, b).used = c.used /\ Unhash(c, b).free = c.free
         /\ Unhash(c, b).index = [c.index EXCEPT ![b] = NoIndex]
<1> DEFINE d == Unhash(c, b)
           i == c.index[b]
           l == RemoveFirst(c.chain[i], b)
<1>1. /\ c = [used |-> c.used, index |-> c.index, chain |-> c.chain, free |-> c.free]
      /\ c.used \in [B -> Nat] /\ c.index \in [B -> I \cup {NoIndex}]
      /\ c.chain \in [I -> Seq(B)] /\ c.free \in Seq(B)
  BY DEF CacheTyped
<1>2. CASE i = NoIndex
  <2>1. d = c
    BY <1>2 DEF Unhash
  <2>2. [c.index EXCEPT ![b] = NoIndex] = c.index
    BY <1>1, <1>2
  <2>3. QED BY <2>1, <2>2
<1>3. CASE i # NoIndex
  <2>1. i \in I
    BY <1>1, <1>3
  <2>2. d = [c EXCEPT !.chain[i] = l, !.index[b] = NoIndex]
    BY <1>3 DEF Unhash
  <2>3. IsInjective(c.chain[i]) /\ Range(c.chain[i]) = {a \in B : c.index[a] = i}
    BY <1>1, <2>1 DEF Chained
  <2>4. l \in Seq(B) /\ Range(l) = Range(c.chain[i]) \ {b} /\ IsInjective(l)
    BY <1>1, <2>1, <2>3, RemoveFirstOnce
  <2> HIDE DEF l
  <2>5. /\ d.used = c.used /\ d.free = c.free
        /\ d.index = [c.index EXCEPT ![b] = NoIndex]
        /\ d.chain = [c.chain EXCEPT ![i] = l]
        /\ d = [used |-> d.used, index |-> d.index, chain |-> d.chain, free |-> d.free]
    BY <1>1, <2>2
  <2> HIDE DEF d
  <2>6. d.index \in [B -> I \cup {NoIndex}] /\ d.chain \in [I -> Seq(B)]
    BY <1>1, <2>4, <2>5
  <2>7. CacheTyped(d, B, I)
    BY <1>1, <2>5, <2>6 DEF CacheTyped
  <2>8. ASSUME NEW j \in I
        PROVE  IsInjective(d.chain[j]) /\ Range(d.chain[j]) = {a \in B : d.index[a] = j}
    <3>1. CASE j = i
      <4>1. {a \in B : d.index[a] = j} = {a \in B : c.index[a] = i} \ {b}
        BY <1>1, <1>3, <2>5, <3>1
      <4>2. d.chain[j] = l
        BY <1>1, <2>5, <3>1
      <4>3. QED BY <2>3, <2>4, <4>1, <4>2
    <3>2. CASE j # i
      <4>1. {a \in B : d.index[a] = j} = {a \in B : c.index[a] = j}
        BY <1>1, <2>5, <3>2
      <4>2. d.chain[j] = c.chain[j]
        BY <1>1, <2>5, <3>2
      <4>3. QED BY <1>1, <4>1, <4>2 DEF Chained
    <3>3. QED BY <3>1, <3>2
  <2>9. Chained(d)
    BY <1>1, <2>5, <2>6, <2>8 DEF Chained
  <2>10. QED BY <2>5, <2>7, <2>9 DEF d
<1>4. QED BY <1>2, <1>3

-----------------------------------------------------------------------------
(* cache_lookup: what is found has the index looked for, nothing is found  *)
(* only if no buffer has it, and what is found is taken off the free list. *)
LEMMA FoundIs ==
  ASSUME NEW B, NEW I, NEW c, CacheKept(c, B, I), NoBuffer \notin B, NEW i \in I
  PROVE  /\ Found(c, i) # NoBuffer => Found(c, i) \in B /\ c.index[Found(c, i)] = i
         /\ Found(c, i) = NoBuffer => \A b \in B : c.index[b] # i
<1>1. /\ c.chain \in [I -> Seq(B)] /\ DOMAIN c.used = B
      /\ Range(c.chain[i]) = {b \in DOMAIN c.used : c.index[b] = i}
  BY DEF CacheKept, CacheTyped, WellFormed
<1>2. CASE c.chain[i] = <<>>
  BY <1>1, <1>2, EmptyOnce DEF Found
<1>3. CASE c.chain[i] # <<>>
  <2>1. /\ Len(c.chain[i]) \in Nat \ {0} /\ Head(c.chain[i]) = c.chain[i][1]
        /\ Head(c.chain[i]) \in B
    BY <1>1, <1>3, TailIs
  <2>2. Head(c.chain[i]) \in Range(c.chain[i])
    BY <1>1, <2>1 DEF Range
  <2>3. QED BY <1>1, <1>3, <2>1, <2>2 DEF Found
<1>4. QED BY <1>2, <1>3

LEMMA LookupKept ==
  ASSUME NEW B, NEW I, NEW c, CacheKept(c, B, I), NEW b \in B, c.index[b] # NoIndex
  PROVE  /\ CacheKept(Lookup(c, b), B, I)
         /\ Lookup(c, b).used = [c.used EXCEPT ![b] = @ + 1]
         /\ Lookup(c, b).index = c.index
<1> DEFINE d == Lookup(c, b)
           l == RemoveFirst(c.free, b)
<1>1. /\ c = [used |-> c.used, index |-> c.index, chain |-> c.chain, free |-> c.free]
      /\ c.used \in [B -> Nat] /\ c.index \in [B -> I \cup {NoIndex}]
      /\ c.chain \in [I -> Seq(B)] /\ c.free \in Seq(B)
  BY DEF CacheKept, CacheTyped
<1>2. /\ IsInjective(c.free)
      /\ Range(c.free) = {a \in B : c.used[a] = 0 /\ c.index[a] # NoIndex}
      /\ Chained(c)
  BY <1>1, TwoHalves DEF CacheKept, FreeKept
<1>3. l \in Seq(B) /\ Range(l) = Range(c.free) \ {b} /\ IsInjective(l)
  BY <1>1, <1>2, RemoveFirstOnce
<1>4. d = [c EXCEPT !.used[b] = @ + 1, !.free = l]
  BY DEF Lookup
<1> HIDE DEF l
<1>5. /\ d.used = [c.used EXCEPT ![b] = @ + 1] /\ d.free = l
      /\ d.index = c.index /\ d.chain = c.chain
      /\ d = [used |-> d.used, index |-> d.index, chain |-> d.chain, free |-> d.free]
  BY <1>1, <1>4
<1> HIDE DEF d
<1>6. d.used \in [B -> Nat] /\ d.used[b] = c.used[b] + 1 /\ c.used[b] \in Nat
      /\ \A a \in B : a # b => d.used[a] = c.used[a]
  BY <1>1, <1>5
<1>7. CacheTyped(d, B, I)
  BY <1>1, <1>3, <1>5, <1>6 DEF CacheTyped
<1>8. {a \in B : d.used[a] = 0 /\ d.index[a] # NoIndex} = Range(c.free) \ {b}
  BY <1>2, <1>5, <1>6
<1>9. FreeKept(d)
  BY <1>3, <1>5, <1>6, <1>8 DEF FreeKept
<1>10. Chained(d)
  BY <1>1, <1>2, <1>5, <1>6 DEF Chained
<1>11. QED BY <1>5, <1>7, <1>9, <1>10, TwoHalves DEF CacheKept, d

-----------------------------------------------------------------------------
(* cache_get: what it can return has no user, and becomes its caller's.    *)
LEMMA GettableIs ==
  ASSUME NEW B, NEW I, NEW c, CacheKept(c, B, I), NEW first, NEW b \in Gettable(c, first)
  PROVE  b \in B /\ c.used[b] = 0
<1>1. /\ c.used \in [B -> Nat] /\ c.free \in Seq(B) /\ DOMAIN c.used = B
      /\ Range(c.free) = {a \in DOMAIN c.used : c.used[a] = 0 /\ c.index[a] # NoIndex}
  BY DEF CacheKept, CacheTyped, WellFormed
<1>2. CASE c.free # <<>> /\ b = Head(c.free)
  <2>1. /\ Len(c.free) \in Nat \ {0} /\ Head(c.free) = c.free[1]
    BY <1>1, <1>2, TailIs
  <2>2. b \in Range(c.free)
    BY <1>1, <1>2, <2>1 DEF Range
  <2>3. QED BY <1>1, <2>2
<1>3. CASE b \in DOMAIN c.used \ Allocated(c)
  BY <1>1, <1>3 DEF Allocated
<1>4. QED BY <1>2, <1>3 DEF Gettable

LEMMA GetFields ==
  ASSUME NEW B, NEW b \in B, NEW U \in [B -> Nat], NEW X, NEW C, NEW F, NEW l, NEW u, NEW d,
         u = [used |-> U, index |-> X, chain |-> C, free |-> F],
         d = [u EXCEPT !.used[b] = 1, !.free = l]
  PROVE  /\ d.used = [U EXCEPT ![b] = 1] /\ d.index = X /\ d.chain = C /\ d.free = l
         /\ d = [used |-> d.used, index |-> d.index, chain |-> d.chain, free |-> d.free]
OBVIOUS

LEMMA GetKept ==
  ASSUME NEW B, NEW I, NoIndex \notin I, NEW c, CacheKept(c, B, I), NEW b \in B,
         NEW i \in I \cup {NoIndex}
  PROVE  /\ CacheKept(Get(c, b, i), B, I)
         /\ Get(c, b, i).used = [c.used EXCEPT ![b] = 1]
         /\ Get(c, b, i).index = [c.index EXCEPT ![b] = i]
<1> DEFINE u == Unhash(c, b)
           l == RemoveFirst(u.free, b)
           d == [u EXCEPT !.used[b] = 1, !.free = l]
           e == Get(c, b, i)
<1>1. /\ CacheTyped(u, B, I) /\ Chained(u)
      /\ u.used = c.used /\ u.free = c.free /\ u.index = [c.index EXCEPT ![b] = NoIndex]
  BY UnhashKept, TwoHalves DEF CacheKept
<1>2. /\ c.used \in [B -> Nat] /\ c.index \in [B -> I \cup {NoIndex}] /\ c.free \in Seq(B)
      /\ IsInjective(c.free)
      /\ Range(c.free) = {a \in B : c.used[a] = 0 /\ c.index[a] # NoIndex}
  BY TwoHalves DEF CacheKept, CacheTyped, FreeKept
<1>3. l \in Seq(B) /\ Range(l) = Range(c.free) \ {b} /\ IsInjective(l)
  BY <1>1, <1>2, RemoveFirstOnce
<1>4. e = Hash(d, b, i)
  BY DEF Get
<1> HIDE DEF l, u, e
<1>5. /\ u = [used |-> u.used, index |-> u.index, chain |-> u.chain, free |-> u.free]
      /\ u.used \in [B -> Nat] /\ u.index \in [B -> I \cup {NoIndex}]
      /\ u.chain \in [I -> Seq(B)]
  BY <1>1 DEF CacheTyped
<1>6. /\ d.used = [c.used EXCEPT ![b] = 1] /\ d.free = l
      /\ d.index = u.index /\ d.chain = u.chain
      /\ d = [used |-> d.used, index |-> d.index, chain |-> d.chain, free |-> d.free]
  <2>1. /\ d.used = [u.used EXCEPT ![b] = 1] /\ d.free = l
        /\ d.index = u.index /\ d.chain = u.chain
        /\ d = [used |-> d.used, index |-> d.index, chain |-> d.chain, free |-> d.free]
    <3>1. d = [u EXCEPT !.used[b] = 1, !.free = l]
      OBVIOUS
    <3> HIDE DEF d
    <3>2. QED BY <1>5, <3>1, GetFields
  <2> HIDE DEF d
  <2>2. QED BY <1>1, <2>1
<1> HIDE DEF d
<1>7. d.used \in [B -> Nat] /\ d.index[b] = NoIndex
  BY <1>1, <1>2, <1>6
<1>8. CacheTyped(d, B, I)
  BY <1>3, <1>5, <1>6, <1>7 DEF CacheTyped
<1>9. Chained(d)
  BY <1>1, <1>5, <1>6, <1>7 DEF Chained
<1>10. /\ CacheTyped(e, B, I) /\ Chained(e)
       /\ e.used = [c.used EXCEPT ![b] = 1] /\ e.free = l
       /\ e.index = [c.index EXCEPT ![b] = i]
  <2>1. CASE i = NoIndex
    <3>1. e = d
      BY <1>4, <2>1 DEF Hash
    <3>2. QED BY <1>1, <1>6, <1>8, <1>9, <2>1, <3>1
  <2>2. CASE i \in I
    <3>1. /\ CacheTyped(e, B, I) /\ Chained(e) /\ e.used = d.used /\ e.free = d.free
          /\ e.index = [d.index EXCEPT ![b] = i]
      BY <1>4, <1>7, <1>8, <1>9, <2>2, HashKept
    <3>2. [d.index EXCEPT ![b] = i] = [c.index EXCEPT ![b] = i]
      BY <1>1, <1>2, <1>6
    <3>3. QED BY <1>6, <3>1, <3>2
  <2>3. QED BY <2>1, <2>2
<1>11. FreeKept(e)
  <2>1. e.used \in [B -> Nat] /\ e.used[b] = 1
        /\ \A a \in B : a # b => e.used[a] = c.used[a] /\ e.index[a] = c.index[a]
    BY <1>2, <1>10
  <2>2. {a \in B : e.used[a] = 0 /\ e.index[a] # NoIndex} = Range(c.free) \ {b}
    BY <1>2, <2>1
  <2>3. QED BY <1>3, <1>10, <2>1, <2>2 DEF FreeKept
<1>12. QED BY <1>10, <1>11, TwoHalves DEF CacheKept, e

-----------------------------------------------------------------------------
(* cache_rehash, of a buffer in use.                                       *)
LEMMA RehashKept ==
  ASSUME NEW B, NEW I, NoIndex \notin I, NEW c, CacheKept(c, B, I), NEW b \in B,
         c.used[b] # 0, NEW i \in I
  PROVE  /\ CacheKept(Rehash(c, b, i), B, I)
         /\ Rehash(c, b, i).used = c.used
         /\ Rehash(c, b, i).index = [c.index EXCEPT ![b] = i]
<1> DEFINE u == Unhash(c, b)
           e == Rehash(c, b, i)
<1>1. /\ CacheTyped(u, B, I) /\ Chained(u)
      /\ u.used = c.used /\ u.free = c.free /\ u.index = [c.index EXCEPT ![b] = NoIndex]
  BY UnhashKept, TwoHalves DEF CacheKept
<1>2. /\ c.used \in [B -> Nat] /\ c.index \in [B -> I \cup {NoIndex}]
      /\ IsInjective(c.free)
      /\ Range(c.free) = {a \in B : c.used[a] = 0 /\ c.index[a] # NoIndex}
  BY TwoHalves DEF CacheKept, CacheTyped, FreeKept
<1>3. e = Hash(u, b, i)
  BY DEF Rehash
<1> HIDE DEF u, e
<1>4. u.index[b] = NoIndex
  BY <1>1, <1>2
<1>5. /\ CacheTyped(e, B, I) /\ Chained(e) /\ e.used = u.used /\ e.free = u.free
      /\ e.index = [u.index EXCEPT ![b] = i]
  <2>1. /\ CacheTyped(Hash(u, b, i), B, I) /\ Chained(Hash(u, b, i))
        /\ Hash(u, b, i).used = u.used /\ Hash(u, b, i).free = u.free
        /\ Hash(u, b, i).index = [u.index EXCEPT ![b] = i]
    <3>1. CacheTyped(u, B, I)
      BY <1>1
    <3>2. Chained(u)
      BY <1>1
    <3>3. QED BY <1>4, <3>1, <3>2, HashKept
  <2>2. QED BY <1>3, <2>1
<1>6. e.index = [c.index EXCEPT ![b] = i]
  BY <1>1, <1>2, <1>5
<1>7. FreeKept(e)
  <2>1. {a \in B : e.used[a] = 0 /\ e.index[a] # NoIndex}
          = {a \in B : c.used[a] = 0 /\ c.index[a] # NoIndex}
    BY <1>1, <1>2, <1>5, <1>6
  <2>2. DOMAIN e.used = B
    BY <1>1, <1>2, <1>5
  <2>3. QED BY <1>1, <1>2, <1>5, <2>1, <2>2 DEF FreeKept
<1>8. QED BY <1>1, <1>5, <1>6, <1>7, TwoHalves DEF CacheKept, e

-----------------------------------------------------------------------------
(* cache_block_put: the last user puts a kept buffer on the free list.     *)
LEMMA PutKept ==
  ASSUME NEW B, NEW I, NEW c, CacheKept(c, B, I), NEW b \in B, c.used[b] # 0
  PROVE  /\ CacheKept(Put(c, b), B, I)
         /\ Put(c, b).used = [c.used EXCEPT ![b] = @ - 1]
         /\ Put(c, b).index = c.index
<1> DEFINE d == Put(c, b)
           l == IF c.used[b] = 1 /\ c.index[b] # NoIndex THEN Append(c.free, b) ELSE c.free
<1>1. /\ c = [used |-> c.used, index |-> c.index, chain |-> c.chain, free |-> c.free]
      /\ c.used \in [B -> Nat] /\ c.index \in [B -> I \cup {NoIndex}]
      /\ c.chain \in [I -> Seq(B)] /\ c.free \in Seq(B)
  BY DEF CacheKept, CacheTyped
<1>2. /\ IsInjective(c.free)
      /\ Range(c.free) = {a \in B : c.used[a] = 0 /\ c.index[a] # NoIndex}
      /\ Chained(c) /\ b \notin Range(c.free)
  BY <1>1, TwoHalves DEF CacheKept, FreeKept
<1>3. /\ l \in Seq(B) /\ IsInjective(l)
      /\ Range(l) = IF c.used[b] = 1 /\ c.index[b] # NoIndex THEN Range(c.free) \cup {b}
                    ELSE Range(c.free)
  <2>1. /\ Append(c.free, b) \in Seq(B) /\ IsInjective(Append(c.free, b))
        /\ Range(Append(c.free, b)) = Range(c.free) \cup {b}
    BY <1>1, <1>2, AppendIs, AppendOnce
  <2>2. QED BY <1>1, <1>2, <2>1
<1>4. d = [c EXCEPT !.used[b] = @ - 1, !.free = l]
  BY <1>1 DEF Put
<1> HIDE DEF l
<1>5. /\ d.used = [c.used EXCEPT ![b] = @ - 1] /\ d.free = l
      /\ d.index = c.index /\ d.chain = c.chain
      /\ d = [used |-> d.used, index |-> d.index, chain |-> d.chain, free |-> d.free]
  BY <1>1, <1>4
<1> HIDE DEF d
<1>6. /\ d.used \in [B -> Nat] /\ d.used[b] = c.used[b] - 1 /\ c.used[b] \in Nat
      /\ \A a \in B : a # b => d.used[a] = c.used[a]
  BY <1>1, <1>5
<1>7. CacheTyped(d, B, I)
  BY <1>1, <1>3, <1>5, <1>6 DEF CacheTyped
<1>8. {a \in B : d.used[a] = 0 /\ d.index[a] # NoIndex} = Range(l)
  BY <1>2, <1>3, <1>5, <1>6
<1>9. FreeKept(d)
  BY <1>3, <1>5, <1>6, <1>8 DEF FreeKept
<1>10. Chained(d)
  BY <1>1, <1>2, <1>5, <1>6 DEF Chained
<1>11. QED BY <1>5, <1>7, <1>9, <1>10, TwoHalves DEF CacheKept, d

(* What cache_lookup finds afterwards: what was found before under an index *)
(* that neither lost its first buffer nor got another one.                 *)
LEMMA UnhashChain ==
  ASSUME NEW B, NEW I, NoIndex \notin I, NEW c, CacheTyped(c, B, I), NEW b \in B, NEW j \in I
  PROVE  /\ c.index[b] # j => Unhash(c, b).chain[j] = c.chain[j]
         /\ c.index[b] = j => Unhash(c, b).chain[j] = RemoveFirst(c.chain[j], b)
<1> DEFINE i == c.index[b]
           l == RemoveFirst(c.chain[i], b)
<1>1. /\ c = [used |-> c.used, index |-> c.index, chain |-> c.chain, free |-> c.free]
      /\ c.chain \in [I -> Seq(B)] /\ i \in I \cup {NoIndex}
  BY DEF CacheTyped
<1>2. CASE i = NoIndex
  BY <1>2 DEF Unhash
<1>3. CASE i # NoIndex
  <2>1. Unhash(c, b) = [c EXCEPT !.chain[i] = l, !.index[b] = NoIndex]
    BY <1>3 DEF Unhash
  <2>2. i \in I
    BY <1>1, <1>3
  <2> HIDE DEF l
  <2>3. Unhash(c, b).chain = [c.chain EXCEPT ![i] = l]
    BY <1>1, <2>1
  <2>4. /\ i # j => Unhash(c, b).chain[j] = c.chain[j]
        /\ i = j => Unhash(c, b).chain[j] = l
    BY <1>1, <2>2, <2>3
  <2>5. QED BY <2>4 DEF l
<1>4. QED BY <1>2, <1>3

LEMMA UnhashFound ==
  ASSUME NEW B, NEW I, NoIndex \notin I, NEW c, CacheTyped(c, B, I), Chained(c),
         NEW b \in B, NEW j \in I, Found(c, j) # b
  PROVE  Found(Unhash(c, b), j) = Found(c, j)
<1>1. /\ c.chain \in [I -> Seq(B)] /\ IsInjective(c.chain[j])
      /\ Range(c.chain[j]) = {a \in B : c.index[a] = j}
  BY DEF CacheTyped, Chained
<1>2. CASE c.index[b] # j
  <2>1. Unhash(c, b).chain[j] = c.chain[j]
    BY <1>2, UnhashChain
  <2>2. QED BY <2>1 DEF Found
<1>3. CASE c.index[b] = j
  <2>1. Unhash(c, b).chain[j] = RemoveFirst(c.chain[j], b)
    BY <1>3, UnhashChain
  <2>2. c.chain[j] # <<>>
    BY <1>1, <1>3, EmptyOnce
  <2>3. Head(c.chain[j]) # b
    BY <2>2 DEF Found
  <2>4. /\ RemoveFirst(c.chain[j], b) # <<>>
        /\ Head(RemoveFirst(c.chain[j], b)) = Head(c.chain[j])
    <3>1. c.chain[j] \in Seq(B) /\ IsInjective(c.chain[j])
      BY <1>1
    <3>2. QED BY <2>2, <2>3, <3>1, HeadKept
  <2>5. QED BY <2>1, <2>2, <2>4 DEF Found
<1>4. QED BY <1>2, <1>3

LEMMA HashFound ==
  ASSUME NEW B, NEW I, NoIndex \notin I, NEW c, CacheTyped(c, B, I), NEW b \in B, NEW i \in I
  PROVE  /\ Found(Hash(c, b, i), i) = b /\ Hash(c, b, i).free = c.free
         /\ \A j \in I : j # i => Found(Hash(c, b, i), j) = Found(c, j)
<1> DEFINE d == Hash(c, b, i)
           l == <<b>> \o c.chain[i]
<1>1. /\ c = [used |-> c.used, index |-> c.index, chain |-> c.chain, free |-> c.free]
      /\ c.chain \in [I -> Seq(B)]
  BY DEF CacheTyped
<1>2. d = [c EXCEPT !.chain[i] = l, !.index[b] = i]
  BY DEF Hash
<1>3. l # <<>> /\ Head(l) = b
  <2>1. PICK k \in Seq(B) : k = c.chain[i]
    BY <1>1
  <2>2. <<b>> \o k # <<>> /\ Head(<<b>> \o k) = b
    BY <2>1
  <2>3. QED BY <2>1, <2>2
<1> HIDE DEF l
<1>4. d.chain = [c.chain EXCEPT ![i] = l] /\ d.free = c.free
  BY <1>1, <1>2
<1> HIDE DEF d
<1>5. d.chain[i] = l /\ \A j \in I : j # i => d.chain[j] = c.chain[j]
  BY <1>1, <1>4
<1>6. Found(d, i) = b
  BY <1>3, <1>5 DEF Found
<1>7. ASSUME NEW j \in I, j # i PROVE Found(d, j) = Found(c, j)
  BY <1>5, <1>7 DEF Found
<1>8. QED BY <1>4, <1>6, <1>7 DEF d

LEMMA GetFound ==
  ASSUME NEW B, NEW I, NoIndex \notin I, NEW c, CacheKept(c, B, I), NEW b \in B,
         NEW i \in I \cup {NoIndex}
  PROVE  /\ Get(c, b, i).free = RemoveFirst(c.free, b)
         /\ i # NoIndex => Found(Get(c, b, i), i) = b
         /\ \A j \in I : j # i /\ Found(c, j) # b => Found(Get(c, b, i), j) = Found(c, j)
<1> DEFINE u == Unhash(c, b)
           l == RemoveFirst(c.free, b)
           d == [u EXCEPT !.used[b] = 1, !.free = l]
           e == Get(c, b, i)
<1>1. /\ CacheTyped(u, B, I) /\ Chained(u)
      /\ u.used = c.used /\ u.free = c.free /\ u.index = [c.index EXCEPT ![b] = NoIndex]
  BY UnhashKept, TwoHalves DEF CacheKept
<1>2. /\ c.used \in [B -> Nat] /\ c.index \in [B -> I \cup {NoIndex}] /\ c.free \in Seq(B)
      /\ IsInjective(c.free) /\ CacheTyped(c, B, I) /\ Chained(c)
  BY TwoHalves DEF CacheKept, CacheTyped, FreeKept
<1>3. l \in Seq(B)
  BY <1>2, RemoveFirstOnce
<1>4. e = Hash(d, b, i)
  BY <1>1 DEF Get
<1>5. \A j \in I : Found(c, j) # b => Found(u, j) = Found(c, j)
  BY <1>2, UnhashFound
<1> HIDE DEF l, u, e
<1>6. /\ u = [used |-> u.used, index |-> u.index, chain |-> u.chain, free |-> u.free]
      /\ u.used \in [B -> Nat] /\ u.index \in [B -> I \cup {NoIndex}]
      /\ u.chain \in [I -> Seq(B)]
  BY <1>1 DEF CacheTyped
<1>7. /\ d.used = [u.used EXCEPT ![b] = 1] /\ d.free = l
      /\ d.index = u.index /\ d.chain = u.chain
      /\ d = [used |-> d.used, index |-> d.index, chain |-> d.chain, free |-> d.free]
  <2>1. d = [u EXCEPT !.used[b] = 1, !.free = l]
    OBVIOUS
  <2> HIDE DEF d
  <2>2. QED BY <1>6, <2>1, GetFields
<1> HIDE DEF d
<1>8. d.used \in [B -> Nat] /\ d.index[b] = NoIndex
  BY <1>1, <1>2, <1>7
<1>9. CacheTyped(d, B, I) /\ Chained(d)
  <2>1. CacheTyped(d, B, I)
    BY <1>3, <1>6, <1>7, <1>8 DEF CacheTyped
  <2>2. Chained(d)
    BY <1>1, <1>6, <1>7, <1>8 DEF Chained
  <2>3. QED BY <2>1, <2>2
<1>10. \A j \in I : Found(c, j) # b => Found(d, j) = Found(c, j)
  BY <1>5, <1>7 DEF Found
<1>11. CASE i = NoIndex
  <2>1. e = d
    BY <1>4, <1>11 DEF Hash
  <2>2. QED BY <1>7, <1>10, <1>11, <2>1 DEF e, l
<1>12. CASE i \in I
  <2>1. /\ Found(Hash(d, b, i), i) = b /\ Hash(d, b, i).free = d.free
        /\ \A j \in I : j # i => Found(Hash(d, b, i), j) = Found(d, j)
    BY <1>8, <1>9, <1>12, HashFound
  <2>2. QED BY <1>4, <1>7, <1>10, <2>1 DEF e, l
<1>13. QED BY <1>11, <1>12

LEMMA RehashFound ==
  ASSUME NEW B, NEW I, NoIndex \notin I, NEW c, CacheKept(c, B, I), NEW b \in B, NEW i \in I
  PROVE  /\ Rehash(c, b, i).free = c.free
         /\ Found(Rehash(c, b, i), i) = b
         /\ \A j \in I : j # i /\ Found(c, j) # b => Found(Rehash(c, b, i), j) = Found(c, j)
<1> DEFINE u == Unhash(c, b)
<1>1. CacheTyped(c, B, I) /\ Chained(c)
  BY TwoHalves DEF CacheKept
<1>2. /\ CacheTyped(u, B, I) /\ Chained(u) /\ u.free = c.free
      /\ u.index = [c.index EXCEPT ![b] = NoIndex]
  BY <1>1, UnhashKept
<1>3. \A j \in I : Found(c, j) # b => Found(u, j) = Found(c, j)
  BY <1>1, UnhashFound
<1>4. CacheTyped(u, B, I)
  BY <1>2
<1>5. Rehash(c, b, i) = Hash(u, b, i)
  BY DEF Rehash
<1> HIDE DEF u
<1>6. /\ Found(Hash(u, b, i), i) = b /\ Hash(u, b, i).free = u.free
      /\ \A j \in I : j # i => Found(Hash(u, b, i), j) = Found(u, j)
  BY <1>4, HashFound
<1>7. QED BY <1>2, <1>3, <1>5, <1>6

LEMMA LookupFound ==
  ASSUME NEW B, NEW I, NEW c, CacheKept(c, B, I), NEW b \in B
  PROVE  Lookup(c, b).chain = c.chain /\ Lookup(c, b).free = RemoveFirst(c.free, b)
<1>1. c = [used |-> c.used, index |-> c.index, chain |-> c.chain, free |-> c.free]
  BY DEF CacheKept, CacheTyped
<1> DEFINE l == RemoveFirst(c.free, b)
<1>2. Lookup(c, b) = [c EXCEPT !.used[b] = @ + 1, !.free = l]
  BY DEF Lookup
<1> HIDE DEF l
<1>3. Lookup(c, b).chain = c.chain /\ Lookup(c, b).free = l
  BY <1>1, <1>2
<1>4. QED BY <1>3 DEF l

(* It leaves the chains, and adds to the end of the free list alone.       *)
LEMMA PutExtends ==
  ASSUME NEW B, NEW I, NEW c, CacheTyped(c, B, I), NEW b \in B
  PROVE  Put(c, b).chain = c.chain /\ Extends(c.free, Put(c, b).free)
<1> DEFINE d == Put(c, b)
           l == IF c.used[b] = 1 /\ c.index[b] # NoIndex THEN Append(c.free, b) ELSE c.free
<1>1. /\ c = [used |-> c.used, index |-> c.index, chain |-> c.chain, free |-> c.free]
      /\ c.free \in Seq(B)
  BY DEF CacheTyped
<1>2. d = [c EXCEPT !.used[b] = @ - 1, !.free = l]
  BY <1>1 DEF Put
<1>3. Extends(c.free, l)
  <2>1. Extends(c.free, Append(c.free, b)) /\ Extends(c.free, c.free)
    BY <1>1, AppendIs DEF Extends
  <2>2. QED BY <2>1
<1> HIDE DEF l
<1>4. d.chain = c.chain /\ d.free = l
  BY <1>1, <1>2
<1>5. QED BY <1>3, <1>4

-----------------------------------------------------------------------------
(* cache_block_put of every buffer of a list.                              *)
PutEach(c, bufs) == FoldLeft(LAMBDA x, b : Put(x, b), c, bufs)

(* The recursion of FoldLeft, over the indices 1 .. n of the list.         *)
Puts(it, n, c, l) ==
  it = [s \in SUBSET (1 .. n) |->
          IF s = {} THEN c ELSE Put(it[s \ {Max(s)}], l[Max(s)])]

LEMMA PutsExtended ==
  ASSUME NEW c, NEW l, NEW n \in Nat, NEW g, Puts(g, n, c, l)
  PROVE  \E h : Puts(h, n + 1, c, l)
<1> DEFINE h == [s \in SUBSET (1 .. n + 1) |->
                   IF n + 1 \in s THEN Put(g[s \ {n + 1}], l[n + 1]) ELSE g[s]]
<1>1. ASSUME NEW s \in SUBSET (1 .. n + 1)
      PROVE  h[s] = IF s = {} THEN c ELSE Put(h[s \ {Max(s)}], l[Max(s)])
  <2>1. CASE s = {}
    BY <2>1 DEF Puts
  <2>2. CASE n + 1 \in s
    <3>1. Max(s) = n + 1
      <4>1. n + 1 \in Nat
        OBVIOUS
      <4>2. Max(s) \in s /\ n + 1 <= Max(s)
        BY <2>2, <4>1, MaxValue
      <4>3. Max(s) \in 1 .. n + 1
        BY <4>2
      <4>4. QED BY <4>2, <4>3
    <3>2. s \ {n + 1} \in SUBSET (1 .. n + 1) /\ n + 1 \notin s \ {n + 1}
      OBVIOUS
    <3>3. h[s \ {n + 1}] = g[s \ {n + 1}]
      BY <3>2
    <3>4. QED BY <2>2, <3>1, <3>3
  <2>3. CASE s # {} /\ n + 1 \notin s
    <3>1. s \in SUBSET (1 .. n)
      BY <2>3
    <3>2. Max(s) \in s
      BY <2>3, <3>1, MaxValue
    <3>3. g[s] = Put(g[s \ {Max(s)}], l[Max(s)])
      BY <2>3, <3>1 DEF Puts
    <3>4. s \ {Max(s)} \in SUBSET (1 .. n + 1) /\ n + 1 \notin s \ {Max(s)}
      BY <2>3
    <3>5. h[s \ {Max(s)}] = g[s \ {Max(s)}]
      BY <3>4
    <3>6. QED BY <2>3, <3>3, <3>5
  <2>4. QED BY <2>1, <2>2, <2>3
<1>2. h = [s \in SUBSET (1 .. n + 1) |->
             IF s = {} THEN c ELSE Put(h[s \ {Max(s)}], l[Max(s)])]
  BY <1>1
<1>3. Puts(h, n + 1, c, l)
  BY <1>2 DEF Puts
<1>4. QED BY <1>3

LEMMA PutsExists ==
  ASSUME NEW c, NEW l, NEW k \in Nat
  PROVE  \E it : Puts(it, k, c, l)
<1> DEFINE P == {n \in 0 .. k : \E it : Puts(it, n, c, l)}
<1>1. 0 \in P
  <2> DEFINE g == [s \in SUBSET (1 .. 0) |-> c]
  <2>1. \A s \in SUBSET (1 .. 0) : s = {}
    OBVIOUS
  <2>2. g = [s \in SUBSET (1 .. 0) |->
               IF s = {} THEN c ELSE Put(g[s \ {Max(s)}], l[Max(s)])]
    BY <2>1
  <2>3. Puts(g, 0, c, l)
    BY <2>2 DEF Puts
  <2>4. QED BY <2>3
<1>2. \A n \in 0 .. k - 1 : n \in P => n + 1 \in P
  BY PutsExtended
<1>3. \A n \in 0 .. k : n \in P
  BY <1>1, <1>2, InductionTo
<1>4. QED BY <1>3

LEMMA PutsNext ==
  ASSUME NEW c, NEW l, NEW n \in Nat, NEW it, Puts(it, n, c, l), NEW k \in 0 .. n - 1
  PROVE  it[1 .. k + 1] = Put(it[1 .. k], l[k + 1])
<1>1. 1 .. k + 1 \in SUBSET (1 .. n) /\ 1 .. k + 1 # {}
  OBVIOUS
<1>2. Max(1 .. k + 1) = k + 1
  <2> DEFINE s == 1 .. k + 1
  <2>1. s \in SUBSET (1 .. n) /\ s # {} /\ k + 1 \in s
    BY <1>1
  <2>2. \A x \in s : x \in Int /\ x <= k + 1
    OBVIOUS
  <2> HIDE DEF s
  <2>3. Max(s) \in s /\ k + 1 <= Max(s)
    BY <2>1, MaxValue
  <2>4. Max(s) = k + 1
    BY <2>2, <2>3
  <2>5. QED BY <2>4 DEF s
<1>3. (1 .. k + 1) \ {k + 1} = 1 .. k
  OBVIOUS
<1>4. QED BY <1>1, <1>2, <1>3 DEF Puts

LEMMA PutEachPuts ==
  ASSUME NEW c, NEW l, NEW n \in Nat, DOMAIN l = 1 .. n
  PROVE  \E it : Puts(it, n, c, l) /\ PutEach(c, l) = it[1 .. n]
<1> DEFINE it == CHOOSE it : it =
                   [s \in SUBSET (DOMAIN l) |->
                      IF s = {} THEN c ELSE Put(it[s \ {Max(s)}], l[Max(s)])]
<1>1. PutEach(c, l) = it[DOMAIN l]
  BY Zenon DEF PutEach, FoldLeft, MapThenFoldSet
<1>2. \E i : i = [s \in SUBSET (DOMAIN l) |->
                    IF s = {} THEN c ELSE Put(i[s \ {Max(s)}], l[Max(s)])]
  <2>1. PICK i : Puts(i, n, c, l)
    BY PutsExists
  <2>2. i = [s \in SUBSET (DOMAIN l) |->
               IF s = {} THEN c ELSE Put(i[s \ {Max(s)}], l[Max(s)])]
    BY <2>1 DEF Puts
  <2>3. QED BY <2>2
<1>3. it = [s \in SUBSET (DOMAIN l) |->
              IF s = {} THEN c ELSE Put(it[s \ {Max(s)}], l[Max(s)])]
  BY <1>2, Zenon
<1>4. Puts(it, n, c, l)
  BY <1>3 DEF Puts
<1>5. QED BY <1>1, <1>4

(* How often b is among the first k of a list.                             *)
Upto(l, k, b) == Cardinality({i \in 1 .. k : l[i] = b})

LEMMA UptoIs ==
  ASSUME NEW T, NEW l \in Seq(T), NEW k \in Nat, NEW b
  PROVE  /\ Upto(l, k, b) \in Nat /\ Upto(l, 0, b) = 0
         /\ l[k + 1] = b => Upto(l, k + 1, b) = Upto(l, k, b) + 1
         /\ l[k + 1] # b => Upto(l, k + 1, b) = Upto(l, k, b)
<1> DEFINE D == {i \in 1 .. k : l[i] = b}
           E == {i \in 1 .. k + 1 : l[i] = b}
<1>1. IsFiniteSet(D) /\ Cardinality(D) \in Nat
  <2>1. IsFiniteSet(1 .. k)
    <3>1. 1 \in Int /\ k \in Int
      OBVIOUS
    <3>2. QED BY <3>1, FS_Interval
  <2>2. IsFiniteSet(D)
    BY <2>1, FS_Subset
  <2>3. QED BY <2>2, FS_CardinalityType
<1>2. Cardinality({i \in 1 .. 0 : l[i] = b}) = 0
  <2>1. {i \in 1 .. 0 : l[i] = b} = {}
    OBVIOUS
  <2>2. QED BY <2>1, FS_EmptySet
<1>3. CASE l[k + 1] = b
  <2>1. E = D \cup {k + 1} /\ k + 1 \notin D
    BY <1>3
  <2> HIDE DEF D, E
  <2>2. Cardinality(E) = Cardinality(D) + 1
    BY <1>1, <2>1, FS_AddElement
  <2>3. QED BY <1>1, <1>2, <1>3, <2>2 DEF Upto, D, E
<1>4. CASE l[k + 1] # b
  <2>1. E = D
    BY <1>4
  <2>2. Upto(l, k + 1, b) = Upto(l, k, b) /\ Upto(l, k, b) \in Nat
    <3> HIDE DEF D, E
    <3>1. Cardinality(E) = Cardinality(D) /\ Cardinality(D) \in Nat
      BY <1>1, <2>1
    <3>2. QED BY <3>1 DEF Upto, D, E
  <2>3. QED BY <1>2, <1>4, <2>2 DEF Upto
<1>5. QED BY <1>3, <1>4

LEMMA UptoCount ==
  ASSUME NEW T, NEW l \in Seq(T), NEW b
  PROVE  /\ Upto(l, Len(l), b) = CountIn(l, {b})
         /\ \A k \in 0 .. Len(l) : Upto(l, k, b) <= CountIn(l, {b})
<1> DEFINE E == {i \in DOMAIN l : l[i] \in {b}}
<1>1. Len(l) \in Nat /\ DOMAIN l = 1 .. Len(l)
  OBVIOUS
<1>2. {i \in 1 .. Len(l) : l[i] = b} = E
  BY <1>1
<1>3. IsFiniteSet(E)
  BY CountFinite
<1>4. ASSUME NEW k \in 0 .. Len(l) PROVE {i \in 1 .. k : l[i] = b} \in SUBSET E
  BY <1>1
<1> HIDE DEF E
<1>5. ASSUME NEW k \in 0 .. Len(l) PROVE Cardinality({i \in 1 .. k : l[i] = b}) <= Cardinality(E)
  BY <1>3, <1>4, FS_Subset
<1>6. QED BY <1>2, <1>5 DEF Upto, CountIn, E

LEMMA ExtendsChain ==
  ASSUME NEW B, NEW s \in Seq(B), NEW t \in Seq(B), NEW u \in Seq(B),
         Extends(s, t), Extends(t, u)
  PROVE  Extends(s, u)
BY DEF Extends

(* Of a list that has no buffer more often than the buffer has users.      *)
LEMMA PutEachKept ==
  ASSUME NEW B, NEW I, NEW c, CacheKept(c, B, I), NEW l \in Seq(B),
         \A b \in B : CountIn(l, {b}) <= c.used[b]
  PROVE  /\ CacheKept(PutEach(c, l), B, I)
         /\ \A b \in B : PutEach(c, l).used[b] = c.used[b] - CountIn(l, {b})
         /\ PutEach(c, l).index = c.index /\ PutEach(c, l).chain = c.chain
         /\ Extends(c.free, PutEach(c, l).free)
<1> DEFINE n == Len(l)
<1>1. n \in Nat /\ DOMAIN l = 1 .. n
  OBVIOUS
<1>2. PICK it : Puts(it, n, c, l) /\ PutEach(c, l) = it[1 .. n]
  BY <1>1, PutEachPuts
<1> DEFINE Good(k, d) == /\ CacheKept(d, B, I)
                         /\ \A b \in B : d.used[b] = c.used[b] - Upto(l, k, b)
                         /\ d.index = c.index /\ d.chain = c.chain
                         /\ Extends(c.free, d.free)
           P == {k \in 0 .. n : Good(k, it[1 .. k])}
<1>3. c.used \in [B -> Nat] /\ c.free \in Seq(B)
  BY DEF CacheKept, CacheTyped
<1>4. 0 \in P
  <2>1. 1 .. 0 = {} /\ {} \in SUBSET (1 .. n) /\ 0 \in 0 .. n
    BY <1>1
  <2>2. it[{}] = c
    BY <1>2, <2>1 DEF Puts
  <2>3. Good(0, c)
    <3>1. \A b \in B : c.used[b] = c.used[b] - Upto(l, 0, b)
      <4>1. \A b \in B : Upto(l, 0, b) = 0
        BY UptoIs
      <4>2. QED BY <1>3, <4>1
    <3>2. Extends(c.free, c.free)
      BY <1>3 DEF Extends
    <3>3. QED BY <3>1, <3>2
  <2>4. QED BY <2>1, <2>2, <2>3
<1>5. ASSUME NEW k \in 0 .. n - 1, k \in P PROVE k + 1 \in P
  <2> DEFINE d == it[1 .. k]
             a == l[k + 1]
             e == Put(d, a)
  <2>1. it[1 .. k + 1] = e
    BY <1>1, <1>2, PutsNext
  <2>2. k \in Nat /\ k + 1 \in 0 .. n /\ a \in B /\ Good(k, d)
    BY <1>1, <1>5
  <2> HIDE DEF d, a, e
  <2>3. ASSUME NEW b \in B
        PROVE  /\ Upto(l, k, b) \in Nat /\ Upto(l, k + 1, b) <= c.used[b]
               /\ Upto(l, k + 1, b) = Upto(l, k, b) + (IF a = b THEN 1 ELSE 0)
    <3>1. /\ Upto(l, k, b) \in Nat
          /\ l[k + 1] = b => Upto(l, k + 1, b) = Upto(l, k, b) + 1
          /\ l[k + 1] # b => Upto(l, k + 1, b) = Upto(l, k, b)
      <4>1. k \in Nat
        BY <2>2
      <4>2. QED BY <4>1, UptoIs
    <3>2. Upto(l, k + 1, b) <= CountIn(l, {b})
      BY <2>2, UptoCount
    <3>3. CountIn(l, {b}) <= c.used[b] /\ CountIn(l, {b}) \in Nat /\ c.used[b] \in Nat
      BY <1>3, CountFinite
    <3>4. Upto(l, k + 1, b) \in Nat
      BY <3>1
    <3>5. QED BY <3>1, <3>2, <3>3, <3>4 DEF a
  <2>4. /\ CacheKept(d, B, I) /\ d.used[a] = c.used[a] - Upto(l, k, a)
        /\ \A b \in B : d.used[b] = c.used[b] - Upto(l, k, b)
        /\ d.index = c.index /\ d.chain = c.chain /\ Extends(c.free, d.free)
    BY <2>2
  <2>5. d.used[a] # 0
    <3>1. Upto(l, k + 1, a) = Upto(l, k, a) + 1 /\ Upto(l, k + 1, a) <= c.used[a]
          /\ Upto(l, k, a) \in Nat /\ c.used[a] \in Nat
      BY <1>3, <2>2, <2>3
    <3>2. QED BY <2>4, <3>1
  <2>6. /\ CacheKept(e, B, I) /\ e.used = [d.used EXCEPT ![a] = @ - 1] /\ e.index = d.index
    BY <2>2, <2>4, <2>5, PutKept DEF e
  <2>7. e.chain = d.chain /\ Extends(d.free, e.free)
    BY <2>2, <2>4, PutExtends DEF CacheKept, e
  <2>8. d.used \in [B -> Nat] /\ d.free \in Seq(B) /\ e.free \in Seq(B)
    BY <2>4, <2>6 DEF CacheKept, CacheTyped
  <2>9. ASSUME NEW b \in B PROVE e.used[b] = c.used[b] - Upto(l, k + 1, b)
    <3>1. e.used[b] = d.used[b] - (IF a = b THEN 1 ELSE 0)
      BY <2>2, <2>6, <2>8
    <3>2. d.used[b] = c.used[b] - Upto(l, k, b) /\ c.used[b] \in Nat
      BY <1>3, <2>4
    <3>3. QED BY <2>3, <3>1, <3>2
  <2>10. Extends(c.free, e.free)
    BY <1>3, <2>4, <2>7, <2>8, ExtendsChain
  <2>11. Good(k + 1, e)
    BY <2>4, <2>6, <2>7, <2>9, <2>10
  <2>12. QED BY <2>1, <2>2, <2>11
<1>6. n \in P
  <2>1. \A k \in 0 .. n - 1 : k \in P => k + 1 \in P
    BY <1>5
  <2> HIDE DEF P
  <2>2. \A k \in 0 .. n : k \in P
    BY <1>1, <1>4, <2>1, InductionTo
  <2>3. QED BY <1>1, <2>2
<1>7. Good(n, it[1 .. n])
  BY <1>6
<1>8. \A b : Upto(l, n, b) = CountIn(l, {b})
  BY UptoCount
<1>9. QED BY <1>2, <1>7, <1>8

(* Puts and lookups leave what the buffers are hashed under.               *)
LEMMA IndexSame ==
  ASSUME NEW B, NEW I, NEW c, CacheTyped(c, B, I), NEW b
  PROVE  /\ Put(c, b).index = c.index /\ Lookup(c, b).index = c.index
         /\ Put(Lookup(c, b), b).index = c.index
<1>1. c = [used |-> c.used, index |-> c.index, chain |-> c.chain, free |-> c.free]
  BY DEF CacheTyped
<1>2. Put(c, b).index = c.index
  BY <1>1 DEF Put
<1> DEFINE d == Lookup(c, b)
           l == RemoveFirst(c.free, b)
<1>3. d = [c EXCEPT !.used[b] = @ + 1, !.free = l]
  BY DEF Lookup
<1> HIDE DEF l
<1>4. /\ d = [used |-> d.used, index |-> d.index, chain |-> d.chain, free |-> d.free]
      /\ d.index = c.index
  BY <1>1, <1>3
<1> HIDE DEF d
<1>5. Put(d, b).index = d.index
  BY <1>4 DEF Put
<1>6. QED BY <1>2, <1>4, <1>5 DEF d

=============================================================================
