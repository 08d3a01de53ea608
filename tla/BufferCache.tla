---------------------------- MODULE BufferCache ----------------------------
(***************************************************************************)
(* The buffer cache of mksquashfs.c as a value and its operations.  Each   *)
(* operation of the program holds the cache's mutex throughout, except for *)
(* the wait in cache_get, so each is one step of whoever calls it.         *)
(*                                                                         *)
(* A cache c has max_buffers buffers, DOMAIN c.used.  c.used[b] counts the *)
(* users of b; c.index[b] is the index it is hashed under (a "keep"        *)
(* buffer) or NoIndex; c.chain[i] are the buffers hashed under i, the      *)
(* newest first; c.free is the free list, the next to be reused first.  A  *)
(* buffer with no user and no index is not allocated.                      *)
(***************************************************************************)
EXTENDS Integers, FiniteSets, Sequences, SequencesExt

NoIndex == -1
NoBuffer == "NULL"

EmptyCache(buffers, indexes) ==     \* cache_init
  [used  |-> [b \in buffers |-> 0],
   index |-> [b \in buffers |-> NoIndex],
   chain |-> [i \in indexes |-> <<>>],
   free  |-> <<>>]

Allocated(c) == {b \in DOMAIN c.used : c.used[b] > 0 \/ c.index[b] # NoIndex}

(* insert_hash_table, remove_hash_table.                                   *)
HashLast(c, b, i) ==
  IF i = NoIndex THEN c ELSE [c EXCEPT !.chain[i] = Append(@, b), !.index[b] = i]
Hash(c, b, i) ==
  IF i = NoIndex THEN c ELSE [c EXCEPT !.chain[i] = <<b>> \o @, !.index[b] = i]
Unhash(c, b) ==
  IF c.index[b] = NoIndex THEN c
  ELSE [c EXCEPT !.chain[c.index[b]] = RemoveFirst(@, b), !.index[b] = NoIndex]

(* What cache_lookup finds, and its effect when it finds b.                *)
Found(c, i) == IF c.chain[i] = <<>> THEN NoBuffer ELSE Head(c.chain[i])
LookupStaysFree(c, b) == [c EXCEPT !.used[b] = @ + 1]
Lookup(c, b) == [c EXCEPT !.used[b] = @ + 1, !.free = RemoveFirst(@, b)]

(* The buffers cache_get can return, none if it has to wait, and its       *)
(* effect.  first_freelist: the free list is used before the cache grows.  *)
Gettable(c, first_freelist) ==
  LET unallocated == DOMAIN c.used \ Allocated(c)
  IN IF c.free # <<>> /\ (first_freelist \/ unallocated = {})
     THEN {Head(c.free)} ELSE unallocated
Get(c, b, i) ==
  Hash([Unhash(c, b) EXCEPT !.used[b] = 1, !.free = RemoveFirst(@, b)], b, i)

(* cache_rehash.                                                           *)
Rehash(c, b, i) == Hash(Unhash(c, b), b, i)

(* cache_block_put.                                                        *)
Put(c, b) ==
  [c EXCEPT !.used[b] = @ - 1,
            !.free = IF c.used[b] = 1 /\ c.index[b] # NoIndex THEN Append(@, b) ELSE @]

(* The free list is what it should be: every kept buffer without a user,   *)
(* once; and each buffer is in the chain of its index alone, once.         *)
WellFormed(c) ==
  /\ IsInjective(c.free)
  /\ Range(c.free) = {b \in DOMAIN c.used : c.used[b] = 0 /\ c.index[b] # NoIndex}
  /\ \A i \in DOMAIN c.chain :
       /\ IsInjective(c.chain[i])
       /\ Range(c.chain[i]) = {b \in DOMAIN c.used : c.index[b] = i}
=============================================================================
