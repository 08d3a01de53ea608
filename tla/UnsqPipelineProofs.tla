------------------------- MODULE UnsqPipelineProofs -------------------------
(***************************************************************************)
(* unsquashfs writing files, for any number of deflators, any cache and    *)
(* queue sizes, any image and any files: a buffer of a cache is read into  *)
(* by one thread at a time and is not reused under it or under the writer, *)
(* and a file that is kept has its own blocks.                             *)
(*                                                                         *)
(* The invariant, besides the types.  Reading: who is to make which entry  *)
(* ready, and every pending entry has a user.  Holding: each entry has as  *)
(* many users as main, the queue to the writer and the writer have of it,  *)
(* at least.  Stream: the queue holds files, each followed by its blocks,  *)
(* from what the writer has left of its file to what main has left of the  *)
(* one it is at.  WriterHolds: what the writer has written of its file.    *)
(* FlushLast, FilesCounted: the flush comes after everything else, and a   *)
(* file is queued, being written, kept or unlinked.  Filled: what is in an *)
(* entry that is ready.                                                    *)
(***************************************************************************)
EXTENDS UnsqPipeline, BufferCacheProofs, FiniteSetTheorems

USE QueueAssumption, BuffersAssumption, DeflatorsAssumption, BlocksAssumption

-----------------------------------------------------------------------------
(* Types.                                                                  *)
Places == ({"data"} \X DataBlocks) \cup ({"fragment"} \X Fragments) \cup {Hole}
Texts == ({"data"} \X (DataBlocks \cup {NoIndex}))
           \cup ({"fragment"} \X (Fragments \cup {NoIndex})) \cup {NoEntry, Hole}
Written == Texts \X {"raw", "plain"}

FileItems == [file : Seq(Places)]
Flush == [flush |-> TRUE]
Items == FileItems \cup [entry : Entries \cup {NoEntry}] \cup {Flush}

CachesKept ==
  /\ cache = [c \in Caches |-> cache[c]]
  /\ \A c \in Caches : CacheKept(cache[c], BuffersOf[c], IndexesOf[c])

ReadTyped ==
  /\ pending \in SUBSET Entries /\ error \in SUBSET Entries
  /\ data \in [Entries -> Written]
  /\ to_reader \in Seq(Entries) /\ reader \in Entries \cup {NoEntry}
  /\ to_deflate \in Seq(Entries) /\ deflator \in [Deflators -> Entries \cup {NoEntry}]

MainTyped ==
  main \in [pc : {"idle", "get", "put", "flush", "done"}, todo : Seq(Places),
            entry : Entries \cup {NoEntry}]
WriterTyped ==
  /\ writer \in [pc : {"idle", "file"}, content : Seq(Places), left : Nat,
                 entry : Entries \cup {NoEntry}, failed : BOOLEAN, written : Seq(Written)]
  /\ to_writer \in Seq(Items) /\ Len(to_writer) <= WriterQueue
  /\ from_writer \in Seq({Flush}) /\ Len(from_writer) <= 1
FilesTyped == files \in [created : Nat, kept : Nat, unlinked : Nat]

Typed == CachesKept /\ ReadTyped /\ MainTyped /\ WriterTyped /\ FilesTyped

(* Reading.                                                                *)
Deflating == {deflator[d] : d \in Deflators} \ {NoEntry}
Taken == {reader} \ {NoEntry}
Reading ==
  /\ IsInjective(to_reader) /\ IsInjective(to_deflate)
  /\ \A d, e \in Deflators : deflator[d] = deflator[e] /\ deflator[d] # NoEntry => d = e
  /\ Range(to_reader) \cap Taken = {}
  /\ Range(to_reader) \cap Range(to_deflate) = {}
  /\ Range(to_reader) \cap Deflating = {}
  /\ Range(to_deflate) \cap Taken = {}
  /\ Range(to_deflate) \cap Deflating = {}
  /\ Deflating \cap Taken = {}
  /\ pending = Range(to_reader) \cup Range(to_deflate) \cup Taken \cup Deflating
  /\ \A e \in pending : Used(e) # 0

(* Holding.                                                                *)
ItemsOf(e) == CountIn(to_writer, {[entry |-> e]})
MainHas(e) == IF main.pc = "put" /\ main.entry = e THEN 1 ELSE 0
WriterHas(e) == IF writer.entry = e THEN 1 ELSE 0
Holding == \A e \in Entries : ItemsOf(e) + MainHas(e) + WriterHas(e) <= Used(e)

(* Stream.                                                                 *)
Fits(e, place) == IF place = Hole THEN e = NoEntry ELSE e \in Entries /\ Block(e) = place

Point(content, taken) == [content |-> content, taken |-> taken]
Points == [content : Seq(Places), taken : Nat]
AtEnd(a) == a.taken = Len(a.content)
WriterAt == Point(writer.content, Len(writer.content) - writer.left
                                    + (IF writer.entry = NoEntry THEN 0 ELSE 1))
Moves(a, item, b) ==
  \/ item \in FileItems /\ AtEnd(a) /\ b = Point(item.file, 0)
  \/ \E e \in Entries \cup {NoEntry} :
       /\ item = [entry |-> e] /\ a.taken < Len(a.content)
       /\ Fits(e, a.content[a.taken + 1])
       /\ b = Point(a.content, a.taken + 1)
  \/ item = Flush /\ AtEnd(a) /\ AtEnd(b)
MainAt(a) ==
  IF main.pc \in {"get", "put"}
  THEN /\ main.todo # <<>> /\ Len(main.todo) = Len(a.content) - a.taken
       /\ \A i \in 1 .. Len(main.todo) : main.todo[i] = a.content[a.taken + i]
       /\ main.pc = "put" => Fits(main.entry, main.todo[1])
  ELSE AtEnd(a)
StreamBy(at) ==
  /\ at[0] = WriterAt
  /\ \A k \in 1 .. Len(to_writer) : Moves(at[k - 1], to_writer[k], at[k])
  /\ MainAt(at[Len(to_writer)])
Stream == \E at \in [0 .. Len(to_writer) -> Points] : StreamBy(at)

(* What the writer has, and has written.                                   *)
WriterHolds ==
  /\ writer.pc = "idle" => writer = IdleWriter
  /\ writer.left <= Len(writer.content)
  /\ writer.entry # NoEntry =>
       writer.left # 0 /\ Fits(writer.entry, writer.content[Len(writer.content) - writer.left + 1])
  /\ ~writer.failed =>
       /\ Len(writer.written) = Len(writer.content) - writer.left
       /\ \A i \in 1 .. Len(writer.written) : writer.written[i] = <<writer.content[i], "plain">>

(* The flush comes last, and every file created is somewhere.              *)
FlushLast ==
  /\ \A k \in 1 .. Len(to_writer) :
       to_writer[k] = Flush <=> main.pc = "flush" /\ from_writer = <<>> /\ k = Len(to_writer)
  /\ main.pc = "flush" /\ from_writer = <<>> => to_writer # <<>>
  /\ from_writer # <<>> => main.pc = "flush"
  /\ main.pc = "done" \/ from_writer # <<>> => to_writer = <<>> /\ writer.pc = "idle"
FilesCounted ==
  files.created = files.kept + files.unlinked + CountIn(to_writer, FileItems)
                    + (IF writer.pc = "file" THEN 1 ELSE 0)

(* Filled.                                                                 *)
Filled ==
  \A e \in Entries : cache[e[1]].index[e[2]] # NoIndex =>
    /\ e \notin pending /\ e \notin error => data[e] = <<Block(e), "plain">>
    /\ e \in Range(to_deflate) \cup Deflating => data[e] = <<Block(e), "raw">>

Inv == Typed /\ Reading /\ Holding /\ Stream /\ WriterHolds /\ FlushLast /\ FilesCounted /\ Filled

-----------------------------------------------------------------------------
(* Entries, places and items.                                              *)
Index(e) == cache[e[1]].index[e[2]]

LEMMA EntryIs ==
  /\ NoEntry \notin Entries /\ NoIndex \notin DataBlocks \cup Fragments
  /\ \A e \in Entries : e = <<e[1], e[2]>> /\ e[1] \in Caches /\ e[2] \in BuffersOf[e[1]]
  /\ \A c \in Caches : \A b \in BuffersOf[c] : <<c, b>> \in Entries
  /\ \A c \in Caches : NoIndex \notin IndexesOf[c] /\ NoBuffer \notin BuffersOf[c]
  /\ IsFiniteSet(Entries)
<1>1. NoIndex \notin DataBlocks \cup Fragments
  BY DEF NoIndex
<1>2. BuffersOf["data"] = DataBuffers /\ BuffersOf["fragment"] = FragmentBuffers
      /\ IndexesOf["data"] = DataBlocks /\ IndexesOf["fragment"] = Fragments
  BY DEF BuffersOf, IndexesOf
<1>3. \A c \in Caches : c = "data" \/ c = "fragment"
  BY DEF Caches
<1>4. \A e \in Entries : e = <<e[1], e[2]>> /\ e[1] \in Caches /\ e[2] \in BuffersOf[e[1]]
  BY <1>2 DEF Entries, Caches
<1>5. \A c \in Caches : \A b \in BuffersOf[c] : <<c, b>> \in Entries
  BY <1>2, <1>3 DEF Entries
<1>6. \A c \in Caches : NoIndex \notin IndexesOf[c] /\ NoBuffer \notin BuffersOf[c]
  BY <1>1, <1>2, <1>3
<1>7. NoEntry \notin Entries
  BY DEF Entries, NoEntry
<1>8. IsFiniteSet(Entries)
  <2>1. IsFiniteSet({"data"}) /\ IsFiniteSet({"fragment"})
    BY FS_Singleton
  <2>2. IsFiniteSet({"data"} \X DataBuffers)
    BY <2>1, FS_Product
  <2>3. IsFiniteSet({"fragment"} \X FragmentBuffers)
    BY <2>1, FS_Product
  <2>4. QED BY <2>2, <2>3, FS_Union DEF Entries
<1>9. QED BY <1>1, <1>4, <1>5, <1>6, <1>7, <1>8

LEMMA PlaceIs ==
  /\ Hole \in Places
  /\ \A p \in Places : p # Hole =>
       p = <<p[1], p[2]>> /\ p[1] \in Caches /\ p[2] \in IndexesOf[p[1]]
  /\ Places \subseteq Texts
<1>1. IndexesOf["data"] = DataBlocks /\ IndexesOf["fragment"] = Fragments
  BY DEF IndexesOf
<1>2. QED BY <1>1 DEF Places, Texts, Caches

LEMMA ItemIs ==
  /\ \A item \in FileItems : /\ item.file \in Seq(Places) /\ item # Flush
                             /\ "flush" \notin DOMAIN item /\ "entry" \notin DOMAIN item
                             /\ item \notin [entry : Entries \cup {NoEntry}]
  /\ \A e : /\ [entry |-> e] \notin FileItems /\ [entry |-> e] # Flush
            /\ "flush" \notin DOMAIN [entry |-> e] /\ "entry" \in DOMAIN [entry |-> e]
            /\ [entry |-> e].entry = e
  /\ "flush" \in DOMAIN Flush /\ "entry" \notin DOMAIN Flush
  /\ \A l \in Seq(Places) : [file |-> l] \in FileItems /\ [file |-> l].file = l
  /\ \A e, f : [entry |-> e] = [entry |-> f] => e = f
BY DEF FileItems, Flush

LEMMA ContentIs ==
  ASSUME NEW content \in Contents
  PROVE  content \in Seq(Places)
<1>1. PICK run \in UNION {Runs(n) : n \in 0 .. MaxBlocks}, tail \in Tails : content = run \o tail
  BY DEF Contents
<1>2. run \in Seq(Places)
  <2>1. PICK n \in 0 .. MaxBlocks : run \in Runs(n)
    OBVIOUS
  <2>2. run \in [1 .. n -> ({"data"} \X DataBlocks) \cup {Hole}]
    BY <2>1 DEF Runs
  <2>3. n \in Nat /\ ({"data"} \X DataBlocks) \cup {Hole} \subseteq Places
    BY DEF Places
  <2>4. QED BY <2>2, <2>3
<1>3. tail \in Seq(Places)
  <2>1. <<>> \in Seq(Places)
    OBVIOUS
  <2>2. ASSUME NEW f \in Fragments PROVE <<<<"fragment", f>>>> \in Seq(Places)
    <3>1. <<"fragment", f>> \in Places
      BY DEF Places
    <3>2. QED BY <3>1
  <2>3. QED BY <2>1, <2>2 DEF Tails
<1>4. QED BY <1>1, <1>2, <1>3, ConcatProperties

-----------------------------------------------------------------------------
(* The caches.                                                             *)
LEMMA CachesAre ==
  ASSUME CachesKept
  PROVE  /\ \A c \in Caches :
              /\ CacheKept(cache[c], BuffersOf[c], IndexesOf[c])
              /\ cache[c].used \in [BuffersOf[c] -> Nat]
              /\ cache[c].index \in [BuffersOf[c] -> IndexesOf[c] \cup {NoIndex}]
         /\ \A e \in Entries : /\ Used(e) \in Nat /\ Block(e) = <<e[1], Index(e)>>
                               /\ Index(e) \in IndexesOf[e[1]] \cup {NoIndex}
                               /\ Block(e) \in Texts
<1>1. \A c \in Caches :
        /\ CacheKept(cache[c], BuffersOf[c], IndexesOf[c])
        /\ cache[c].used \in [BuffersOf[c] -> Nat]
        /\ cache[c].index \in [BuffersOf[c] -> IndexesOf[c] \cup {NoIndex}]
  BY DEF CachesKept, CacheKept, CacheTyped
<1>2. ASSUME NEW e \in Entries
      PROVE  /\ Used(e) \in Nat /\ Block(e) = <<e[1], Index(e)>>
             /\ Index(e) \in IndexesOf[e[1]] \cup {NoIndex}
             /\ Block(e) \in Texts
  <2>1. e[1] \in Caches /\ e[2] \in BuffersOf[e[1]]
    BY EntryIs
  <2>2. Used(e) \in Nat /\ Index(e) \in IndexesOf[e[1]] \cup {NoIndex}
    BY <1>1, <2>1 DEF Used, Index
  <2>3. Block(e) = <<e[1], Index(e)>>
    BY DEF Block, Index
  <2>4. Block(e) \in Texts
    BY <2>1, <2>2, <2>3 DEF Texts, Caches, IndexesOf
  <2>5. QED BY <2>2, <2>3, <2>4
<1>3. QED BY <1>1, <1>2

(* An operation on one buffer of one cache.                                *)
LEMMA CacheStep ==
  ASSUME CachesKept, NEW e \in Entries, NEW new, NEW n \in Nat, NEW i,
         cache' = [cache EXCEPT ![e[1]] = new],
         CacheKept(new, BuffersOf[e[1]], IndexesOf[e[1]]),
         new.used = [cache[e[1]].used EXCEPT ![e[2]] = n],
         new.index = [cache[e[1]].index EXCEPT ![e[2]] = i]
  PROVE  /\ CachesKept'
         /\ Used(e)' = n /\ Index(e)' = i
         /\ \A x \in Entries : x # e => Used(x)' = Used(x) /\ Index(x)' = Index(x)
<1>1. e[1] \in Caches /\ e[2] \in BuffersOf[e[1]] /\ e = <<e[1], e[2]>>
  BY EntryIs
<1>2. /\ DOMAIN cache = Caches
      /\ \A c \in Caches : /\ DOMAIN cache[c].used = BuffersOf[c]
                           /\ DOMAIN cache[c].index = BuffersOf[c]
                           /\ CacheKept(cache[c], BuffersOf[c], IndexesOf[c])
  BY CachesAre DEF CachesKept
<1>3. cache'[e[1]] = new /\ \A c \in Caches : c # e[1] => cache'[c] = cache[c]
  BY <1>1, <1>2
<1>4. CachesKept'
  <2>1. cache' = [c \in Caches |-> cache'[c]]
    BY <1>2 DEF CachesKept
  <2>2. \A c \in Caches : CacheKept(cache'[c], BuffersOf[c], IndexesOf[c])
    BY <1>2, <1>3
  <2>3. QED BY <2>1, <2>2 DEF CachesKept
<1>5. Used(e)' = n /\ Index(e)' = i
  BY <1>1, <1>2, <1>3 DEF Used, Index
<1>6. ASSUME NEW x \in Entries, x # e PROVE Used(x)' = Used(x) /\ Index(x)' = Index(x)
  <2>1. x[1] \in Caches /\ x[2] \in BuffersOf[x[1]] /\ x = <<x[1], x[2]>>
    BY EntryIs
  <2>2. CASE x[1] # e[1]
    BY <1>3, <2>1, <2>2 DEF Used, Index
  <2>3. CASE x[1] = e[1] /\ x[2] # e[2]
    BY <1>1, <1>2, <1>3, <2>1, <2>3 DEF Used, Index
  <2>4. QED BY <1>1, <1>6, <2>1, <2>2, <2>3
<1>7. QED BY <1>4, <1>5, <1>6

LEMMA CacheStill ==
  ASSUME cache' = cache
  PROVE  \A e : Used(e)' = Used(e) /\ Index(e)' = Index(e) /\ Block(e)' = Block(e)
BY DEF Used, Index, Block

LEMMA BlockStill ==
  ASSUME NEW e, Index(e)' = Index(e)
  PROVE  Block(e)' = Block(e)
BY DEF Index, Block

(* What main asks for while it gets blocks.                                *)
LEMMA MainAsks ==
  ASSUME Inv, main.pc \in {"get", "put"}
  PROVE  /\ main.todo \in Seq(Places) /\ main.todo # <<>> /\ Head(main.todo) = main.todo[1]
         /\ Head(main.todo) \in Places
<1>1. main.todo \in Seq(Places)
  BY DEF Inv, Typed, MainTyped
<1>2. main.todo # <<>>
  BY DEF Inv, Stream, StreamBy, MainAt
<1>3. QED BY <1>1, <1>2, TailIs

LEMMA GetEffect ==
  ASSUME Inv, CacheGet
  PROVE  \E e \in Entries :
           /\ main' = [main EXCEPT !.pc = "put", !.entry = e]
           /\ Head(main.todo) # Hole /\ Block(e)' = Head(main.todo) /\ CachesKept'
           /\ \A x \in Entries : x # e => Used(x)' = Used(x) /\ Index(x)' = Index(x)
           /\ \/ /\ Index(e)' = Index(e) /\ Used(e)' = Used(e) + 1
                 /\ UNCHANGED <<pending, error, to_reader>>
              \/ /\ Used(e) = 0 /\ Used(e)' = 1
                 /\ pending' = pending \cup {e} /\ error' = error \ {e}
                 /\ to_reader' = Append(to_reader, e)
<1>1. PICK p \in Places : p = Head(main.todo) /\ p # Hole
  BY MainAsks DEF CacheGet
<1>2. PICK c, i : c \in Caches /\ i \in IndexesOf[c] /\ p = <<c, i>>
  BY <1>1, PlaceIs
<1>3. CachesKept
  BY DEF Inv, Typed
<1>4. CacheKept(cache[c], BuffersOf[c], IndexesOf[c])
  BY <1>2, <1>3, CachesAre
<1>5. NoBuffer \notin BuffersOf[c] /\ NoIndex \notin IndexesOf[c]
  BY <1>2, EntryIs
<1>6. /\ cache[c].used \in [BuffersOf[c] -> Nat]
      /\ cache[c].index \in [BuffersOf[c] -> IndexesOf[c] \cup {NoIndex}]
  BY <1>2, <1>3, CachesAre
<1>7. ASSUME NEW b \in BuffersOf[c]
      PROVE  /\ <<c, b>> \in Entries
             /\ Used(<<c, b>>) = cache[c].used[b] /\ Index(<<c, b>>) = cache[c].index[b]
  BY <1>2, EntryIs DEF Used, Index
<1>8. \/ /\ Found(cache[c], i) # NoBuffer
         /\ cache' = [cache EXCEPT ![c] = Lookup(@, Found(cache[c], i))]
         /\ main' = [main EXCEPT !.pc = "put", !.entry = <<c, Found(cache[c], i)>>]
         /\ UNCHANGED <<pending, error, to_reader>>
      \/ \E b \in Gettable(cache[c], FALSE) :
           Fetch(c, b, i) /\ main' = [main EXCEPT !.pc = "put", !.entry = <<c, b>>]
  <2>1. Head(main.todo)[1] = c /\ Head(main.todo)[2] = i
    BY <1>1, <1>2
  <2>2. QED BY <2>1 DEF CacheGet
<1>9. ASSUME NEW b \in BuffersOf[c], cache[c].index[b] = i,
             cache' = [cache EXCEPT ![c] = Lookup(@, b)]
      PROVE  /\ CachesKept' /\ Used(<<c, b>>)' = Used(<<c, b>>) + 1
             /\ Block(<<c, b>>)' = p /\ Index(<<c, b>>)' = Index(<<c, b>>)
             /\ \A x \in Entries : x # <<c, b>> =>
                  Used(x)' = Used(x) /\ Index(x)' = Index(x)
  <2> DEFINE e == <<c, b>>
             new == Lookup(cache[c], b)
  <2>1. cache' = [cache EXCEPT ![c] = new]
    BY <1>9
  <2>2. /\ CacheKept(new, BuffersOf[c], IndexesOf[c])
        /\ new.used = [cache[c].used EXCEPT ![b] = @ + 1]
        /\ new.index = cache[c].index
    <3>1. cache[c].index[b] # NoIndex
      BY <1>2, <1>9, <1>5
    <3>2. QED BY <1>4, <3>1, LookupKept
  <2> HIDE DEF new
  <2>3. e \in Entries /\ Used(e) = cache[c].used[b] /\ Index(e) = cache[c].index[b]
    BY <1>7
  <2>4. /\ new.used = [cache[c].used EXCEPT ![b] = Used(e) + 1]
        /\ new.index = [cache[c].index EXCEPT ![b] = i]
        /\ Used(e) + 1 \in Nat
    BY <1>6, <1>9, <2>2, <2>3
  <2>5. e[1] = c /\ e[2] = b
    OBVIOUS
  <2> HIDE DEF e
  <2>6. /\ CachesKept' /\ Used(e)' = Used(e) + 1 /\ Index(e)' = i
        /\ \A x \in Entries : x # e => Used(x)' = Used(x) /\ Index(x)' = Index(x)
    <3>1. cache' = [cache EXCEPT ![e[1]] = new]
      BY <2>1, <2>5
    <3>2. CacheKept(new, BuffersOf[e[1]], IndexesOf[e[1]])
      BY <2>2, <2>5
    <3>3. PICK n : n = Used(e) + 1
      OBVIOUS
    <3>4. /\ new.used = [cache[e[1]].used EXCEPT ![e[2]] = n]
          /\ new.index = [cache[e[1]].index EXCEPT ![e[2]] = i]
      BY <2>4, <2>5, <3>3
    <3>5. e \in Entries /\ n \in Nat
      BY <2>3, <2>4, <3>3
    <3>6. /\ CachesKept' /\ Used(e)' = n /\ Index(e)' = i
          /\ \A x \in Entries : x # e => Used(x)' = Used(x) /\ Index(x)' = Index(x)
      BY <1>3, <3>1, <3>2, <3>4, <3>5, CacheStep
    <3>7. QED BY <3>3, <3>6
  <2>7. Block(e)' = p /\ Index(e)' = Index(e)
    BY <1>2, <1>9, <2>3, <2>5, <2>6 DEF Block, Index
  <2>8. QED BY <2>6, <2>7 DEF e
<1>10. ASSUME NEW b \in Gettable(cache[c], FALSE), Fetch(c, b, i)
      PROVE  /\ b \in BuffersOf[c] /\ Used(<<c, b>>) = 0
             /\ CachesKept' /\ Used(<<c, b>>)' = 1 /\ Block(<<c, b>>)' = p
             /\ \A x \in Entries : x # <<c, b>> =>
                  Used(x)' = Used(x) /\ Index(x)' = Index(x)
             /\ pending' = pending \cup {<<c, b>>} /\ error' = error \ {<<c, b>>}
             /\ to_reader' = Append(to_reader, <<c, b>>)
  <2> DEFINE e == <<c, b>>
             new == Get(cache[c], b, i)
  <2>1. b \in BuffersOf[c] /\ cache[c].used[b] = 0
    <3>1. PICK first : b \in Gettable(cache[c], first)
      OBVIOUS
    <3>2. QED BY <1>4, <3>1, GettableIs
  <2>2. /\ cache' = [cache EXCEPT ![c] = new]
        /\ pending' = pending \cup {e} /\ error' = error \ {e}
        /\ to_reader' = Append(to_reader, e)
    BY <1>10 DEF Fetch
  <2>3. /\ CacheKept(new, BuffersOf[c], IndexesOf[c])
        /\ new.used = [cache[c].used EXCEPT ![b] = 1]
        /\ new.index = [cache[c].index EXCEPT ![b] = i]
    <3>1. b \in BuffersOf[c]
      BY <2>1
    <3>2. i \in IndexesOf[c] \cup {NoIndex} /\ NoIndex \notin IndexesOf[c]
      BY <1>2, <1>5
    <3>3. QED BY <1>4, <3>1, <3>2, GetKept
  <2> HIDE DEF new
  <2>4. e \in Entries /\ Used(e) = 0
    BY <1>7, <2>1
  <2>5. e[1] = c /\ e[2] = b
    OBVIOUS
  <2> HIDE DEF e
  <2>6. /\ CachesKept' /\ Used(e)' = 1 /\ Index(e)' = i
        /\ \A x \in Entries : x # e => Used(x)' = Used(x) /\ Index(x)' = Index(x)
    <3>1. cache' = [cache EXCEPT ![e[1]] = new]
      BY <2>2, <2>5
    <3>2. CacheKept(new, BuffersOf[e[1]], IndexesOf[e[1]])
      BY <2>3, <2>5
    <3>3. /\ new.used = [cache[e[1]].used EXCEPT ![e[2]] = 1]
          /\ new.index = [cache[e[1]].index EXCEPT ![e[2]] = i]
      BY <2>3, <2>5
    <3>4. e \in Entries /\ 1 \in Nat
      BY <2>4
    <3>5. QED BY <1>3, <3>1, <3>2, <3>3, <3>4, CacheStep
  <2>7. Block(e)' = p
    BY <1>2, <2>5, <2>6 DEF Block, Index
  <2>8. QED BY <2>1, <2>2, <2>4, <2>6, <2>7 DEF e
<1>11. CASE /\ Found(cache[c], i) # NoBuffer
           /\ cache' = [cache EXCEPT ![c] = Lookup(@, Found(cache[c], i))]
           /\ main' = [main EXCEPT !.pc = "put", !.entry = <<c, Found(cache[c], i)>>]
           /\ UNCHANGED <<pending, error, to_reader>>
  <2>1. PICK b : b = Found(cache[c], i)
    OBVIOUS
  <2>2. b \in BuffersOf[c] /\ cache[c].index[b] = i
    <3>1. i \in IndexesOf[c] /\ NoBuffer \notin BuffersOf[c]
      BY <1>2, <1>5
    <3>2. Found(cache[c], i) # NoBuffer
      BY <1>11
    <3>3. QED BY <1>4, <2>1, <3>1, <3>2, FoundIs
  <2>3. /\ CachesKept' /\ Used(<<c, b>>)' = Used(<<c, b>>) + 1
        /\ Block(<<c, b>>)' = p /\ Index(<<c, b>>)' = Index(<<c, b>>)
        /\ \A x \in Entries : x # <<c, b>> =>
             Used(x)' = Used(x) /\ Index(x)' = Index(x)
    BY <1>9, <1>11, <2>1, <2>2
  <2>4. <<c, b>> \in Entries
    BY <1>7, <2>2
  <2>5. QED BY <1>1, <1>11, <2>1, <2>3, <2>4
<1>12. CASE \E b \in Gettable(cache[c], FALSE) :
             Fetch(c, b, i) /\ main' = [main EXCEPT !.pc = "put", !.entry = <<c, b>>]
  <2>1. PICK b \in Gettable(cache[c], FALSE) :
          Fetch(c, b, i) /\ main' = [main EXCEPT !.pc = "put", !.entry = <<c, b>>]
    BY <1>12
  <2>2. <<c, b>> \in Entries
    BY <1>7, <1>10, <2>1
  <2>3. QED BY <1>1, <1>10, <2>1, <2>2
<1>13. QED BY <1>8, <1>11, <1>12

(* Who has an entry without a user: nobody.                                *)
LEMMA HeldIs ==
  ASSUME Inv, NEW e \in Entries
  PROVE  /\ ItemsOf(e) \in Nat /\ MainHas(e) \in {0, 1} /\ WriterHas(e) \in {0, 1}
         /\ Used(e) \in Nat /\ ItemsOf(e) + MainHas(e) + WriterHas(e) <= Used(e)
         /\ Used(e) = 0 =>
              /\ e \notin pending /\ writer.entry # e /\ ~(main.pc = "put" /\ main.entry = e)
              /\ \A k \in 1 .. Len(to_writer) : to_writer[k] # [entry |-> e]
<1>1. to_writer \in Seq(Items)
  BY DEF Inv, Typed, WriterTyped
<1>2. /\ ItemsOf(e) \in Nat
      /\ ItemsOf(e) = 0 => \A k \in 1 .. Len(to_writer) : to_writer[k] # [entry |-> e]
  <2>1. /\ ItemsOf(e) \in Nat
        /\ ItemsOf(e) = 0 <=> \A k \in DOMAIN to_writer : to_writer[k] \notin {[entry |-> e]}
    BY <1>1, CountFinite DEF ItemsOf
  <2>2. DOMAIN to_writer = 1 .. Len(to_writer)
    BY <1>1
  <2>3. QED BY <2>1, <2>2
<1>3. MainHas(e) \in {0, 1} /\ WriterHas(e) \in {0, 1}
  BY DEF MainHas, WriterHas
<1>4. Used(e) \in Nat
  BY CachesAre DEF Inv, Typed
<1>5. ItemsOf(e) + MainHas(e) + WriterHas(e) <= Used(e)
  BY DEF Inv, Holding
<1>6. Used(e) = 0 => ItemsOf(e) = 0 /\ MainHas(e) = 0 /\ WriterHas(e) = 0
  <2>1. \A a, b, c, d \in Nat : a + b + c <= d /\ d = 0 => a = 0 /\ b = 0 /\ c = 0
    OBVIOUS
  <2>2. MainHas(e) \in Nat /\ WriterHas(e) \in Nat
    BY <1>3
  <2>3. QED BY <1>2, <1>4, <1>5, <2>1, <2>2
<1>7. Used(e) = 0 => e \notin pending
  BY DEF Inv, Reading
<1>8. Used(e) = 0 => writer.entry # e /\ ~(main.pc = "put" /\ main.entry = e)
  BY <1>6 DEF MainHas, WriterHas
<1>9. QED BY <1>2, <1>3, <1>4, <1>5, <1>6, <1>7, <1>8

LEMMA WriterFields ==
  ASSUME Inv
  PROVE  /\ writer = [pc |-> writer.pc, content |-> writer.content, left |-> writer.left,
                      entry |-> writer.entry, failed |-> writer.failed,
                      written |-> writer.written]
         /\ writer.pc \in {"idle", "file"} /\ writer.content \in Seq(Places)
         /\ writer.left \in Nat /\ writer.entry \in Entries \cup {NoEntry}
         /\ writer.failed \in BOOLEAN /\ writer.written \in Seq(Written)
         /\ Len(writer.content) \in Nat /\ Len(writer.written) \in Nat
         /\ to_writer \in Seq(Items) /\ Len(to_writer) \in Nat
BY DEF Inv, Typed, WriterTyped

LEMMA WriteEffect ==
  ASSUME Inv, WriteBlock
  PROVE  \E e \in Entries :
           /\ writer.entry = e /\ e \notin pending /\ CachesKept'
           /\ \A x \in Entries : Index(x)' = Index(x)
           /\ \A x \in Entries : x # e => Used(x)' = Used(x)
           /\ Used(e) # 0 /\ Used(e)' \in {Used(e), Used(e) - 1}
           /\ \/ writer' = [writer EXCEPT !.left = @ - 1, !.entry = NoEntry, !.failed = TRUE]
              \/ /\ ~writer.failed /\ e \notin error
                 /\ writer' = [writer EXCEPT !.left = @ - 1, !.entry = NoEntry,
                                             !.written = Append(@, data[e])]
<1>1. PICK e : e = writer.entry
  OBVIOUS
<1>2. e \in Entries /\ e \notin pending
  BY <1>1, WriterFields DEF WriteBlock, CacheBlockWait
<1>3. Used(e) # 0
  BY <1>1, <1>2, HeldIs
<1>4. CachesKept
  BY DEF Inv, Typed
<1>6. ASSUME CacheBlockPut(e)
      PROVE  /\ CachesKept' /\ Used(e)' = Used(e) - 1 /\ Index(e)' = Index(e)
             /\ \A x \in Entries : x # e => Used(x)' = Used(x) /\ Index(x)' = Index(x)
  <2>1. PICK c, b : c \in Caches /\ b \in BuffersOf[c] /\ e = <<c, b>> /\ c = e[1] /\ b = e[2]
    BY <1>2, EntryIs
  <2>2. CacheKept(cache[c], BuffersOf[c], IndexesOf[c])
    BY <1>4, <2>1, CachesAre
  <2>3. cache[c].used[b] # 0 /\ cache[c].used[b] = Used(e) /\ cache[c].index[b] = Index(e)
    BY <1>3, <2>1 DEF Used, Index
  <2>4. /\ CacheKept(Put(cache[c], b), BuffersOf[c], IndexesOf[c])
        /\ Put(cache[c], b).used = [cache[c].used EXCEPT ![b] = @ - 1]
        /\ Put(cache[c], b).index = cache[c].index
    <3>1. b \in BuffersOf[c] /\ cache[c].used[b] # 0
      BY <2>1, <2>3
    <3>2. QED BY <2>2, <3>1, PutKept
  <2>5. PICK new : new = Put(cache[c], b)
    OBVIOUS
  <2>6. PICK n, i : n = Used(e) - 1 /\ i = Index(e)
    OBVIOUS
  <2>7. n \in Nat
    BY <1>2, <1>3, <1>4, <2>6, CachesAre
  <2>8. cache' = [cache EXCEPT ![e[1]] = new]
    BY <1>6, <2>1, <2>5 DEF CacheBlockPut
  <2>9. CacheKept(new, BuffersOf[e[1]], IndexesOf[e[1]])
    BY <2>1, <2>4, <2>5
  <2>10. new.used = [cache[e[1]].used EXCEPT ![e[2]] = n]
    BY <2>1, <2>3, <2>4, <2>5, <2>6
  <2>11. new.index = [cache[e[1]].index EXCEPT ![e[2]] = i]
    <3>1. cache[c].index \in [BuffersOf[c] -> IndexesOf[c] \cup {NoIndex}]
      BY <1>4, <2>1, CachesAre
    <3>2. QED BY <2>1, <2>3, <2>4, <2>5, <2>6, <3>1
  <2>12. /\ CachesKept' /\ Used(e)' = n /\ Index(e)' = i
         /\ \A x \in Entries : x # e => Used(x)' = Used(x) /\ Index(x)' = Index(x)
    BY <1>2, <1>4, <2>7, <2>8, <2>9, <2>10, <2>11, CacheStep
  <2>13. QED BY <2>6, <2>12
<1>7. /\ UNCHANGED cache \/ CacheBlockPut(e)
      /\ \/ writer' = [writer EXCEPT !.left = @ - 1, !.entry = NoEntry, !.failed = TRUE]
         \/ /\ ~writer.failed /\ e \notin error
            /\ writer' = [writer EXCEPT !.left = @ - 1, !.entry = NoEntry,
                                        !.written = Append(@, data[e])]
  BY <1>1 DEF WriteBlock, Skip, WriteOut
<1>8. /\ CachesKept'
      /\ \A x \in Entries : Index(x)' = Index(x)
      /\ \A x \in Entries : x # e => Used(x)' = Used(x)
      /\ Used(e)' \in {Used(e), Used(e) - 1}
  <2>1. CASE UNCHANGED cache
    <3>1. \A x \in Entries : Used(x)' = Used(x) /\ Index(x)' = Index(x)
      BY <2>1, CacheStill
    <3>2. CachesKept'
      BY <1>4, <2>1 DEF CachesKept
    <3>3. QED BY <1>2, <3>1, <3>2
  <2>2. CASE CacheBlockPut(e)
    BY <1>6, <2>2
  <2>3. QED BY <1>7, <2>1, <2>2
<1>9. QED BY <1>1, <1>2, <1>3, <1>7, <1>8

(* The item the writer takes is the one it expects.                        *)
LEMMA TakeIs ==
  ASSUME Inv, TakeItem
  PROVE  /\ to_writer # <<>> /\ to_writer' = Tail(to_writer) /\ writer.entry = NoEntry
         /\ \/ /\ writer.pc = "idle" /\ Head(to_writer) = Flush
               /\ from_writer = <<>> /\ from_writer' = <<Flush>> /\ UNCHANGED writer
            \/ /\ writer.pc = "idle" /\ UNCHANGED from_writer
               /\ \E l \in Seq(Places) :
                    /\ Head(to_writer) = [file |-> l]
                    /\ writer' = [IdleWriter EXCEPT !.pc = "file", !.content = l, !.left = Len(l)]
            \/ /\ writer.pc = "file" /\ writer.left > 0 /\ UNCHANGED from_writer
               /\ \E e \in Entries \cup {NoEntry} :
                    /\ Head(to_writer) = [entry |-> e]
                    /\ Fits(e, writer.content[Len(writer.content) - writer.left + 1])
                    /\ writer' = IF e = NoEntry
                         THEN [writer EXCEPT !.left = @ - 1,
                                             !.written = Append(@, <<Hole, "plain">>)]
                         ELSE [writer EXCEPT !.entry = e]
<1>1. /\ to_writer # <<>> /\ to_writer' = Tail(to_writer) /\ writer.entry = NoEntry
  BY DEF TakeItem
<1>2. /\ Len(to_writer) \in Nat \ {0} /\ Head(to_writer) = to_writer[1]
      /\ Head(to_writer) \in Items
  BY <1>1, WriterFields, TailIs
<1>3. PICK item : item = Head(to_writer)
  OBVIOUS
<1>4. PICK at \in [0 .. Len(to_writer) -> Points] : StreamBy(at)
  BY DEF Inv, Stream
<1>5. PICK a, b : a = WriterAt /\ Moves(a, item, b)
  <2>1. 1 \in 1 .. Len(to_writer) /\ 1 - 1 = 0
    BY <1>2
  <2>2. QED BY <1>2, <1>3, <1>4, <2>1 DEF StreamBy
<1>6. /\ a.content = writer.content /\ a.taken = Len(writer.content) - writer.left
  <2>1. Len(writer.content) - writer.left + 0 = Len(writer.content) - writer.left
    BY WriterFields
  <2>2. QED BY <1>1, <1>5, <2>1 DEF WriterAt, Point
<1>7. writer.left <= Len(writer.content)
  BY DEF Inv, WriterHolds
<1>8. CASE writer.pc = "idle"
  <2>1. writer.content = <<>> /\ writer.left = 0 /\ Len(writer.content) = 0
    BY <1>8 DEF Inv, WriterHolds, IdleWriter
  <2>2. a.taken = 0 /\ Len(a.content) = 0
    BY <1>6, <2>1
  <2>3. item \in FileItems \/ item = Flush
    <3>1. ~(a.taken < Len(a.content))
      BY <2>2
    <3>2. QED BY <1>5, <3>1 DEF Moves
  <2>4. CASE item = Flush
    <3>1. "flush" \in DOMAIN item
      BY <2>4, ItemIs
    <3>2. from_writer = <<>> /\ from_writer' = <<item>> /\ UNCHANGED writer
      BY <1>3, <1>8, <3>1 DEF TakeItem
    <3>3. QED BY <1>1, <1>3, <1>8, <2>4, <3>2
  <2>5. CASE item \in FileItems
    <3>1. "flush" \notin DOMAIN item
      BY <2>5, ItemIs
    <3>2. /\ writer' = [IdleWriter EXCEPT !.pc = "file", !.content = item.file,
                                          !.left = Len(item.file)]
          /\ UNCHANGED from_writer
      BY <1>3, <1>8, <3>1 DEF TakeItem
    <3>3. PICK l \in Seq(Places) : item = [file |-> l] /\ item.file = l
      BY <2>5 DEF FileItems
    <3>4. QED BY <1>1, <1>3, <1>8, <3>2, <3>3
  <2>6. QED BY <2>3, <2>4, <2>5
<1>9. CASE writer.pc = "file" /\ writer.left > 0
  <2>1. a.taken < Len(a.content) /\ a.taken # Len(a.content)
    BY <1>6, <1>7, <1>9, WriterFields
  <2>2. PICK e \in Entries \cup {NoEntry} :
          item = [entry |-> e] /\ Fits(e, a.content[a.taken + 1])
    BY <1>5, <2>1 DEF Moves, AtEnd
  <2>3. item.entry = e
    BY <2>2
  <2>4. /\ writer' = IF e = NoEntry
                     THEN [writer EXCEPT !.left = @ - 1,
                                         !.written = Append(@, <<Hole, "plain">>)]
                     ELSE [writer EXCEPT !.entry = e]
        /\ UNCHANGED from_writer
    <3>1. writer.pc # "idle"
      BY <1>9
    <3>2. /\ writer' = IF item.entry = NoEntry
                       THEN [writer EXCEPT !.left = @ - 1,
                                           !.written = Append(@, <<Hole, "plain">>)]
                       ELSE [writer EXCEPT !.entry = item.entry]
          /\ UNCHANGED from_writer
      BY <1>3, <3>1 DEF TakeItem
    <3>3. QED BY <2>3, <3>2
  <2>5. Fits(e, writer.content[Len(writer.content) - writer.left + 1])
    BY <1>6, <2>2
  <2>6. QED BY <1>1, <1>3, <1>9, <2>2, <2>4, <2>5
<1>10. writer.pc = "idle" \/ (writer.pc = "file" /\ writer.left > 0)
  BY DEF TakeItem
<1>11. QED BY <1>8, <1>9, <1>10

LEMMA NextCases ==
  ASSUME [Next]_vars
  PROVE  \/ WriteFile \/ CacheGet \/ SparseBlock \/ PutBlock \/ Finish \/ Finished
         \/ TakeRead \/ Read \/ (\E d \in Deflators : TakeDeflate(d) \/ Uncompress(d))
         \/ TakeItem \/ WriteBlock \/ CloseFile
         \/ UNCHANGED vars
BY DEF Next, Main, Reader, Deflate, Writer

-----------------------------------------------------------------------------
(* Types.                                                                  *)
LEMMA CachesSame ==
  ASSUME CachesKept, UNCHANGED cache
  PROVE  CachesKept'
BY DEF CachesKept

LEMMA ReadSame ==
  ASSUME ReadTyped, UNCHANGED <<pending, error, data, readVars>>
  PROVE  ReadTyped'
BY DEF ReadTyped, readVars

LEMMA PutIs ==
  ASSUME Inv, NEW x \in Items, PutToWriter(x)
  PROVE  /\ to_writer' \in Seq(Items) /\ Len(to_writer') <= WriterQueue
         /\ Len(to_writer') = Len(to_writer) + 1 /\ Len(to_writer) \in Nat
         /\ \A k \in 1 .. Len(to_writer) : to_writer'[k] = to_writer[k]
         /\ to_writer'[Len(to_writer) + 1] = x
<1>1. to_writer \in Seq(Items) /\ to_writer' = Append(to_writer, x)
      /\ Len(to_writer) < WriterQueue
  BY DEF Inv, Typed, WriterTyped, PutToWriter
<1>2. /\ Append(to_writer, x) \in Seq(Items) /\ Len(Append(to_writer, x)) = Len(to_writer) + 1
      /\ \A k \in 1 .. Len(to_writer) : Append(to_writer, x)[k] = to_writer[k]
      /\ Append(to_writer, x)[Len(to_writer) + 1] = x
      /\ Len(to_writer) \in Nat
  BY <1>1, AppendIs
<1>3. Len(to_writer') <= WriterQueue
  BY <1>1, <1>2 DEF QueueAssumption
<1>4. QED BY <1>1, <1>2, <1>3

LEMMA TakeTyped ==
  ASSUME Inv, to_writer # <<>>, to_writer' = Tail(to_writer)
  PROVE  /\ to_writer' \in Seq(Items) /\ Len(to_writer') <= WriterQueue
         /\ Len(to_writer') = Len(to_writer) - 1 /\ Len(to_writer) \in Nat \ {0}
         /\ \A k \in 1 .. Len(to_writer) - 1 : to_writer'[k] = to_writer[k + 1]
         /\ Head(to_writer) = to_writer[1]
<1>1. to_writer \in Seq(Items) /\ Len(to_writer) <= WriterQueue
  BY DEF Inv, Typed, WriterTyped
<1>2. /\ Tail(to_writer) \in Seq(Items) /\ Len(Tail(to_writer)) = Len(to_writer) - 1
      /\ Len(to_writer) \in Nat \ {0} /\ Head(to_writer) = to_writer[1]
      /\ \A k \in 1 .. Len(to_writer) - 1 : Tail(to_writer)[k] = to_writer[k + 1]
  BY <1>1, TailIs
<1>3. Len(to_writer) - 1 <= WriterQueue
  BY <1>1, <1>2 DEF QueueAssumption
<1>4. QED BY <1>1, <1>2, <1>3

LEMMA MainFields ==
  ASSUME Inv
  PROVE  /\ main = [pc |-> main.pc, todo |-> main.todo, entry |-> main.entry]
         /\ main.pc \in {"idle", "get", "put", "flush", "done"}
         /\ main.todo \in Seq(Places) /\ main.entry \in Entries \cup {NoEntry}
BY DEF Inv, Typed, MainTyped

LEMMA ReadFields ==
  ASSUME Inv
  PROVE  /\ pending \in SUBSET Entries /\ error \in SUBSET Entries
         /\ data \in [Entries -> Written]
         /\ to_reader \in Seq(Entries) /\ reader \in Entries \cup {NoEntry}
         /\ to_deflate \in Seq(Entries) /\ deflator \in [Deflators -> Entries \cup {NoEntry}]
BY DEF Inv, Typed, ReadTyped

(* A text that is uncompressed in its buffer.                              *)
LEMMA PlainIs ==
  ASSUME NEW w \in Written
  PROVE  w = <<w[1], w[2]>> /\ [w EXCEPT ![2] = "plain"] = <<w[1], "plain">>
         /\ <<w[1], "plain">> \in Written
<1>1. PICK x \in Texts, y \in {"raw", "plain"} : w = <<x, y>>
  BY DEF Written
<1>2. [<<x, y>> EXCEPT ![2] = "plain"] = <<x, "plain">>
  OBVIOUS
<1>3. QED BY <1>1, <1>2 DEF Written

LEMMA MainTypedStep ==
  ASSUME Inv, [Next]_vars
  PROVE  MainTyped'
<1> USE MainFields DEF MainTyped
<1>1. Idle \in [pc : {"idle", "get", "put", "flush", "done"}, todo : Seq(Places),
                entry : Entries \cup {NoEntry}]
  <2>1. <<>> \in Seq(Places)
    OBVIOUS
  <2>2. QED BY <2>1 DEF Idle
<1>2. CASE WriteFile
  <2>1. PICK content \in Contents :
          main' = IF content = <<>> THEN Idle
                  ELSE [pc |-> "get", todo |-> content, entry |-> NoEntry]
    BY <1>2 DEF WriteFile
  <2>2. content \in Seq(Places)
    BY ContentIs
  <2>3. QED BY <1>1, <2>1, <2>2
<1>3. CASE CacheGet
  <2>1. PICK e \in Entries : main' = [main EXCEPT !.pc = "put", !.entry = e]
    BY <1>3, GetEffect
  <2>2. QED BY <2>1
<1>4. CASE SparseBlock
  BY <1>4 DEF SparseBlock
<1>5. CASE PutBlock
  <2>1. main.pc = "put"
    BY <1>5 DEF PutBlock
  <2>2. main.todo \in Seq(Places) /\ main.todo # <<>>
    BY <2>1, MainAsks
  <2>3. Tail(main.todo) \in Seq(Places)
    BY <2>2, TailIs
  <2>4. QED BY <1>1, <1>5, <2>3 DEF PutBlock
<1>6. CASE Finish
  BY <1>6 DEF Finish
<1>7. CASE Finished
  BY <1>7 DEF Finished
<1>8. CASE UNCHANGED main
  BY <1>8
<1>9. QED
  <2>1. TakeRead \/ Read \/ (\E d \in Deflators : TakeDeflate(d) \/ Uncompress(d))
          \/ TakeItem \/ WriteBlock \/ CloseFile \/ UNCHANGED vars => UNCHANGED main
    BY DEF TakeRead, Read, TakeDeflate, Uncompress, TakeItem, WriteBlock, CloseFile, vars
  <2>2. QED BY <1>2, <1>3, <1>4, <1>5, <1>6, <1>7, <1>8, <2>1, NextCases

LEMMA CachesStep ==
  ASSUME Inv, [Next]_vars
  PROVE  CachesKept'
<1>1. CASE CacheGet
  BY <1>1, GetEffect
<1>2. CASE WriteBlock
  BY <1>2, WriteEffect
<1>3. CASE UNCHANGED cache
  BY <1>3, CachesSame DEF Inv, Typed
<1>4. QED
  <2>1. WriteFile \/ SparseBlock \/ PutBlock \/ Finish \/ Finished \/ TakeRead \/ Read
          \/ (\E d \in Deflators : TakeDeflate(d) \/ Uncompress(d))
          \/ TakeItem \/ CloseFile \/ UNCHANGED vars => UNCHANGED cache
    BY DEF WriteFile, SparseBlock, PutBlock, Finish, Finished, TakeRead, Read, TakeDeflate,
           Uncompress, TakeItem, CloseFile, vars, cacheVars
  <2>2. QED BY <1>1, <1>2, <1>3, <2>1, NextCases

LEMMA ReadTypedStep ==
  ASSUME Inv, [Next]_vars
  PROVE  ReadTyped'
<1> USE ReadFields DEF ReadTyped
<1>1. CASE CacheGet
  <2>1. UNCHANGED <<data, reader, to_deflate, deflator>>
    BY <1>1 DEF CacheGet
  <2>2. PICK e \in Entries :
          \/ UNCHANGED <<pending, error, to_reader>>
          \/ /\ pending' = pending \cup {e} /\ error' = error \ {e}
             /\ to_reader' = Append(to_reader, e)
    BY <1>1, GetEffect
  <2>3. Append(to_reader, e) \in Seq(Entries)
    BY AppendIs
  <2>4. QED BY <2>1, <2>2, <2>3
<1>2. CASE TakeRead
  <2>1. /\ to_reader # <<>> /\ reader' = Head(to_reader) /\ to_reader' = Tail(to_reader)
        /\ UNCHANGED <<pending, error, data, to_deflate, deflator>>
    BY <1>2 DEF TakeRead, cacheVars
  <2>2. Head(to_reader) \in Entries /\ Tail(to_reader) \in Seq(Entries)
    BY <2>1, TailIs
  <2>3. QED BY <2>1, <2>2
<1>3. CASE Read
  <2>1. PICK e : e = reader
    OBVIOUS
  <2>2. e \in Entries /\ reader' = NoEntry /\ UNCHANGED <<to_reader, deflator>>
    BY <1>3, <2>1 DEF Read
  <2>3. /\ <<Block(e), "raw">> \in Written /\ <<Block(e), "plain">> \in Written
        /\ <<NoEntry, "raw">> \in Written
    <3>1. Block(e) \in Texts /\ NoEntry \in Texts
      BY <2>2, CachesAre DEF Inv, Typed, Texts
    <3>2. QED BY <3>1 DEF Written
  <2>4. \E w \in Written : data' = [data EXCEPT ![e] = w]
    BY <1>3, <2>1, <2>3 DEF Read
  <2>5. data' \in [Entries -> Written]
    BY <2>4
  <2>6. pending' \in SUBSET Entries /\ error' \in SUBSET Entries
    BY <1>3, <2>1, <2>2 DEF Read, BlockReady
  <2>7. to_deflate' \in Seq(Entries)
    <3>1. Append(to_deflate, e) \in Seq(Entries)
      BY <2>2, AppendIs
    <3>2. QED BY <1>3, <2>1, <3>1 DEF Read
  <2>8. QED BY <2>2, <2>5, <2>6, <2>7
<1>4. ASSUME NEW d \in Deflators, TakeDeflate(d) PROVE ReadTyped'
  <2>1. /\ to_deflate # <<>> /\ deflator' = [deflator EXCEPT ![d] = Head(to_deflate)]
        /\ to_deflate' = Tail(to_deflate)
        /\ UNCHANGED <<pending, error, data, to_reader, reader>>
    BY <1>4 DEF TakeDeflate, cacheVars
  <2>2. Head(to_deflate) \in Entries /\ Tail(to_deflate) \in Seq(Entries)
    BY <2>1, TailIs
  <2>3. deflator' \in [Deflators -> Entries \cup {NoEntry}]
    BY <2>1, <2>2
  <2>4. QED BY <2>1, <2>2, <2>3
<1>5. ASSUME NEW d \in Deflators, Uncompress(d) PROVE ReadTyped'
  <2>1. PICK e : e = deflator[d]
    OBVIOUS
  <2>2. /\ e \in Entries /\ deflator' = [deflator EXCEPT ![d] = NoEntry]
        /\ UNCHANGED <<to_reader, reader, to_deflate>>
    BY <1>5, <2>1 DEF Uncompress
  <2>3. PICK failed \in BOOLEAN :
          /\ data' = IF failed THEN data ELSE [data EXCEPT ![e][2] = "plain"]
          /\ BlockReady(e, failed)
    BY <1>5, <2>1 DEF Uncompress
  <2>4. data' \in [Entries -> Written]
    <3>1. [data EXCEPT ![e][2] = "plain"] = [data EXCEPT ![e] = <<data[e][1], "plain">>]
      BY <2>2, PlainIs
    <3>2. <<data[e][1], "plain">> \in Written
      BY <2>2, PlainIs
    <3>3. QED BY <2>3, <3>1, <3>2
  <2>5. pending' \in SUBSET Entries /\ error' \in SUBSET Entries
    BY <2>2, <2>3 DEF BlockReady
  <2>6. deflator' \in [Deflators -> Entries \cup {NoEntry}]
    BY <2>2
  <2>7. QED BY <2>2, <2>4, <2>5, <2>6
<1>6. CASE UNCHANGED <<pending, error, data, readVars>>
  BY <1>6, ReadSame
<1>7. QED
  <2>1. WriteFile \/ SparseBlock \/ PutBlock \/ Finish \/ Finished
          \/ TakeItem \/ WriteBlock \/ CloseFile \/ UNCHANGED vars
          => UNCHANGED <<pending, error, data, readVars>>
    BY DEF WriteFile, SparseBlock, PutBlock, Finish, Finished, TakeItem, WriteBlock,
           CloseFile, vars, cacheVars
  <2>2. QED BY <1>1, <1>2, <1>3, <1>4, <1>5, <1>6, <2>1, NextCases

LEMMA WriterSpace ==
  LET space == [pc : {"idle", "file"}, content : Seq(Places), left : Nat,
                entry : Entries \cup {NoEntry}, failed : BOOLEAN, written : Seq(Written)]
  IN IdleWriter \in space /\ \A l \in Seq(Places) :
       [IdleWriter EXCEPT !.pc = "file", !.content = l, !.left = Len(l)] \in space
<1>1. \A S : <<>> \in Seq(S)
  OBVIOUS
<1>2. <<>> \in Seq(Places) /\ <<>> \in Seq(Written)
  BY <1>1
<1>3. \A l \in Seq(Places) : Len(l) \in Nat
  OBVIOUS
<1>4. QED BY <1>2, <1>3 DEF IdleWriter

LEMMA WriterTypedStep ==
  ASSUME Inv, [Next]_vars
  PROVE  WriterTyped'
<1>0. WriterTyped
  BY DEF Inv, Typed
<1>1. ASSUME NEW x \in Items, PutToWriter(x), UNCHANGED <<writer, from_writer>>
      PROVE  WriterTyped'
  BY <1>0, <1>1, PutIs DEF WriterTyped
<1>2. CASE WriteFile
  <2>1. PICK content \in Contents : PutToWriter([file |-> content])
    BY <1>2 DEF WriteFile
  <2>2. [file |-> content] \in Items
    BY ContentIs, ItemIs DEF Items
  <2>3. UNCHANGED <<writer, from_writer>>
    BY <1>2 DEF WriteFile
  <2>4. QED BY <1>1, <2>1, <2>2, <2>3
<1>3. CASE PutBlock
  <2>1. PICK x : x = [entry |-> main.entry]
    OBVIOUS
  <2>2. x \in Items
    BY <2>1, MainFields DEF Items
  <2>3. PutToWriter(x) /\ UNCHANGED <<writer, from_writer>>
    BY <1>3, <2>1 DEF PutBlock
  <2>4. QED BY <1>1, <2>2, <2>3
<1>4. CASE Finish
  <2>1. PutToWriter(Flush) /\ UNCHANGED <<writer, from_writer>>
    BY <1>4 DEF Finish, Flush
  <2>2. Flush \in Items
    BY DEF Items
  <2>3. QED BY <1>1, <2>1, <2>2
<1>5. CASE Finished
  <2>1. from_writer # <<>> /\ from_writer' = Tail(from_writer) /\ UNCHANGED <<to_writer, writer>>
    BY <1>5 DEF Finished
  <2>2. /\ Tail(from_writer) \in Seq({Flush}) /\ Len(Tail(from_writer)) = Len(from_writer) - 1
        /\ Len(from_writer) \in Nat
    BY <1>0, <2>1, TailIs DEF WriterTyped
  <2>3. from_writer' \in Seq({Flush}) /\ Len(from_writer') <= 1
    BY <1>0, <2>1, <2>2 DEF WriterTyped
  <2>4. QED BY <1>0, <2>1, <2>3 DEF WriterTyped
<1>6. CASE TakeItem
  <2>1. to_writer # <<>> /\ to_writer' = Tail(to_writer)
    BY <1>6, TakeIs
  <2>2. to_writer' \in Seq(Items) /\ Len(to_writer') <= WriterQueue
    BY <2>1, TakeTyped
  <2>3. CASE /\ from_writer' = <<Flush>> /\ UNCHANGED writer
    <3>1. <<Flush>> \in Seq({Flush}) /\ Len(<<Flush>>) <= 1
      OBVIOUS
    <3>2. QED BY <1>0, <2>2, <2>3, <3>1 DEF WriterTyped
  <2>4. CASE /\ UNCHANGED from_writer
             /\ \E l \in Seq(Places) : writer' =
                  [IdleWriter EXCEPT !.pc = "file", !.content = l, !.left = Len(l)]
    BY <1>0, <2>2, <2>4, WriterSpace DEF WriterTyped
  <2>5. CASE /\ UNCHANGED from_writer /\ writer.left > 0
             /\ \E e \in Entries \cup {NoEntry} :
                    writer' = IF e = NoEntry
                         THEN [writer EXCEPT !.left = @ - 1,
                                             !.written = Append(@, <<Hole, "plain">>)]
                         ELSE [writer EXCEPT !.entry = e]
    <3>1. writer.left - 1 \in Nat
      BY <2>5, WriterFields
    <3>2. Append(writer.written, <<Hole, "plain">>) \in Seq(Written)
      <4>1. <<Hole, "plain">> \in Written
        BY DEF Written, Texts
      <4>2. QED BY <4>1, WriterFields, AppendIs
    <3>3. writer' \in [pc : {"idle", "file"}, content : Seq(Places), left : Nat,
                 entry : Entries \cup {NoEntry}, failed : BOOLEAN, written : Seq(Written)]
      BY <1>0, <2>5, <3>1, <3>2 DEF WriterTyped
    <3>4. QED BY <1>0, <2>2, <2>5, <3>3 DEF WriterTyped
  <2>6. QED BY <1>6, <2>3, <2>4, <2>5, TakeIs
<1>7. CASE WriteBlock
  <2>1. PICK e \in Entries :
          /\ writer.entry = e
          /\ \/ writer' = [writer EXCEPT !.left = @ - 1, !.entry = NoEntry, !.failed = TRUE]
             \/ writer' = [writer EXCEPT !.left = @ - 1, !.entry = NoEntry,
                                         !.written = Append(@, data[e])]
    BY <1>7, WriteEffect
  <2>2. writer.left - 1 \in Nat
    <3>1. writer.left # 0
      BY <2>1, EntryIs DEF Inv, WriterHolds
    <3>2. QED BY <3>1, WriterFields
  <2>3. Append(writer.written, data[e]) \in Seq(Written)
    <3>1. data[e] \in Written
      BY ReadFields
    <3>2. QED BY <3>1, WriterFields, AppendIs
  <2>4. writer' \in [pc : {"idle", "file"}, content : Seq(Places), left : Nat,
                 entry : Entries \cup {NoEntry}, failed : BOOLEAN, written : Seq(Written)]
    BY <1>0, <2>1, <2>2, <2>3 DEF WriterTyped
  <2>5. UNCHANGED <<to_writer, from_writer>>
    BY <1>7 DEF WriteBlock
  <2>6. QED BY <1>0, <2>4, <2>5 DEF WriterTyped
<1>8. CASE CloseFile
  <2>1. writer' = IdleWriter /\ UNCHANGED <<to_writer, from_writer>>
    BY <1>8 DEF CloseFile
  <2>2. QED BY <1>0, <2>1, WriterSpace DEF WriterTyped
<1>9. CASE UNCHANGED <<to_writer, writer, from_writer>>
  BY <1>0, <1>9 DEF WriterTyped
<1>10. QED
  <2>1. CacheGet \/ SparseBlock \/ TakeRead \/ Read
          \/ (\E d \in Deflators : TakeDeflate(d) \/ Uncompress(d)) \/ UNCHANGED vars
          => UNCHANGED <<to_writer, writer, from_writer>>
    BY DEF CacheGet, SparseBlock, TakeRead, Read, TakeDeflate, Uncompress, vars
  <2>2. QED BY <1>2, <1>3, <1>4, <1>5, <1>6, <1>7, <1>8, <1>9, <2>1, NextCases

LEMMA FilesTypedStep ==
  ASSUME Inv, [Next]_vars
  PROVE  FilesTyped'
<1>1. files \in [created : Nat, kept : Nat, unlinked : Nat]
  BY DEF Inv, Typed, FilesTyped
<1>2. CASE WriteFile
  BY <1>1, <1>2 DEF WriteFile, FilesTyped
<1>3. CASE CloseFile
  BY <1>1, <1>3 DEF CloseFile, FilesTyped
<1>4. CASE UNCHANGED files
  BY <1>1, <1>4 DEF FilesTyped
<1>5. QED
  <2>1. CacheGet \/ SparseBlock \/ PutBlock \/ Finish \/ Finished \/ TakeRead \/ Read
          \/ (\E d \in Deflators : TakeDeflate(d) \/ Uncompress(d))
          \/ TakeItem \/ WriteBlock \/ UNCHANGED vars => UNCHANGED files
    BY DEF CacheGet, SparseBlock, PutBlock, Finish, Finished, TakeRead, Read, TakeDeflate,
           Uncompress, TakeItem, WriteBlock, vars
  <2>2. QED BY <1>2, <1>3, <1>4, <2>1, NextCases

LEMMA TypedStep ==
  ASSUME Inv, [Next]_vars
  PROVE  Typed'
BY CachesStep, ReadTypedStep, MainTypedStep, WriterTypedStep, FilesTypedStep DEF Typed

-----------------------------------------------------------------------------
(* Reading.                                                                *)
LEMMA ReadingIs ==
  ASSUME Inv
  PROVE  /\ IsInjective(to_reader) /\ IsInjective(to_deflate)
         /\ \A d, e \in Deflators : deflator[d] = deflator[e] /\ deflator[d] # NoEntry => d = e
         /\ Range(to_reader) \cap Taken = {}
         /\ Range(to_reader) \cap Range(to_deflate) = {}
         /\ Range(to_reader) \cap Deflating = {}
         /\ Range(to_deflate) \cap Taken = {}
         /\ Range(to_deflate) \cap Deflating = {}
         /\ Deflating \cap Taken = {}
         /\ pending = Range(to_reader) \cup Range(to_deflate) \cup Taken \cup Deflating
         /\ \A e \in pending : Used(e) # 0
BY DEF Inv, Reading

LEMMA DeflatorTakes ==
  ASSUME Inv, NEW d \in Deflators, deflator[d] = NoEntry, NEW e \in Entries,
         e \notin Deflating, deflator' = [deflator EXCEPT ![d] = e]
  PROVE  /\ Deflating' = Deflating \cup {e}
         /\ \A c, f \in Deflators :
              deflator'[c] = deflator'[f] /\ deflator'[c] # NoEntry => c = f
<1>1. deflator \in [Deflators -> Entries \cup {NoEntry}] /\ e # NoEntry
  BY ReadFields, EntryIs
<1>2. deflator'[d] = e /\ \A c \in Deflators : c # d => deflator'[c] = deflator[c]
  BY <1>1
<1>3. Deflating' = Deflating \cup {e}
  BY <1>1, <1>2 DEF Deflating
<1>4. \A c \in Deflators : deflator[c] # e
  BY <1>1 DEF Deflating
<1>5. QED BY <1>2, <1>3, <1>4, ReadingIs

LEMMA DeflatorReturns ==
  ASSUME Inv, NEW d \in Deflators, NEW e \in Entries, deflator[d] = e,
         deflator' = [deflator EXCEPT ![d] = NoEntry]
  PROVE  /\ Deflating' = Deflating \ {e} /\ e \in Deflating
         /\ \A c, f \in Deflators :
              deflator'[c] = deflator'[f] /\ deflator'[c] # NoEntry => c = f
<1>1. deflator \in [Deflators -> Entries \cup {NoEntry}] /\ e # NoEntry
  BY ReadFields, EntryIs
<1>2. deflator'[d] = NoEntry /\ \A c \in Deflators : c # d => deflator'[c] = deflator[c]
  BY <1>1
<1>3. \A c \in Deflators : c # d => deflator[c] # e
  BY <1>1, ReadingIs
<1>4. Deflating' = Deflating \ {e} /\ e \in Deflating
  BY <1>1, <1>2, <1>3 DEF Deflating
<1>5. QED BY <1>2, <1>4, ReadingIs

LEMMA ReadingStep ==
  ASSUME Inv, [Next]_vars
  PROVE  Reading'
<1> DEFINE R == Range(to_reader)
           Z == Range(to_deflate)
           Once == /\ IsInjective(to_reader) /\ IsInjective(to_deflate)
                   /\ \A d, e \in Deflators :
                        deflator[d] = deflator[e] /\ deflator[d] # NoEntry => d = e
           Apart == /\ R \cap Taken = {} /\ R \cap Z = {} /\ R \cap Deflating = {}
                    /\ Z \cap Taken = {} /\ Z \cap Deflating = {} /\ Deflating \cap Taken = {}
                    /\ pending = R \cup Z \cup Taken \cup Deflating
<1>1. Once /\ Apart /\ \A e \in pending : Used(e) # 0
  BY ReadingIs
<1>2. ASSUME Once', Apart', \A e \in pending' : Used(e)' # 0 PROVE Reading'
  BY <1>2 DEF Reading
<1>3. CASE CacheGet
  <2>1. UNCHANGED <<reader, to_deflate, deflator>>
    BY <1>3 DEF CacheGet
  <2>2. PICK e \in Entries :
          /\ \A x \in Entries : x # e => Used(x)' = Used(x)
          /\ \/ /\ Used(e)' = Used(e) + 1 /\ UNCHANGED <<pending, error, to_reader>>
             \/ /\ Used(e) = 0 /\ Used(e)' = 1
                /\ pending' = pending \cup {e} /\ to_reader' = Append(to_reader, e)
    BY <1>3, GetEffect
  <2>3. Used(e) \in Nat
    BY CachesAre DEF Inv, Typed
  <2>4. \A x \in pending' : Used(x)' # 0
    BY <1>1, <2>2, <2>3, ReadFields
  <2>5. CASE UNCHANGED <<pending, to_reader>>
    BY <1>1, <1>2, <2>1, <2>4, <2>5 DEF Taken, Deflating
  <2>6. CASE /\ Used(e) = 0 /\ pending' = pending \cup {e}
             /\ to_reader' = Append(to_reader, e)
    <3>1. e \notin pending
      BY <2>6, HeldIs
    <3>2. e \notin R
      BY <1>1, <3>1
    <3>3. R' = R \cup {e} /\ IsInjective(to_reader')
      BY <1>1, <2>6, <3>2, ReadFields, AppendOnce
    <3>4. Once'
      BY <1>1, <2>1, <3>3
    <3>5. Apart'
      <4>1. Taken' = Taken /\ Deflating' = Deflating /\ Z' = Z
        BY <2>1 DEF Taken, Deflating
      <4> HIDE DEF R, Z
      <4>2. QED BY <1>1, <2>6, <3>1, <3>3, <4>1
    <3>6. QED BY <1>2, <2>4, <3>4, <3>5
  <2>7. QED BY <2>2, <2>5, <2>6
<1>4. CASE TakeRead
  <2>1. PICK e : e = Head(to_reader)
    OBVIOUS
  <2>2. /\ reader = NoEntry /\ to_reader # <<>> /\ reader' = e /\ to_reader' = Tail(to_reader)
        /\ UNCHANGED <<pending, cache, to_deflate, deflator>>
    BY <1>4, <2>1 DEF TakeRead, cacheVars
  <2>3. /\ IsInjective(to_reader') /\ R' = R \ {e} /\ e \in R /\ e \in Entries
    <3>1. to_reader \in Seq(Entries) /\ to_reader # <<>> /\ IsInjective(to_reader)
      BY <1>1, <2>2, ReadFields
    <3>2. /\ IsInjective(Tail(to_reader)) /\ Range(Tail(to_reader)) = Range(to_reader) \ {e}
          /\ e \in Range(to_reader)
      BY <2>1, <3>1, TailOnce
    <3>3. e \in Entries
      BY <2>1, <3>1, TailIs
    <3>4. QED BY <2>2, <3>2, <3>3
  <2>4. Taken = {} /\ Taken' = {e} /\ Deflating' = Deflating /\ Z' = Z
    BY <2>2, <2>3, EntryIs DEF Taken, Deflating
  <2>5. Once'
    BY <1>1, <2>2, <2>3
  <2>6. \A x \in pending' : Used(x)' # 0
    BY <1>1, <2>2, CacheStill
  <2>7. Apart'
    <3> HIDE DEF R, Z
    <3>1. QED BY <1>1, <2>2, <2>3, <2>4
  <2>8. QED BY <1>2, <2>5, <2>6, <2>7
<1>5. CASE Read
  <2>1. PICK e : e = reader
    OBVIOUS
  <2>2. /\ e \in Entries /\ reader' = NoEntry /\ e # NoEntry
        /\ UNCHANGED <<cache, to_reader, deflator>>
    BY <1>5, <2>1, ReadFields, EntryIs DEF Read
  <2>3. Taken = {e} /\ Taken' = {} /\ Deflating' = Deflating /\ R' = R
    BY <2>1, <2>2 DEF Taken, Deflating
  <2>4. \/ to_deflate' = Append(to_deflate, e) /\ UNCHANGED pending
        \/ pending' = pending \ {e} /\ UNCHANGED to_deflate
    BY <1>5, <2>1 DEF Read, BlockReady
  <2>5. \A x \in pending' : Used(x)' # 0
    BY <1>1, <2>2, <2>4, CacheStill
  <2>6. CASE to_deflate' = Append(to_deflate, e) /\ UNCHANGED pending
    <3>1. e \notin Z
      BY <1>1, <2>3
    <3>2. Z' = Z \cup {e} /\ IsInjective(to_deflate')
      BY <1>1, <2>2, <2>6, <3>1, ReadFields, AppendOnce
    <3>3. Once'
      BY <1>1, <2>2, <3>2
    <3>4. Apart'
      <4> HIDE DEF R, Z
      <4>1. QED BY <1>1, <2>3, <2>6, <3>1, <3>2
    <3>5. QED BY <1>2, <2>5, <3>3, <3>4
  <2>7. CASE pending' = pending \ {e} /\ UNCHANGED to_deflate
    <3>1. Once'
      BY <1>1, <2>2, <2>7
    <3>2. Z' = Z
      BY <2>7
    <3>3. Apart'
      <4> HIDE DEF R, Z
      <4>1. QED BY <1>1, <2>3, <2>7, <3>2
    <3>4. QED BY <1>2, <2>5, <3>1, <3>3
  <2>8. QED BY <2>4, <2>6, <2>7
<1>6. ASSUME NEW d \in Deflators, TakeDeflate(d) PROVE Reading'
  <2>1. PICK e : e = Head(to_deflate)
    OBVIOUS
  <2>2. /\ deflator[d] = NoEntry /\ to_deflate # <<>>
        /\ deflator' = [deflator EXCEPT ![d] = e] /\ to_deflate' = Tail(to_deflate)
        /\ UNCHANGED <<pending, cache, to_reader, reader>>
    BY <1>6, <2>1 DEF TakeDeflate, cacheVars
  <2>3. /\ IsInjective(to_deflate') /\ Z' = Z \ {e} /\ e \in Z /\ e \in Entries
    <3>1. to_deflate \in Seq(Entries) /\ to_deflate # <<>> /\ IsInjective(to_deflate)
      BY <1>1, <2>2, ReadFields
    <3>2. /\ IsInjective(Tail(to_deflate)) /\ Range(Tail(to_deflate)) = Range(to_deflate) \ {e}
          /\ e \in Range(to_deflate)
      BY <2>1, <3>1, TailOnce
    <3>3. e \in Entries
      BY <2>1, <3>1, TailIs
    <3>4. QED BY <2>2, <3>2, <3>3
  <2>4. e \notin Deflating
    BY <1>1, <2>3
  <2>5. /\ Deflating' = Deflating \cup {e}
        /\ \A c, f \in Deflators :
             deflator'[c] = deflator'[f] /\ deflator'[c] # NoEntry => c = f
    BY <2>2, <2>3, <2>4, DeflatorTakes
  <2>6. Taken' = Taken /\ R' = R
    BY <2>2 DEF Taken
  <2>7. Once'
    BY <1>1, <2>2, <2>3, <2>5
  <2>8. \A x \in pending' : Used(x)' # 0
    BY <1>1, <2>2, CacheStill
  <2>9. Apart'
    <3> HIDE DEF R, Z
    <3>1. QED BY <1>1, <2>2, <2>3, <2>5, <2>6
  <2>10. QED BY <1>2, <2>7, <2>8, <2>9
<1>7. ASSUME NEW d \in Deflators, Uncompress(d) PROVE Reading'
  <2>1. PICK e : e = deflator[d]
    OBVIOUS
  <2>2. /\ e \in Entries /\ deflator' = [deflator EXCEPT ![d] = NoEntry]
        /\ UNCHANGED <<cache, to_reader, reader, to_deflate>>
    BY <1>7, <2>1, ReadFields DEF Uncompress
  <2>3. pending' = pending \ {e}
    BY <1>7, <2>1 DEF Uncompress, BlockReady
  <2>4. /\ Deflating' = Deflating \ {e} /\ e \in Deflating
        /\ \A c, f \in Deflators :
             deflator'[c] = deflator'[f] /\ deflator'[c] # NoEntry => c = f
    BY <2>1, <2>2, DeflatorReturns
  <2>5. Taken' = Taken /\ R' = R /\ Z' = Z
    BY <2>2 DEF Taken
  <2>6. Once'
    BY <1>1, <2>2, <2>4
  <2>7. \A x \in pending' : Used(x)' # 0
    BY <1>1, <2>2, <2>3, CacheStill
  <2>8. Apart'
    <3> HIDE DEF R, Z
    <3>1. QED BY <1>1, <2>3, <2>4, <2>5
  <2>9. QED BY <1>2, <2>6, <2>7, <2>8
<1>8. CASE WriteBlock
  <2>1. UNCHANGED <<pending, readVars>>
    BY <1>8 DEF WriteBlock
  <2>2. PICK e \in Entries :
          e \notin pending /\ \A x \in Entries : x # e => Used(x)' = Used(x)
    BY <1>8, WriteEffect
  <2>3. \A x \in pending' : Used(x)' # 0
    BY <1>1, <2>1, <2>2, ReadFields
  <2>4. QED BY <1>1, <1>2, <2>1, <2>3 DEF Taken, Deflating, readVars
<1>9. CASE UNCHANGED <<cache, pending, readVars>>
  <2>1. \A x \in pending' : Used(x)' # 0
    BY <1>1, <1>9, CacheStill
  <2>2. QED BY <1>1, <1>2, <1>9, <2>1 DEF Taken, Deflating, readVars
<1>10. QED
  <2>1. WriteFile \/ SparseBlock \/ PutBlock \/ Finish \/ Finished \/ TakeItem \/ CloseFile
          \/ UNCHANGED vars => UNCHANGED <<cache, pending, readVars>>
    BY DEF WriteFile, SparseBlock, PutBlock, Finish, Finished, TakeItem, CloseFile, vars, cacheVars
  <2>2. QED BY <1>3, <1>4, <1>5, <1>6, <1>7, <1>8, <1>9, <2>1, NextCases

-----------------------------------------------------------------------------
(* Holding.                                                                *)
LEMMA ItemsPut ==
  ASSUME Inv, NEW x \in Items, PutToWriter(x), NEW S
  PROVE  CountIn(to_writer', S) = CountIn(to_writer, S) + (IF x \in S THEN 1 ELSE 0)
BY WriterFields, CountAppend DEF PutToWriter

LEMMA ItemsTake ==
  ASSUME Inv, to_writer # <<>>, to_writer' = Tail(to_writer), NEW item,
         item = Head(to_writer), NEW S
  PROVE  CountIn(to_writer, S) = CountIn(to_writer', S) + (IF item \in S THEN 1 ELSE 0)
BY WriterFields, CountTail

LEMMA ItemsNext ==
  ASSUME Inv, [Next]_vars, NEW S
  PROVE  CountIn(to_writer', S) \in Nat
<1>1. to_writer' \in Seq(Items)
  BY WriterTypedStep DEF WriterTyped
<1>2. QED BY <1>1, CountFinite

LEMMA HoldingStep ==
  ASSUME Inv, [Next]_vars
  PROVE  Holding'
<1> SUFFICES ASSUME NEW e \in Entries
             PROVE  ItemsOf(e)' + MainHas(e)' + WriterHas(e)' <= Used(e)'
  BY DEF Holding
<1>1. /\ ItemsOf(e) \in Nat /\ MainHas(e) \in {0, 1} /\ WriterHas(e) \in {0, 1}
      /\ Used(e) \in Nat /\ ItemsOf(e) + MainHas(e) + WriterHas(e) <= Used(e)
  BY HeldIs
<1>2. ItemsOf(e) = CountIn(to_writer, {[entry |-> e]})
      /\ ItemsOf(e)' = CountIn(to_writer', {[entry |-> e]})
      /\ ItemsOf(e)' \in Nat
  BY ItemsNext DEF ItemsOf
<1>3. e # NoEntry
  BY EntryIs
<1>4. CASE WriteFile
  <2>1. PICK content \in Contents :
          /\ PutToWriter([file |-> content])
          /\ main' = IF content = <<>> THEN Idle
                     ELSE [pc |-> "get", todo |-> content, entry |-> NoEntry]
    BY <1>4 DEF WriteFile
  <2>2. [file |-> content] \in Items /\ [file |-> content] \notin {[entry |-> e]}
    BY ContentIs, ItemIs DEF Items
  <2>3. ItemsOf(e)' = ItemsOf(e)
    BY <1>1, <1>2, <2>1, <2>2, ItemsPut
  <2>4. MainHas(e)' = 0
    BY <2>1 DEF MainHas, Idle
  <2>5. WriterHas(e)' = WriterHas(e) /\ Used(e)' = Used(e)
    BY <1>4, CacheStill DEF WriteFile, WriterHas, cacheVars
  <2>6. QED BY <1>1, <2>3, <2>4, <2>5
<1>5. CASE CacheGet
  <2>1. main.pc = "get" /\ UNCHANGED <<to_writer, writer>>
    BY <1>5 DEF CacheGet
  <2>2. MainHas(e) = 0 /\ ItemsOf(e)' = ItemsOf(e) /\ WriterHas(e)' = WriterHas(e)
    BY <2>1 DEF MainHas, ItemsOf, WriterHas
  <2>3. PICK x \in Entries :
          /\ main' = [main EXCEPT !.pc = "put", !.entry = x]
          /\ \A y \in Entries : y # x => Used(y)' = Used(y)
          /\ Used(x)' = Used(x) + 1 \/ (Used(x) = 0 /\ Used(x)' = 1)
    BY <1>5, GetEffect
  <2>4. MainHas(e)' = IF x = e THEN 1 ELSE 0
    BY <2>3, MainFields DEF MainHas
  <2>5. Used(e)' = Used(e) + (IF x = e THEN 1 ELSE 0)
    BY <1>1, <2>3
  <2>6. QED BY <1>1, <2>2, <2>4, <2>5
<1>6. CASE SparseBlock
  <2>1. /\ main' = [main EXCEPT !.pc = "put", !.entry = NoEntry]
        /\ UNCHANGED <<to_writer, writer, cache>>
    BY <1>6 DEF SparseBlock, cacheVars
  <2>2. MainHas(e)' = 0
    BY <1>3, <2>1, MainFields DEF MainHas
  <2>3. ItemsOf(e)' = ItemsOf(e) /\ WriterHas(e)' = WriterHas(e) /\ Used(e)' = Used(e)
    BY <2>1, CacheStill DEF ItemsOf, WriterHas
  <2>4. QED BY <1>1, <2>2, <2>3
<1>7. CASE PutBlock
  <2>1. PICK x : x = [entry |-> main.entry]
    OBVIOUS
  <2>2. PutToWriter(x) /\ x \in Items /\ main.pc = "put"
    BY <1>7, <2>1, MainFields DEF PutBlock, Items
  <2>3. x \in {[entry |-> e]} <=> main.entry = e
    BY <2>1, ItemIs
  <2>4. ItemsOf(e)' = ItemsOf(e) + MainHas(e)
    BY <1>2, <2>2, <2>3, ItemsPut DEF MainHas
  <2>5. MainHas(e)' = 0
    BY <1>7 DEF PutBlock, MainHas, Idle
  <2>6. WriterHas(e)' = WriterHas(e) /\ Used(e)' = Used(e)
    BY <1>7, CacheStill DEF PutBlock, WriterHas, cacheVars
  <2>7. QED BY <1>1, <2>4, <2>5, <2>6
<1>8. CASE Finish
  <2>1. PutToWriter(Flush) /\ Flush \in Items /\ Flush \notin {[entry |-> e]}
    BY <1>8, ItemIs DEF Finish, Flush, Items
  <2>2. ItemsOf(e)' = ItemsOf(e)
    BY <1>1, <1>2, <2>1, ItemsPut
  <2>3. MainHas(e)' = 0
    BY <1>8, MainFields DEF Finish, MainHas
  <2>4. WriterHas(e)' = WriterHas(e) /\ Used(e)' = Used(e)
    BY <1>8, CacheStill DEF Finish, WriterHas, cacheVars
  <2>5. QED BY <1>1, <2>2, <2>3, <2>4
<1>9. CASE Finished
  <2>1. MainHas(e)' = 0
    BY <1>9, MainFields DEF Finished, MainHas
  <2>2. ItemsOf(e)' = ItemsOf(e) /\ WriterHas(e)' = WriterHas(e) /\ Used(e)' = Used(e)
    BY <1>9, CacheStill DEF Finished, ItemsOf, WriterHas, cacheVars
  <2>3. QED BY <1>1, <2>1, <2>2
<1>10. CASE TakeItem
  <2>1. PICK item : item = Head(to_writer)
    OBVIOUS
  <2>2. to_writer # <<>> /\ to_writer' = Tail(to_writer) /\ writer.entry = NoEntry
    BY <1>10, TakeIs
  <2>3. ItemsOf(e) = ItemsOf(e)' + (IF item \in {[entry |-> e]} THEN 1 ELSE 0)
    BY <1>2, <2>1, <2>2, ItemsTake
  <2>4. WriterHas(e) = 0
    BY <1>3, <2>2 DEF WriterHas
  <2>5. MainHas(e)' = MainHas(e) /\ Used(e)' = Used(e)
    BY <1>10, CacheStill DEF TakeItem, MainHas, cacheVars
  <2>6. WriterHas(e)' = 1 => item \in {[entry |-> e]}
    <3>1. CASE UNCHANGED writer
      BY <2>4, <3>1 DEF WriterHas
    <3>2. CASE \E l \in Seq(Places) :
                 writer' = [IdleWriter EXCEPT !.pc = "file", !.content = l, !.left = Len(l)]
      BY <1>3, <3>2 DEF WriterHas, IdleWriter
    <3>3. ASSUME NEW x \in Entries \cup {NoEntry}, item = [entry |-> x],
                 writer' = IF x = NoEntry
                           THEN [writer EXCEPT !.left = @ - 1,
                                               !.written = Append(@, <<Hole, "plain">>)]
                           ELSE [writer EXCEPT !.entry = x]
          PROVE  WriterHas(e)' = 1 => item \in {[entry |-> e]}
      <4>1. writer'.entry = x
        BY <2>2, <3>3, WriterFields
      <4>2. QED BY <3>3, <4>1 DEF WriterHas
    <3>4. QED BY <1>10, <2>1, <3>1, <3>2, <3>3, TakeIs
  <2>7. WriterHas(e)' \in {0, 1}
    BY DEF WriterHas
  <2>8. QED BY <1>1, <1>2, <2>3, <2>4, <2>5, <2>6, <2>7
<1>11. CASE WriteBlock
  <2>1. PICK x \in Entries :
          /\ writer.entry = x
          /\ \A y \in Entries : y # x => Used(y)' = Used(y)
          /\ Used(x) # 0 /\ Used(x)' \in {Used(x), Used(x) - 1}
          /\ \/ writer' = [writer EXCEPT !.left = @ - 1, !.entry = NoEntry, !.failed = TRUE]
             \/ writer' = [writer EXCEPT !.left = @ - 1, !.entry = NoEntry,
                                         !.written = Append(@, data[x])]
    BY <1>11, WriteEffect
  <2>2. WriterHas(e)' = 0
    BY <1>3, <2>1, WriterFields DEF WriterHas
  <2>3. WriterHas(e) = IF e = x THEN 1 ELSE 0
    BY <2>1 DEF WriterHas
  <2>4. Used(e)' >= Used(e) - (IF e = x THEN 1 ELSE 0) /\ Used(e)' \in Int
    BY <1>1, <2>1
  <2>5. ItemsOf(e)' = ItemsOf(e) /\ MainHas(e)' = MainHas(e)
    BY <1>11 DEF WriteBlock, ItemsOf, MainHas
  <2>6. QED BY <1>1, <2>2, <2>3, <2>4, <2>5
<1>12. CASE CloseFile
  <2>1. WriterHas(e)' = 0
    BY <1>3, <1>12 DEF CloseFile, WriterHas, IdleWriter
  <2>2. ItemsOf(e)' = ItemsOf(e) /\ MainHas(e)' = MainHas(e) /\ Used(e)' = Used(e)
    BY <1>12, CacheStill DEF CloseFile, ItemsOf, MainHas, cacheVars
  <2>3. QED BY <1>1, <2>1, <2>2
<1>13. CASE UNCHANGED <<main, cache, to_writer, writer>>
  <2>1. /\ ItemsOf(e)' = ItemsOf(e) /\ MainHas(e)' = MainHas(e) /\ Used(e)' = Used(e)
        /\ WriterHas(e)' = WriterHas(e)
    BY <1>13, CacheStill DEF ItemsOf, MainHas, WriterHas
  <2>2. QED BY <1>1, <2>1
<1>14. QED
  <2>1. TakeRead \/ Read \/ (\E d \in Deflators : TakeDeflate(d) \/ Uncompress(d))
          \/ UNCHANGED vars => UNCHANGED <<main, cache, to_writer, writer>>
    BY DEF TakeRead, Read, TakeDeflate, Uncompress, vars, cacheVars
  <2>2. QED BY <1>4, <1>5, <1>6, <1>7, <1>8, <1>9, <1>10, <1>11, <1>12, <1>13, <2>1, NextCases

-----------------------------------------------------------------------------
(* The end, and the files.                                                 *)
LEMMA FlushLastStep ==
  ASSUME Inv, [Next]_vars
  PROVE  FlushLast'
<1>1. FlushLast /\ Len(to_writer) \in Nat /\ to_writer \in Seq(Items)
  BY WriterFields DEF Inv
<1>2. ASSUME NEW x \in Items, PutToWriter(x), main.pc # "flush", main.pc # "done",
             UNCHANGED <<writer, from_writer>>, x = Flush <=> main'.pc = "flush",
             main'.pc # "done"
      PROVE  FlushLast'
  <2>1. /\ Len(to_writer') = Len(to_writer) + 1
        /\ \A k \in 1 .. Len(to_writer) : to_writer'[k] = to_writer[k]
        /\ to_writer'[Len(to_writer) + 1] = x
        /\ to_writer' \in Seq(Items)
    BY <1>2, PutIs
  <2>2. from_writer = <<>> /\ from_writer' = <<>>
    BY <1>1, <1>2 DEF FlushLast
  <2>3. \A k \in 1 .. Len(to_writer) : to_writer[k] # Flush
    BY <1>1, <1>2 DEF FlushLast
  <2>4. ASSUME NEW k \in 1 .. Len(to_writer')
        PROVE  to_writer'[k] = Flush <=> main'.pc = "flush" /\ k = Len(to_writer')
    <3>1. CASE k = Len(to_writer')
      BY <1>2, <2>1, <3>1
    <3>2. CASE k # Len(to_writer')
      <4>1. k \in 1 .. Len(to_writer)
        BY <1>1, <2>1, <3>2
      <4>2. QED BY <2>1, <2>3, <3>2, <4>1
    <3>3. QED BY <3>1, <3>2
  <2>5. to_writer' # <<>>
    <3>1. Len(to_writer') # 0
      BY <1>1, <2>1
    <3>2. QED BY <3>1
  <2>6. QED BY <1>2, <2>2, <2>4, <2>5 DEF FlushLast
<1>3. CASE WriteFile
  <2>1. PICK content \in Contents :
          /\ PutToWriter([file |-> content])
          /\ main' = IF content = <<>> THEN Idle
                     ELSE [pc |-> "get", todo |-> content, entry |-> NoEntry]
    BY <1>3 DEF WriteFile
  <2>2. [file |-> content] \in Items /\ [file |-> content] # Flush
    BY ContentIs, ItemIs DEF Items
  <2>3. main'.pc # "flush" /\ main'.pc # "done" /\ main.pc = "idle"
    BY <1>3, <2>1 DEF WriteFile, Idle
  <2>4. UNCHANGED <<writer, from_writer>>
    BY <1>3 DEF WriteFile
  <2>5. QED BY <1>2, <2>1, <2>2, <2>3, <2>4
<1>4. CASE PutBlock
  <2>1. PICK x : x = [entry |-> main.entry]
    OBVIOUS
  <2>2. PutToWriter(x) /\ x \in Items /\ x # Flush
    BY <1>4, <2>1, MainFields, ItemIs DEF PutBlock, Items
  <2>3. main'.pc # "flush" /\ main'.pc # "done" /\ main.pc = "put"
        /\ UNCHANGED <<writer, from_writer>>
    BY <1>4 DEF PutBlock, Idle
  <2>4. QED BY <1>2, <2>2, <2>3
<1>5. CASE Finish
  <2>1. PutToWriter(Flush) /\ Flush \in Items
    BY <1>5 DEF Finish, Flush, Items
  <2>2. main'.pc = "flush" /\ main.pc = "idle" /\ UNCHANGED <<writer, from_writer>>
    BY <1>5, MainFields DEF Finish
  <2>3. QED BY <1>2, <2>1, <2>2
<1>6. CASE Finished
  <2>1. /\ main.pc = "flush" /\ from_writer # <<>> /\ from_writer' = Tail(from_writer)
        /\ main'.pc = "done" /\ UNCHANGED <<to_writer, writer>>
    BY <1>6, MainFields DEF Finished
  <2>2. to_writer = <<>> /\ writer.pc = "idle"
    BY <1>1, <2>1 DEF FlushLast
  <2>3. from_writer' = <<>>
    <3>1. /\ Tail(from_writer) \in Seq({Flush}) /\ Len(Tail(from_writer)) = Len(from_writer) - 1
          /\ Len(from_writer) \in Nat \ {0} /\ Len(from_writer) <= 1
      BY <2>1, TailIs DEF Inv, Typed, WriterTyped
    <3>2. Len(Tail(from_writer)) = 0
      BY <3>1
    <3>3. QED BY <2>1, <3>1, <3>2, EmptySeq
  <2>4. \A k \in 1 .. Len(to_writer') : FALSE
    BY <2>1, <2>2
  <2>5. QED BY <2>1, <2>2, <2>3, <2>4 DEF FlushLast
<1>7. CASE TakeItem
  <2>1. /\ to_writer # <<>> /\ to_writer' = Tail(to_writer) /\ UNCHANGED main
    BY <1>7, TakeIs DEF TakeItem
  <2>2. /\ to_writer' \in Seq(Items)
        /\ Len(to_writer') = Len(to_writer) - 1 /\ Len(to_writer) \in Nat \ {0}
        /\ \A k \in 1 .. Len(to_writer) - 1 : to_writer'[k] = to_writer[k + 1]
        /\ Head(to_writer) = to_writer[1]
    BY <2>1, TakeTyped
  <2>3. from_writer = <<>> /\ main.pc # "done"
    BY <1>1, <2>1 DEF FlushLast
  <2>4. 1 \in 1 .. Len(to_writer) /\ Len(to_writer) \in 1 .. Len(to_writer)
    BY <2>2
  <2>5. CASE Head(to_writer) = Flush /\ UNCHANGED writer /\ from_writer' = <<Flush>>
             /\ writer.pc = "idle"
    <3>1. main.pc = "flush" /\ 1 = Len(to_writer)
      BY <1>1, <2>2, <2>4, <2>5 DEF FlushLast
    <3>2. Len(to_writer') = 0
      <4>1. Len(to_writer) = 1
        BY <3>1
      <4>2. Len(to_writer') = 1 - 1
        BY <2>2, <4>1
      <4>3. QED BY <4>2
    <3>3. to_writer' = <<>>
      BY <2>2, <3>2, EmptySeq
    <3>4. \A k \in 1 .. Len(to_writer') : FALSE
      BY <3>2
    <3>5. from_writer' # <<>>
      BY <2>5
    <3>6. QED BY <2>1, <2>5, <3>1, <3>3, <3>4, <3>5 DEF FlushLast
  <2>6. CASE Head(to_writer) # Flush /\ UNCHANGED from_writer
    <3>1. main.pc = "flush" => Len(to_writer) # 1
      BY <1>1, <2>2, <2>3, <2>4, <2>6 DEF FlushLast
    <3>2. main.pc = "flush" => Len(to_writer') # 0
      BY <2>2, <3>1
    <3>3. main.pc = "flush" => to_writer' # <<>>
      BY <3>2
    <3>4. ASSUME NEW k \in 1 .. Len(to_writer')
          PROVE  to_writer'[k] = Flush <=> main.pc = "flush" /\ k = Len(to_writer')
      <4>1. k \in 1 .. Len(to_writer) - 1 /\ k + 1 \in 1 .. Len(to_writer)
            /\ (k + 1 = Len(to_writer) <=> k = Len(to_writer'))
        BY <2>2
      <4>2. QED BY <1>1, <2>2, <2>3, <4>1 DEF FlushLast
    <3>5. QED BY <2>1, <2>3, <2>6, <3>3, <3>4 DEF FlushLast
  <2>7. QED
    <3>1. \A l : [file |-> l] # Flush
      BY DEF Flush
    <3>2. \A x : [entry |-> x] # Flush
      BY ItemIs
    <3>3. QED BY <1>7, <2>5, <2>6, <3>1, <3>2, TakeIs
<1>8. ASSUME UNCHANGED <<to_writer, from_writer>>, main.pc # "flush" /\ main'.pc # "flush",
             main'.pc # "done"
      PROVE  FlushLast'
  BY <1>1, <1>8 DEF FlushLast
<1>9. CASE CacheGet
  <2>1. PICK e \in Entries : main' = [main EXCEPT !.pc = "put", !.entry = e]
    BY <1>9, GetEffect
  <2>2. main'.pc = "put"
    BY <2>1, MainFields
  <2>3. UNCHANGED <<to_writer, from_writer>> /\ main.pc = "get"
    BY <1>9 DEF CacheGet
  <2>4. QED BY <1>8, <2>2, <2>3
<1>10. CASE SparseBlock
  <2>1. main'.pc = "put" /\ main.pc = "get" /\ UNCHANGED <<to_writer, from_writer>>
    BY <1>10, MainFields DEF SparseBlock
  <2>2. QED BY <1>8, <2>1
<1>11. ASSUME UNCHANGED <<to_writer, from_writer, main>>,
              writer'.pc = writer.pc \/ writer'.pc = "idle"
       PROVE  FlushLast'
  BY <1>1, <1>11 DEF FlushLast
<1>12. CASE WriteBlock
  <2>1. writer'.pc = writer.pc
    BY <1>12, WriteEffect, WriterFields
  <2>2. QED BY <1>11, <1>12, <2>1 DEF WriteBlock
<1>13. CASE CloseFile
  BY <1>11, <1>13 DEF CloseFile, IdleWriter
<1>14. CASE UNCHANGED <<main, to_writer, writer, from_writer>>
  BY <1>11, <1>14
<1>15. QED
  <2>1. TakeRead \/ Read \/ (\E d \in Deflators : TakeDeflate(d) \/ Uncompress(d))
          \/ UNCHANGED vars => UNCHANGED <<main, to_writer, writer, from_writer>>
    BY DEF TakeRead, Read, TakeDeflate, Uncompress, vars
  <2>2. QED BY <1>3, <1>4, <1>5, <1>6, <1>7, <1>9, <1>10, <1>12, <1>13, <1>14, <2>1, NextCases

LEMMA FilesCountedStep ==
  ASSUME Inv, [Next]_vars
  PROVE  FilesCounted'
<1> DEFINE n == CountIn(to_writer, FileItems)
           at == IF writer.pc = "file" THEN 1 ELSE 0
<1>1. /\ files = [created |-> files.created, kept |-> files.kept, unlinked |-> files.unlinked]
      /\ files.created \in Nat /\ files.kept \in Nat /\ files.unlinked \in Nat
      /\ files.created = files.kept + files.unlinked + n + at
  BY DEF Inv, Typed, FilesTyped, FilesCounted
<1>2. n \in Nat
  BY WriterFields, CountFinite
<1>3. n' = CountIn(to_writer', FileItems)
  OBVIOUS
<1>4. n' \in Nat
  BY <1>3, ItemsNext
<1>5. ASSUME files'.created = files'.kept + files'.unlinked + n' + at' PROVE FilesCounted'
  BY <1>5 DEF FilesCounted
<1>6. CASE WriteFile
  <2>1. PICK content \in Contents : PutToWriter([file |-> content])
    BY <1>6 DEF WriteFile
  <2>2. [file |-> content] \in Items /\ [file |-> content] \in FileItems
    BY ContentIs, ItemIs DEF Items
  <2>3. n' = n + 1
    BY <1>3, <2>1, <2>2, ItemsPut
  <2>4. files' = [files EXCEPT !.created = @ + 1] /\ at' = at
    BY <1>6 DEF WriteFile
  <2>5. QED BY <1>1, <1>2, <1>5, <2>3, <2>4
<1>7. ASSUME NEW x \in Items, PutToWriter(x), x \notin FileItems, UNCHANGED <<files, writer>>
      PROVE  FilesCounted'
  <2>1. n' = n + 0
    BY <1>3, <1>7, ItemsPut
  <2>2. QED BY <1>1, <1>2, <1>5, <1>7, <2>1
<1>8. CASE PutBlock
  <2>1. PICK x : x = [entry |-> main.entry]
    OBVIOUS
  <2>2. PutToWriter(x) /\ x \in Items /\ x \notin FileItems /\ UNCHANGED <<files, writer>>
    BY <1>8, <2>1, MainFields, ItemIs DEF PutBlock, Items
  <2>3. QED BY <1>7, <2>2
<1>9. CASE Finish
  <2>1. PutToWriter(Flush) /\ Flush \in Items /\ Flush \notin FileItems
        /\ UNCHANGED <<files, writer>>
    BY <1>9, ItemIs DEF Finish, Flush, Items
  <2>2. QED BY <1>7, <2>1
<1>10. CASE TakeItem
  <2>1. PICK item : item = Head(to_writer)
    OBVIOUS
  <2>2. to_writer # <<>> /\ to_writer' = Tail(to_writer)
    BY <1>10, TakeIs
  <2>3. n = n' + (IF item \in FileItems THEN 1 ELSE 0)
    BY <1>3, <2>1, <2>2, ItemsTake
  <2>4. UNCHANGED files
    BY <1>10 DEF TakeItem
  <2>5. at' = at + (IF item \in FileItems THEN 1 ELSE 0)
    <3>1. CASE item = Flush /\ UNCHANGED writer
      BY <3>1, ItemIs
    <3>2. ASSUME NEW l \in Seq(Places), item = [file |-> l], writer.pc = "idle",
                 writer' = [IdleWriter EXCEPT !.pc = "file", !.content = l, !.left = Len(l)]
          PROVE  at' = at + (IF item \in FileItems THEN 1 ELSE 0)
      <4>1. writer'.pc = "file"
        BY <3>2 DEF IdleWriter
      <4>2. QED BY <3>2, <4>1, ItemIs
    <3>3. ASSUME NEW x \in Entries \cup {NoEntry}, item = [entry |-> x],
                 writer' = IF x = NoEntry
                           THEN [writer EXCEPT !.left = @ - 1,
                                               !.written = Append(@, <<Hole, "plain">>)]
                           ELSE [writer EXCEPT !.entry = x]
          PROVE  at' = at + (IF item \in FileItems THEN 1 ELSE 0)
      <4>1. writer'.pc = writer.pc
        BY <3>3, WriterFields
      <4>2. QED BY <3>3, <4>1, ItemIs
    <3>4. QED BY <1>10, <2>1, <3>1, <3>2, <3>3, TakeIs
  <2>6. QED BY <1>1, <1>2, <1>4, <1>5, <2>3, <2>4, <2>5
<1>11. CASE WriteBlock
  <2>1. writer'.pc = writer.pc
    BY <1>11, WriteEffect, WriterFields
  <2>2. UNCHANGED <<files, to_writer>>
    BY <1>11 DEF WriteBlock
  <2>3. QED BY <1>1, <1>5, <2>1, <2>2
<1>12. CASE CloseFile
  <2>1. writer.pc = "file" /\ writer'.pc = "idle" /\ UNCHANGED to_writer
    BY <1>12 DEF CloseFile, IdleWriter
  <2>2. \/ files' = [files EXCEPT !.unlinked = @ + 1]
        \/ files' = [files EXCEPT !.kept = @ + 1]
    BY <1>12 DEF CloseFile
  <2>3. at = 1 /\ at' = 0 /\ n' = n
    BY <2>1
  <2>4. /\ files'.created = files.created
        /\ files'.kept + files'.unlinked = files.kept + files.unlinked + 1
        /\ files'.kept \in Nat /\ files'.unlinked \in Nat
    BY <1>1, <2>2
  <2>5. QED BY <1>1, <1>2, <1>5, <2>3, <2>4
<1>13. CASE UNCHANGED <<files, to_writer, writer>>
  BY <1>1, <1>5, <1>13
<1>14. QED
  <2>1. CacheGet \/ SparseBlock \/ Finished \/ TakeRead \/ Read
          \/ (\E d \in Deflators : TakeDeflate(d) \/ Uncompress(d))
          \/ UNCHANGED vars => UNCHANGED <<files, to_writer, writer>>
    BY DEF CacheGet, SparseBlock, Finished, TakeRead, Read, TakeDeflate, Uncompress, vars
  <2>2. QED BY <1>6, <1>8, <1>9, <1>10, <1>11, <1>12, <1>13, <2>1, NextCases

-----------------------------------------------------------------------------
(* Stream.                                                                 *)
LEMMA MovesKept ==
  ASSUME NEW a, NEW x, NEW b, Moves(a, x, b),
         \A e \in Entries : x = [entry |-> e] => Block(e)' = Block(e)
  PROVE  Moves(a, x, b)'
<1>1. ASSUME NEW e \in Entries \cup {NoEntry}, x = [entry |-> e], NEW p, Fits(e, p)
      PROVE  Fits(e, p)'
  BY <1>1 DEF Fits
<1>2. CASE x \in FileItems /\ AtEnd(a) /\ b = Point(x.file, 0)
  BY <1>2 DEF Moves
<1>3. CASE x = Flush /\ AtEnd(a) /\ AtEnd(b)
  BY <1>3 DEF Moves
<1>4. CASE \E e \in Entries \cup {NoEntry} :
             /\ x = [entry |-> e] /\ a.taken < Len(a.content)
             /\ Fits(e, a.content[a.taken + 1])
             /\ b = Point(a.content, a.taken + 1)
  <2>1. PICK e \in Entries \cup {NoEntry} :
             /\ x = [entry |-> e] /\ a.taken < Len(a.content)
             /\ Fits(e, a.content[a.taken + 1])
             /\ b = Point(a.content, a.taken + 1)
    BY <1>4
  <2>2. Fits(e, a.content[a.taken + 1])'
    BY <1>1, <2>1
  <2>3. QED BY <2>1, <2>2 DEF Moves
<1>5. QED BY <1>2, <1>3, <1>4 DEF Moves

LEMMA PointIs ==
  /\ \A l \in Seq(Places), n \in Nat :
       /\ Point(l, n) \in Points
       /\ Point(l, n).content = l /\ Point(l, n).taken = n
  /\ \A a \in Points : /\ a.content \in Seq(Places) /\ a.taken \in Nat
                       /\ Len(a.content) \in Nat
BY DEF Point, Points

(* Main puts an item at the end of the queue.                              *)
LEMMA StreamPut ==
  ASSUME Inv, UNCHANGED <<cache, writer>>, NEW n \in Nat, n = Len(to_writer),
         NEW at \in [0 .. n -> Points], StreamBy(at), NEW x \in Items, PutToWriter(x),
         NEW b \in Points, Moves(at[n], x, b), MainAt(b)'
  PROVE  Stream'
<1> DEFINE bt == [k \in 0 .. n + 1 |-> IF k = n + 1 THEN b ELSE at[k]]
<1>1. /\ Len(to_writer') = n + 1
      /\ \A k \in 1 .. n : to_writer'[k] = to_writer[k]
      /\ to_writer'[n + 1] = x
  BY PutIs
<1>2. \A k \in 0 .. n + 1 : k = n + 1 \/ k \in 0 .. n
  OBVIOUS
<1>3. bt \in [0 .. n + 1 -> Points] /\ bt[n + 1] = b /\ \A k \in 0 .. n : bt[k] = at[k]
  <2>1. n + 1 \in 0 .. n + 1 /\ \A k \in 0 .. n : k \in 0 .. n + 1 /\ k # n + 1
    OBVIOUS
  <2>2. QED BY <1>2, <2>1
<1> HIDE DEF bt
<1>4. WriterAt' = WriterAt
  BY DEF WriterAt
<1>5. bt[0] = WriterAt'
  <2>1. 0 \in 0 .. n
    OBVIOUS
  <2>2. QED BY <1>3, <1>4, <2>1 DEF StreamBy
<1>6. ASSUME NEW k \in 1 .. n + 1 PROVE Moves(bt[k - 1], to_writer[k], bt[k])'
  <2>1. CASE k = n + 1
    <3>1. Moves(at[n], x, b)'
      BY MovesKept, CacheStill
    <3>2. bt[k - 1] = at[n] /\ bt[k] = b /\ to_writer'[k] = x
      <4>1. k - 1 = n /\ n \in 0 .. n
        BY <2>1
      <4>2. QED BY <1>1, <1>3, <2>1, <4>1
    <3>3. QED BY <3>1, <3>2
  <2>2. CASE k \in 1 .. n
    <3>1. PICK y : y = to_writer[k]
      OBVIOUS
    <3>2. Moves(at[k - 1], y, at[k])
      BY <2>2, <3>1 DEF StreamBy
    <3>3. Moves(at[k - 1], y, at[k])'
      BY <3>2, MovesKept, CacheStill
    <3>4. bt[k - 1] = at[k - 1] /\ bt[k] = at[k] /\ to_writer'[k] = y
      <4>1. k - 1 \in 0 .. n /\ k \in 0 .. n
        BY <2>2
      <4>2. QED BY <1>1, <1>3, <2>2, <3>1, <4>1
    <3>5. QED BY <3>3, <3>4
  <2>3. QED BY <2>1, <2>2
<1>7. MainAt(bt[n + 1])'
  BY <1>3
<1>8. StreamBy(bt)'
  BY <1>1, <1>5, <1>6, <1>7 DEF StreamBy
<1>9. QED BY <1>1, <1>3, <1>8 DEF Stream

(* The writer takes the item at its head.                                  *)
LEMMA StreamTake ==
  ASSUME Inv, UNCHANGED <<cache, main>>, NEW n \in Nat, n = Len(to_writer),
         NEW at \in [0 .. n -> Points], StreamBy(at), to_writer # <<>>,
         to_writer' = Tail(to_writer), at[1] = WriterAt'
  PROVE  Stream'
<1> DEFINE bt == [k \in 0 .. n - 1 |-> at[k + 1]]
<1>1. /\ Len(to_writer') = n - 1 /\ n # 0
      /\ \A k \in 1 .. n - 1 : to_writer'[k] = to_writer[k + 1]
  BY TakeTyped
<1>2. \A k \in 0 .. n - 1 : k + 1 \in 0 .. n
  OBVIOUS
<1>3. bt \in [0 .. n - 1 -> Points] /\ \A k \in 0 .. n - 1 : bt[k] = at[k + 1]
  BY <1>2
<1> HIDE DEF bt
<1>4. bt[0] = WriterAt'
  <2>1. 0 \in 0 .. n - 1 /\ 0 + 1 = 1
    BY <1>1
  <2>2. QED BY <1>3, <2>1
<1>5. ASSUME NEW k \in 1 .. n - 1 PROVE Moves(bt[k - 1], to_writer[k], bt[k])'
  <2>1. PICK y : y = to_writer[k + 1]
    OBVIOUS
  <2>2. k + 1 \in 1 .. n /\ (k + 1) - 1 = k /\ k - 1 \in 0 .. n - 1 /\ (k - 1) + 1 = k
        /\ k \in 0 .. n - 1
    OBVIOUS
  <2>3. Moves(at[k], y, at[k + 1])
    BY <2>1, <2>2 DEF StreamBy
  <2>4. Moves(at[k], y, at[k + 1])'
    BY <2>3, MovesKept, CacheStill
  <2>5. bt[k - 1] = at[k] /\ bt[k] = at[k + 1] /\ to_writer'[k] = y
    BY <1>1, <1>3, <2>1, <2>2
  <2>6. QED BY <2>4, <2>5
<1>6. MainAt(bt[n - 1])'
  <2>1. bt[n - 1] = at[n]
    <3>1. n - 1 \in 0 .. n - 1 /\ (n - 1) + 1 = n
      BY <1>1
    <3>2. QED BY <1>3, <3>1
  <2>2. MainAt(at[n])
    BY DEF StreamBy
  <2>3. MainAt(at[n])'
    BY <2>2 DEF MainAt, Fits, Block
  <2>4. QED BY <2>1, <2>3
<1>7. StreamBy(bt)'
  BY <1>1, <1>4, <1>5, <1>6 DEF StreamBy
<1>8. QED BY <1>1, <1>3, <1>7 DEF Stream

(* The queue stays as it is.                                               *)
LEMMA StreamStays ==
  ASSUME Inv, UNCHANGED to_writer, NEW n \in Nat, n = Len(to_writer),
         NEW at \in [0 .. n -> Points], StreamBy(at), WriterAt' = WriterAt,
         \A k \in 1 .. n : \A e \in Entries : to_writer[k] = [entry |-> e] => Block(e)' = Block(e),
         MainAt(at[n])'
  PROVE  Stream'
<1>1. ASSUME NEW k \in 1 .. n PROVE Moves(at[k - 1], to_writer[k], at[k])'
  <2>1. PICK y : y = to_writer[k]
    OBVIOUS
  <2>2. Moves(at[k - 1], y, at[k])
    BY <2>1 DEF StreamBy
  <2>3. Moves(at[k - 1], y, at[k])'
    BY <2>1, <2>2, MovesKept
  <2>4. QED BY <2>1, <2>3
<1>2. StreamBy(at)'
  BY <1>1 DEF StreamBy
<1>3. QED BY <1>2 DEF Stream

LEMMA StreamStep ==
  ASSUME Inv, [Next]_vars
  PROVE  Stream'
<1>1. PICK n : n = Len(to_writer)
  OBVIOUS
<1>2. n \in Nat
  BY <1>1, WriterFields
<1>3. PICK at \in [0 .. n -> Points] : StreamBy(at)
  BY <1>1 DEF Inv, Stream
<1>4. PICK a : a = at[n]
  OBVIOUS
<1>5. /\ a \in Points /\ MainAt(a) /\ at[0] = WriterAt
      /\ \A k \in 1 .. n : Moves(at[k - 1], to_writer[k], at[k])
  BY <1>1, <1>2, <1>3, <1>4 DEF StreamBy
<1>6. a.content \in Seq(Places) /\ a.taken \in Nat /\ Len(a.content) \in Nat
  BY <1>5, PointIs
<1>7. ASSUME NEW x \in Items, PutToWriter(x), UNCHANGED <<cache, writer>>,
             NEW b \in Points, Moves(a, x, b), MainAt(b)'
      PROVE  Stream'
  BY <1>1, <1>2, <1>3, <1>4, <1>7, StreamPut
<1>8. ASSUME UNCHANGED <<to_writer, writer>>, MainAt(a)',
             \A k \in 1 .. n : \A e \in Entries :
               to_writer[k] = [entry |-> e] => Block(e)' = Block(e)
      PROVE  Stream'
  <2>1. WriterAt' = WriterAt
    BY <1>8 DEF WriterAt
  <2>2. MainAt(at[n])'
    BY <1>4, <1>8
  <2>3. QED BY <1>1, <1>2, <1>3, <1>8, <2>1, <2>2, StreamStays
<1>9. CASE WriteFile
  <2>1. PICK l \in Contents :
          /\ PutToWriter([file |-> l])
          /\ main' = IF l = <<>> THEN Idle ELSE [pc |-> "get", todo |-> l, entry |-> NoEntry]
    BY <1>9 DEF WriteFile
  <2>2. l \in Seq(Places) /\ [file |-> l] \in FileItems /\ [file |-> l].file = l
        /\ [file |-> l] \in Items
    BY ContentIs, ItemIs DEF Items
  <2>3. PICK b : b = Point(l, 0)
    OBVIOUS
  <2>4. b \in Points /\ b.content = l /\ b.taken = 0
    BY <2>2, <2>3, PointIs
  <2>5. AtEnd(a)
    BY <1>5, <1>9 DEF WriteFile, MainAt
  <2>6. Moves(a, [file |-> l], b)
    BY <2>2, <2>3, <2>5 DEF Moves
  <2>7. MainAt(b)'
    <3>1. CASE l = <<>>
      <4>1. Len(l) = 0 /\ main'.pc = "idle"
        BY <2>1, <3>1 DEF Idle
      <4>2. QED BY <2>4, <4>1 DEF MainAt, AtEnd
    <3>2. CASE l # <<>>
      <4>1. main'.pc = "get" /\ main'.todo = l
        BY <2>1, <3>2
      <4>2. Len(l) = Len(l) - 0 /\ \A i \in 1 .. Len(l) : l[i] = l[0 + i]
        BY <2>2
      <4>3. QED BY <2>4, <3>2, <4>1, <4>2 DEF MainAt
    <3>3. QED BY <3>1, <3>2
  <2>8. UNCHANGED <<cache, writer>>
    BY <1>9 DEF WriteFile, cacheVars
  <2>9. QED BY <1>7, <2>1, <2>2, <2>4, <2>6, <2>7, <2>8
<1>10. CASE CacheGet
  <2>1. PICK e \in Entries :
           /\ main' = [main EXCEPT !.pc = "put", !.entry = e]
           /\ Head(main.todo) # Hole /\ Block(e)' = Head(main.todo)
           /\ \A x \in Entries : x # e => Index(x)' = Index(x)
           /\ Index(e)' = Index(e) \/ Used(e) = 0
    BY <1>10, GetEffect
  <2>2. main.pc = "get" /\ UNCHANGED <<to_writer, writer>>
    BY <1>10 DEF CacheGet
  <2>3. /\ main.todo # <<>> /\ Len(main.todo) = Len(a.content) - a.taken
        /\ \A i \in 1 .. Len(main.todo) : main.todo[i] = a.content[a.taken + i]
    BY <1>5, <2>2 DEF MainAt
  <2>4. main'.pc = "put" /\ main'.todo = main.todo /\ main'.entry = e
    BY <2>1, MainFields
  <2>5. PICK p : p = Head(main.todo) /\ p = main.todo[1]
    BY <2>2, MainAsks
  <2>6. MainAt(a)'
    <3>1. Fits(e, p)'
      BY <2>1, <2>5 DEF Fits
    <3>2. Fits(main.entry, main.todo[1])'
      BY <2>4, <2>5, <3>1
    <3>3. QED BY <2>3, <2>4, <3>2 DEF MainAt
  <2>7. ASSUME NEW k \in 1 .. n, NEW x \in Entries, to_writer[k] = [entry |-> x]
        PROVE  Block(x)' = Block(x)
    <3>1. Index(x)' = Index(x)
      <4>1. CASE x = e /\ Used(e) = 0
        <5>1. \A j \in 1 .. Len(to_writer) : to_writer[j] # [entry |-> e]
          BY <4>1, HeldIs
        <5>2. QED BY <1>1, <2>7, <4>1, <5>1
      <4>2. QED BY <2>1, <4>1
    <3>2. QED BY <3>1, BlockStill
  <2>8. QED BY <1>8, <2>2, <2>6, <2>7
<1>11. CASE SparseBlock
  <2>1. /\ main.pc = "get" /\ main' = [main EXCEPT !.pc = "put", !.entry = NoEntry]
        /\ Head(main.todo) = Hole /\ UNCHANGED <<to_writer, writer, cache>>
    BY <1>11 DEF SparseBlock, cacheVars
  <2>2. /\ main.todo # <<>> /\ Len(main.todo) = Len(a.content) - a.taken
        /\ \A i \in 1 .. Len(main.todo) : main.todo[i] = a.content[a.taken + i]
    BY <1>5, <2>1 DEF MainAt
  <2>3. main'.pc = "put" /\ main'.todo = main.todo /\ main'.entry = NoEntry
    BY <2>1, MainFields
  <2>4. main.todo[1] = Hole
    BY <2>1, MainAsks
  <2>5. MainAt(a)'
    BY <2>2, <2>3, <2>4 DEF MainAt, Fits
  <2>6. QED BY <1>8, <2>1, <2>5, CacheStill
<1>12. CASE PutBlock
  <2>1. PICK x : x = [entry |-> main.entry]
    OBVIOUS
  <2>2. PICK e, p : e = main.entry /\ p = main.todo[1]
    OBVIOUS
  <2>3. /\ PutToWriter(x) /\ x \in Items /\ main.pc = "put" /\ x = [entry |-> e]
        /\ e \in Entries \cup {NoEntry}
    BY <1>12, <2>1, <2>2, MainFields DEF PutBlock, Items
  <2>4. /\ main.todo # <<>> /\ Len(main.todo) = Len(a.content) - a.taken
        /\ \A i \in 1 .. Len(main.todo) : main.todo[i] = a.content[a.taken + i]
        /\ Fits(e, p)
    BY <1>5, <2>2, <2>3 DEF MainAt
  <2>5. /\ main.todo \in Seq(Places) /\ Len(main.todo) \in Nat \ {0}
        /\ Tail(main.todo) \in Seq(Places) /\ Len(Tail(main.todo)) = Len(main.todo) - 1
        /\ \A i \in 1 .. Len(main.todo) - 1 : Tail(main.todo)[i] = main.todo[i + 1]
    BY <2>4, MainFields, TailIs
  <2>6. a.taken < Len(a.content) /\ p = a.content[a.taken + 1]
    <3>1. 1 \in 1 .. Len(main.todo)
      BY <2>5
    <3>2. QED BY <1>6, <2>2, <2>4, <2>5, <3>1
  <2>7. PICK b : b = Point(a.content, a.taken + 1)
    OBVIOUS
  <2>8. b \in Points /\ b.content = a.content /\ b.taken = a.taken + 1
    BY <1>6, <2>7, PointIs
  <2>9. Moves(a, x, b)
    BY <2>3, <2>4, <2>6, <2>7 DEF Moves
  <2>10. MainAt(b)'
    <3>1. CASE Len(main.todo) = 1
      <4>1. main'.pc = "idle"
        BY <1>12, <3>1 DEF PutBlock, Idle
      <4>2. b.taken = Len(b.content)
        BY <1>6, <2>4, <2>8, <3>1
      <4>3. QED BY <4>1, <4>2 DEF MainAt, AtEnd
    <3>2. CASE Len(main.todo) # 1
      <4>1. main'.pc = "get" /\ main'.todo = Tail(main.todo)
        BY <1>12, <3>2 DEF PutBlock
      <4>2. Len(Tail(main.todo)) # 0
        BY <2>5, <3>2
      <4>3. Tail(main.todo) # <<>>
        BY <2>5, <4>2, EmptySeq
      <4>4. Len(Tail(main.todo)) = Len(b.content) - b.taken
        BY <1>6, <2>4, <2>5, <2>8
      <4>5. ASSUME NEW i \in 1 .. Len(Tail(main.todo))
            PROVE  Tail(main.todo)[i] = b.content[b.taken + i]
        <5>1. i \in 1 .. Len(main.todo) - 1 /\ i + 1 \in 1 .. Len(main.todo)
          BY <2>5
        <5>2. a.taken + (i + 1) = b.taken + i
          BY <1>6, <2>8
        <5>3. QED BY <2>4, <2>5, <2>8, <5>1, <5>2
      <4>6. QED BY <4>1, <4>3, <4>4, <4>5 DEF MainAt
    <3>3. QED BY <3>1, <3>2
  <2>11. UNCHANGED <<cache, writer>>
    BY <1>12 DEF PutBlock, cacheVars
  <2>12. QED BY <1>7, <2>3, <2>8, <2>9, <2>10, <2>11
<1>13. CASE Finish
  <2>1. PutToWriter(Flush) /\ Flush \in Items /\ UNCHANGED <<cache, writer>>
    BY <1>13 DEF Finish, Flush, Items, cacheVars
  <2>2. AtEnd(a)
    BY <1>5, <1>13 DEF Finish, MainAt
  <2>3. Moves(a, Flush, a)
    BY <2>2 DEF Moves
  <2>4. MainAt(a)'
    <3>1. main'.pc = "flush"
      BY <1>13, MainFields DEF Finish
    <3>2. QED BY <2>2, <3>1 DEF MainAt, AtEnd
  <2>5. QED BY <1>5, <1>7, <2>1, <2>3, <2>4
<1>14. CASE Finished
  <2>1. UNCHANGED <<to_writer, writer, cache>> /\ main.pc = "flush" /\ main'.pc = "done"
    BY <1>14, MainFields DEF Finished, cacheVars
  <2>2. MainAt(a)'
    BY <1>5, <2>1 DEF MainAt, AtEnd
  <2>3. QED BY <1>8, <2>1, <2>2, CacheStill
<1>15. CASE TakeItem
  <2>1. PICK item : item = Head(to_writer)
    OBVIOUS
  <2>2. to_writer # <<>> /\ to_writer' = Tail(to_writer) /\ writer.entry = NoEntry
    BY <1>15, TakeIs
  <2>3. UNCHANGED <<cache, main>>
    BY <1>15 DEF TakeItem, cacheVars
  <2>4. ASSUME at[1] = WriterAt' PROVE Stream'
    BY <1>1, <1>2, <1>3, <2>2, <2>3, <2>4, StreamTake
  <2>5. n # 0 /\ item = to_writer[1] /\ Len(to_writer') = n - 1 /\ to_writer' \in Seq(Items)
    BY <1>1, <2>1, <2>2, TakeTyped
  <2>6. PICK c, b : c = at[0] /\ b = at[1] /\ Moves(c, item, b)
    <3>1. 1 \in 1 .. n /\ 1 - 1 = 0
      BY <1>2, <2>5
    <3>2. QED BY <1>5, <2>5, <3>1
  <2>7. c.content = writer.content /\ c.taken = Len(writer.content) - writer.left
    <3>1. Len(writer.content) - writer.left + 0 = Len(writer.content) - writer.left
      BY WriterFields
    <3>2. QED BY <1>5, <2>2, <2>6, <3>1 DEF WriterAt, Point
  <2>8. CASE item = Flush /\ UNCHANGED writer /\ writer.pc = "idle"
    <3>1. main.pc = "flush" /\ n = 1
      <4>1. 1 \in 1 .. n /\ to_writer[1] = Flush
        BY <1>2, <2>5, <2>8
      <4>2. QED BY <1>1, <4>1 DEF Inv, FlushLast
    <3>2. PICK w : w = WriterAt'
      OBVIOUS
    <3>3. w = Point(<<>>, 0)
      <4>1. writer' = IdleWriter
        BY <2>8 DEF Inv, WriterHolds
      <4>2. WriterAt' = Point(<<>>, 0 - 0 + 0)
        BY <4>1 DEF WriterAt, IdleWriter
      <4>3. QED BY <3>2, <4>2
    <3>4. w \in Points /\ AtEnd(w)
      <4>1. PICK l \in Seq(Places) : l = <<>> /\ Len(l) = 0
        BY EmptySeq
      <4>2. w \in Points /\ w.content = l /\ w.taken = 0
        BY <3>3, <4>1, PointIs
      <4>3. QED BY <4>1, <4>2 DEF AtEnd
    <3>5. MainAt(w)'
      BY <2>3, <3>1, <3>4 DEF MainAt, AtEnd
    <3>6. Len(to_writer') = 0
      <4>1. n - 1 = 0
        BY <3>1
      <4>2. QED BY <2>5, <4>1
    <3>7. PICK bt : bt = [k \in 0 .. 0 |-> w]
      OBVIOUS
    <3>8. bt \in [0 .. 0 -> Points] /\ bt[0] = w
      BY <3>4, <3>7
    <3>9. \A k \in 1 .. 0 : FALSE
      OBVIOUS
    <3>10. StreamBy(bt)'
      BY <3>2, <3>5, <3>6, <3>8, <3>9 DEF StreamBy
    <3>11. QED BY <3>6, <3>8, <3>10 DEF Stream
  <2>9. ASSUME NEW l \in Seq(Places), item = [file |-> l],
               writer' = [IdleWriter EXCEPT !.pc = "file", !.content = l, !.left = Len(l)]
        PROVE  Stream'
    <3>1. b = Point(l, 0)
      <4>1. item \in FileItems /\ item.file = l
        BY <2>9, ItemIs
      <4>2. item # Flush /\ \A e : item # [entry |-> e]
        BY <4>1, ItemIs
      <4>3. QED BY <2>6, <4>1, <4>2 DEF Moves
    <3>2. writer'.content = l /\ writer'.left = Len(l) /\ writer'.entry = NoEntry
      BY <2>9 DEF IdleWriter
    <3>3. Len(l) - Len(l) + 0 = 0
      OBVIOUS
    <3>4. WriterAt' = Point(l, 0)
      BY <3>2, <3>3 DEF WriterAt
    <3>5. QED BY <2>4, <2>6, <3>1, <3>4
  <2>10. ASSUME NEW e \in Entries \cup {NoEntry}, item = [entry |-> e], writer.left > 0,
               writer' = IF e = NoEntry
                         THEN [writer EXCEPT !.left = @ - 1,
                                             !.written = Append(@, <<Hole, "plain">>)]
                         ELSE [writer EXCEPT !.entry = e]
         PROVE  Stream'
    <3>1. b = Point(c.content, c.taken + 1)
      <4>1. item \notin FileItems /\ item # Flush
        BY <2>10, ItemIs
      <4>2. QED BY <2>6, <4>1 DEF Moves
    <3>2. WriterAt' = Point(writer.content, Len(writer.content) - writer.left + 1)
      <4>1. CASE e = NoEntry
        <5>1. writer'.content = writer.content /\ writer'.left = writer.left - 1
              /\ writer'.entry = NoEntry
          BY <2>2, <2>10, <4>1, WriterFields
        <5>2. Len(writer.content) - (writer.left - 1) + 0 = Len(writer.content) - writer.left + 1
          BY WriterFields
        <5>3. QED BY <5>1, <5>2 DEF WriterAt
      <4>2. CASE e # NoEntry
        <5>1. writer'.content = writer.content /\ writer'.left = writer.left
              /\ writer'.entry = e
          BY <2>10, <4>2, WriterFields
        <5>2. QED BY <4>2, <5>1 DEF WriterAt
      <4>3. QED BY <4>1, <4>2
    <3>3. QED BY <2>4, <2>6, <2>7, <3>1, <3>2
  <2>11. QED BY <1>15, <2>1, <2>8, <2>9, <2>10, TakeIs
<1>16. CASE WriteBlock
  <2>1. PICK e \in Entries :
          /\ writer.entry = e /\ \A x \in Entries : Index(x)' = Index(x)
          /\ \/ writer' = [writer EXCEPT !.left = @ - 1, !.entry = NoEntry, !.failed = TRUE]
             \/ writer' = [writer EXCEPT !.left = @ - 1, !.entry = NoEntry,
                                         !.written = Append(@, data[e])]
    BY <1>16, WriteEffect
  <2>2. UNCHANGED <<main, to_writer>>
    BY <1>16 DEF WriteBlock
  <2>3. \A x \in Entries : Block(x)' = Block(x)
    BY <2>1, BlockStill
  <2>4. WriterAt' = WriterAt
    <3>1. writer'.content = writer.content /\ writer'.left = writer.left - 1
          /\ writer'.entry = NoEntry
      BY <2>1, WriterFields
    <3>2. writer.entry # NoEntry
      BY <2>1, EntryIs
    <3>3. Len(writer.content) - (writer.left - 1) + 0 = Len(writer.content) - writer.left + 1
      BY WriterFields
    <3>4. QED BY <3>1, <3>2, <3>3 DEF WriterAt
  <2>5. MainAt(at[n])'
    <3>1. \A e2, p : Fits(e2, p) => Fits(e2, p)'
      BY <2>3 DEF Fits
    <3>2. PICK f, p : f = main.entry /\ p = main.todo[1]
      OBVIOUS
    <3>3. Fits(f, p) => Fits(f, p)'
      BY <3>1
    <3>4. MainAt(a)'
      <4>1. CASE main.pc = "put"
        <5>1. Fits(f, p)
          BY <1>5, <3>2, <4>1 DEF MainAt
        <5>2. Fits(main.entry, main.todo[1])'
          BY <2>2, <3>2, <3>3, <5>1
        <5>3. QED BY <1>5, <2>2, <4>1, <5>2 DEF MainAt
      <4>2. CASE main.pc # "put"
        BY <1>5, <2>2, <4>2 DEF MainAt, AtEnd
      <4>3. QED BY <4>1, <4>2
    <3>5. QED BY <1>4, <3>4
  <2>6. QED BY <1>1, <1>2, <1>3, <2>2, <2>3, <2>4, <2>5, StreamStays
<1>17. CASE CloseFile
  <2>1. /\ writer.pc = "file" /\ writer.left = 0 /\ writer' = IdleWriter
        /\ UNCHANGED <<main, cache, to_writer>>
    BY <1>17 DEF CloseFile, cacheVars
  <2>2. PICK c, w : c = at[0] /\ w = Point(<<>>, 0)
    OBVIOUS
  <2>3. AtEnd(c)
    <3>1. writer.entry = NoEntry
      BY <2>1 DEF Inv, WriterHolds
    <3>2. Len(writer.content) - 0 + 0 = Len(writer.content)
      BY WriterFields
    <3>3. QED BY <1>5, <2>1, <2>2, <3>1, <3>2 DEF WriterAt, Point, AtEnd
  <2>4. w \in Points /\ AtEnd(w)
    <3>1. PICK l \in Seq(Places) : l = <<>> /\ Len(l) = 0
      BY EmptySeq
    <3>2. w \in Points /\ w.content = l /\ w.taken = 0
      BY <2>2, <3>1, PointIs
    <3>3. QED BY <3>1, <3>2 DEF AtEnd
  <2>5. WriterAt' = w
    <3>1. WriterAt' = Point(<<>>, 0 - 0 + 0)
      BY <2>1 DEF WriterAt, IdleWriter
    <3>2. QED BY <2>2, <3>1
  <2>6. PICK bt : bt = [at EXCEPT ![0] = w]
    OBVIOUS
  <2>7. bt \in [0 .. n -> Points] /\ bt[0] = w /\ \A k \in 0 .. n : k # 0 => bt[k] = at[k]
    <3>1. 0 \in 0 .. n
      BY <1>2
    <3>2. QED BY <2>4, <2>6, <3>1
  <2>8. ASSUME NEW k \in 1 .. n PROVE Moves(bt[k - 1], to_writer[k], bt[k])'
    <3>1. PICK x : x = to_writer[k]
      OBVIOUS
    <3>2. Moves(at[k - 1], x, at[k]) /\ k \in 0 .. n /\ k - 1 \in 0 .. n /\ k # 0
          /\ bt[k] = at[k]
      BY <1>2, <1>5, <2>7, <3>1
    <3>3. Moves(bt[k - 1], x, bt[k])
      <4>1. CASE k - 1 = 0
        <5>1. \/ x \in FileItems /\ at[k] = Point(x.file, 0)
              \/ x = Flush /\ AtEnd(at[k])
          <6>1. Moves(c, x, at[k])
            BY <2>2, <3>2, <4>1
          <6>2. ~(c.taken < Len(c.content))
            BY <2>3 DEF AtEnd
          <6>3. QED BY <6>1, <6>2 DEF Moves
        <5>2. QED BY <2>4, <2>7, <3>2, <4>1, <5>1 DEF Moves
      <4>2. CASE k - 1 # 0
        BY <2>7, <3>2, <4>2
      <4>3. QED BY <4>1, <4>2
    <3>4. Moves(bt[k - 1], x, bt[k])'
      BY <2>1, <3>3, MovesKept, CacheStill
    <3>5. QED BY <2>1, <3>1, <3>4
  <2>9. MainAt(bt[n])'
    <3>1. CASE n = 0
      <4>1. a = c /\ bt[n] = w
        BY <1>4, <2>2, <2>7, <3>1
      <4>2. main.pc \notin {"get", "put"}
        <5>1. main.pc \in {"get", "put"} =>
                main.todo \in Seq(Places) /\ main.todo # <<>> /\ Len(main.todo) = 0
          <6>1. Len(a.content) - a.taken = 0
            BY <1>6, <2>3, <4>1 DEF AtEnd
          <6>2. QED BY <1>5, <6>1, MainFields DEF MainAt
        <5>2. QED BY <5>1, EmptySeq
      <4>3. QED BY <2>1, <2>4, <4>1, <4>2 DEF MainAt, AtEnd
    <3>2. CASE n # 0
      <4>1. bt[n] = a
        <5>1. n \in 0 .. n
          BY <1>2
        <5>2. QED BY <1>4, <2>7, <3>2, <5>1
      <4>2. MainAt(a)'
        BY <1>5, <2>1 DEF MainAt, Fits, Block, AtEnd
      <4>3. QED BY <4>1, <4>2
    <3>3. QED BY <3>1, <3>2
  <2>10. StreamBy(bt)'
    BY <1>1, <2>1, <2>5, <2>7, <2>8, <2>9 DEF StreamBy
  <2>11. QED BY <1>1, <2>1, <2>7, <2>10 DEF Stream
<1>18. CASE UNCHANGED <<main, cache, to_writer, writer>>
  <2>1. MainAt(a)'
    BY <1>5, <1>18 DEF MainAt, Fits, Block, AtEnd
  <2>2. QED BY <1>8, <1>18, <2>1, CacheStill
<1>19. QED
  <2>1. TakeRead \/ Read \/ (\E d \in Deflators : TakeDeflate(d) \/ Uncompress(d))
          \/ UNCHANGED vars => UNCHANGED <<main, cache, to_writer, writer>>
    BY DEF TakeRead, Read, TakeDeflate, Uncompress, vars, cacheVars
  <2>2. QED BY <1>9, <1>10, <1>11, <1>12, <1>13, <1>14, <1>15, <1>16, <1>17, <1>18, <2>1,
               NextCases

-----------------------------------------------------------------------------
(* What the writer has.                                                    *)
LEMMA NextPlace ==
  ASSUME Inv, writer.left # 0
  PROVE  /\ Len(writer.content) - writer.left + 1 \in 1 .. Len(writer.content)
         /\ writer.content[Len(writer.content) - writer.left + 1] \in Places
         /\ writer.left - 1 \in Nat /\ writer.left - 1 <= Len(writer.content)
<1>1. writer.left <= Len(writer.content)
  BY DEF Inv, WriterHolds
<1>2. /\ Len(writer.content) - writer.left + 1 \in 1 .. Len(writer.content)
      /\ writer.left - 1 \in Nat /\ writer.left - 1 <= Len(writer.content)
  BY <1>1, WriterFields
<1>3. QED BY <1>2, WriterFields

(* One more block of the file is written.                                  *)
LEMMA OneWritten ==
  ASSUME Inv, writer.left # 0, ~writer.failed, NEW p,
         p = writer.content[Len(writer.content) - writer.left + 1],
         writer'.content = writer.content, writer'.left = writer.left - 1,
         writer'.written = Append(writer.written, <<p, "plain">>)
  PROVE  /\ Len(writer'.written) = Len(writer'.content) - writer'.left
         /\ \A i \in 1 .. Len(writer'.written) :
              writer'.written[i] = <<writer'.content[i], "plain">>
<1> DEFINE n == Len(writer.written)
<1>1. /\ n = Len(writer.content) - writer.left
      /\ \A i \in 1 .. n : writer.written[i] = <<writer.content[i], "plain">>
  BY DEF Inv, WriterHolds
<1>2. p \in Places
  BY NextPlace
<1>3. <<p, "plain">> \in Written
  BY <1>2, PlaceIs DEF Written
<1>4. /\ Len(writer'.written) = n + 1 /\ n \in Nat
      /\ \A i \in 1 .. n : writer'.written[i] = writer.written[i]
      /\ writer'.written[n + 1] = <<p, "plain">>
  BY <1>3, WriterFields, AppendIs
<1> HIDE DEF n
<1>5. n + 1 = Len(writer.content) - (writer.left - 1) /\ n + 1 = Len(writer.content) - writer.left + 1
  BY <1>1, WriterFields
<1>6. ASSUME NEW i \in 1 .. n + 1 PROVE writer'.written[i] = <<writer.content[i], "plain">>
  <2>1. CASE i = n + 1
    BY <1>4, <1>5, <2>1
  <2>2. CASE i # n + 1
    <3>1. i \in 1 .. n
      BY <1>4, <2>2
    <3>2. QED BY <1>1, <1>4, <3>1
  <2>3. QED BY <2>1, <2>2
<1>7. QED BY <1>4, <1>5, <1>6

LEMMA WriterHoldsStep ==
  ASSUME Inv, [Next]_vars
  PROVE  WriterHolds'
<1>1. /\ writer.pc = "idle" => writer = IdleWriter
      /\ writer.left <= Len(writer.content)
      /\ writer.entry # NoEntry => writer.left # 0
                    /\ Fits(writer.entry, writer.content[Len(writer.content) - writer.left + 1])
      /\ ~writer.failed =>
           /\ Len(writer.written) = Len(writer.content) - writer.left
           /\ \A i \in 1 .. Len(writer.written) : writer.written[i] = <<writer.content[i], "plain">>
  BY DEF Inv, WriterHolds
<1>2. CASE CacheGet
  <2>1. UNCHANGED writer
    BY <1>2 DEF CacheGet
  <2>2. PICK e : e = writer.entry
    OBVIOUS
  <2>3. PICK p : p = writer.content[Len(writer.content) - writer.left + 1]
    OBVIOUS
  <2>4. e \in Entries => Block(e)' = Block(e)
    <3>1. PICK x \in Entries :
             /\ \A y \in Entries : y # x => Index(y)' = Index(y)
             /\ Index(x)' = Index(x) \/ Used(x) = 0
      BY <1>2, GetEffect
    <3>2. x = e => Used(x) # 0
      BY <2>2, HeldIs
    <3>3. e \in Entries => Index(e)' = Index(e)
      BY <3>1, <3>2
    <3>4. QED BY <3>3, BlockStill
  <2>5. Fits(e, p) => Fits(e, p)'
    BY <2>4 DEF Fits
  <2>6. writer.entry # NoEntry =>
          Fits(writer.entry, writer.content[Len(writer.content) - writer.left + 1])'
    <3>1. writer.entry # NoEntry => Fits(e, p)'
      BY <1>1, <2>2, <2>3, <2>5
    <3>2. QED BY <2>1, <2>2, <2>3, <3>1
  <2>7. QED BY <1>1, <2>1, <2>6 DEF WriterHolds
<1>3. CASE TakeItem
  <2>1. UNCHANGED cache /\ writer.entry = NoEntry
    BY <1>3, TakeIs DEF TakeItem, cacheVars
  <2>2. CASE UNCHANGED writer
    BY <1>1, <2>1, <2>2 DEF WriterHolds
  <2>3. ASSUME NEW l \in Seq(Places),
               writer' = [IdleWriter EXCEPT !.pc = "file", !.content = l, !.left = Len(l)]
        PROVE  WriterHolds'
    <3>1. /\ writer'.pc = "file" /\ writer'.content = l /\ writer'.left = Len(l)
          /\ writer'.entry = NoEntry /\ writer'.written = <<>>
      BY <2>3 DEF IdleWriter
    <3>2. Len(l) \in Nat /\ Len(l) - Len(l) = 0 /\ Len(l) <= Len(l)
      OBVIOUS
    <3>3. \A i \in 1 .. Len(writer'.written) : FALSE
      BY <3>1
    <3>4. Len(writer'.written) = 0
      BY <3>1
    <3>5. QED BY <3>1, <3>2, <3>3, <3>4 DEF WriterHolds
  <2>4. ASSUME NEW e \in Entries \cup {NoEntry}, writer.pc = "file", writer.left > 0,
               Fits(e, writer.content[Len(writer.content) - writer.left + 1]),
               writer' = IF e = NoEntry
                         THEN [writer EXCEPT !.left = @ - 1,
                                             !.written = Append(@, <<Hole, "plain">>)]
                         ELSE [writer EXCEPT !.entry = e]
        PROVE  WriterHolds'
    <3>1. PICK p : p = writer.content[Len(writer.content) - writer.left + 1]
      OBVIOUS
    <3>2. writer.left # 0
      BY <2>4, WriterFields
    <3>3. CASE e = NoEntry
      <4>1. p = Hole
        BY <2>4, <3>1, <3>3, EntryIs DEF Fits
      <4>2. /\ writer'.pc = "file" /\ writer'.content = writer.content
            /\ writer'.left = writer.left - 1 /\ writer'.entry = NoEntry
            /\ writer'.failed = writer.failed
            /\ writer'.written = Append(writer.written, <<p, "plain">>)
        BY <2>1, <2>4, <3>3, <4>1, WriterFields
      <4>3. ~writer.failed =>
              /\ Len(writer'.written) = Len(writer'.content) - writer'.left
              /\ \A i \in 1 .. Len(writer'.written) :
                   writer'.written[i] = <<writer'.content[i], "plain">>
        BY <3>1, <3>2, <4>2, OneWritten
      <4>4. writer'.left <= Len(writer'.content)
        BY <3>2, <4>2, NextPlace
      <4>5. QED BY <4>2, <4>3, <4>4 DEF WriterHolds
    <3>4. CASE e # NoEntry
      <4>1. /\ writer'.pc = "file" /\ writer'.content = writer.content
            /\ writer'.left = writer.left /\ writer'.entry = e
            /\ writer'.failed = writer.failed /\ writer'.written = writer.written
        BY <2>4, <3>4, WriterFields
      <4>2. Fits(e, p)'
        BY <2>1, <2>4, <3>1 DEF Fits, Block
      <4>3. Fits(writer.entry, writer.content[Len(writer.content) - writer.left + 1])'
        BY <3>1, <4>1, <4>2
      <4>4. QED BY <1>1, <3>2, <4>1, <4>3 DEF WriterHolds
    <3>5. QED BY <3>3, <3>4
  <2>5. QED BY <1>3, <2>2, <2>3, <2>4, TakeIs
<1>4. CASE WriteBlock
  <2>1. PICK e \in Entries :
          /\ writer.entry = e /\ e \notin pending
          /\ \/ writer' = [writer EXCEPT !.left = @ - 1, !.entry = NoEntry, !.failed = TRUE]
             \/ /\ ~writer.failed /\ e \notin error
                /\ writer' = [writer EXCEPT !.left = @ - 1, !.entry = NoEntry,
                                            !.written = Append(@, data[e])]
    BY <1>4, WriteEffect
  <2>2. PICK p : p = writer.content[Len(writer.content) - writer.left + 1]
    OBVIOUS
  <2>3. e # NoEntry /\ writer.left # 0 /\ Fits(e, p)
    BY <1>1, <2>1, <2>2, EntryIs
  <2>4. writer.pc = "file"
    <3>1. writer # IdleWriter
      BY <2>1, <2>3 DEF IdleWriter
    <3>2. QED BY <1>1, <3>1, WriterFields
  <2>5. writer.left - 1 <= Len(writer.content) /\ p \in Places
    BY <2>2, <2>3, NextPlace
  <2>6. CASE writer' = [writer EXCEPT !.left = @ - 1, !.entry = NoEntry, !.failed = TRUE]
    <3>1. /\ writer'.pc = "file" /\ writer'.content = writer.content
          /\ writer'.left = writer.left - 1 /\ writer'.entry = NoEntry /\ writer'.failed
      BY <2>4, <2>6, WriterFields
    <3>2. QED BY <2>5, <3>1 DEF WriterHolds
  <2>7. CASE /\ ~writer.failed /\ e \notin error
             /\ writer' = [writer EXCEPT !.left = @ - 1, !.entry = NoEntry,
                                         !.written = Append(@, data[e])]
    <3>1. p # Hole /\ Block(e) = p
      BY <2>3 DEF Fits
    <3>2. Index(e) # NoIndex
      <4>1. p[1] \in Caches /\ p[2] \in IndexesOf[p[1]] /\ p[2] # NoIndex
        BY <2>5, <3>1, PlaceIs, EntryIs
      <4>2. p = <<e[1], Index(e)>>
        BY <3>1 DEF Block, Index
      <4>3. p[2] = Index(e)
        BY <4>2
      <4>4. QED BY <4>1, <4>3
    <3>3. data[e] = <<p, "plain">>
      BY <2>1, <2>7, <3>1, <3>2 DEF Inv, Filled, Index
    <3>4. /\ writer'.pc = "file" /\ writer'.content = writer.content
          /\ writer'.left = writer.left - 1 /\ writer'.entry = NoEntry
          /\ writer'.failed = writer.failed
          /\ writer'.written = Append(writer.written, <<p, "plain">>)
      BY <2>4, <2>7, <3>3, WriterFields
    <3>5. /\ Len(writer'.written) = Len(writer'.content) - writer'.left
          /\ \A i \in 1 .. Len(writer'.written) :
               writer'.written[i] = <<writer'.content[i], "plain">>
      BY <2>2, <2>3, <2>7, <3>4, OneWritten
    <3>6. QED BY <2>5, <3>4, <3>5 DEF WriterHolds
  <2>8. QED BY <2>1, <2>6, <2>7
<1>5. CASE CloseFile
  <2>1. writer' = IdleWriter
    BY <1>5 DEF CloseFile
  <2>2. writer'.entry = NoEntry /\ writer'.left = 0 /\ writer'.content = <<>>
        /\ writer'.written = <<>>
    BY <2>1 DEF IdleWriter
  <2>3. Len(writer'.content) = 0 /\ Len(writer'.written) = 0
    BY <2>2
  <2>4. \A i \in 1 .. Len(writer'.written) : FALSE
    BY <2>3
  <2>5. QED BY <2>1, <2>2, <2>3, <2>4 DEF WriterHolds
<1>6. CASE UNCHANGED <<cache, writer>>
  BY <1>1, <1>6 DEF WriterHolds, Fits, Block
<1>7. QED
  <2>1. WriteFile \/ SparseBlock \/ PutBlock \/ Finish \/ Finished \/ TakeRead \/ Read
          \/ (\E d \in Deflators : TakeDeflate(d) \/ Uncompress(d))
          \/ UNCHANGED vars => UNCHANGED <<cache, writer>>
    BY DEF WriteFile, SparseBlock, PutBlock, Finish, Finished, TakeRead, Read, TakeDeflate,
           Uncompress, vars, cacheVars
  <2>2. QED BY <1>2, <1>3, <1>4, <1>5, <1>6, <2>1, NextCases

-----------------------------------------------------------------------------
(* Filled.                                                                 *)
Busy == Range(to_deflate) \cup Deflating

LEMMA FilledStep ==
  ASSUME Inv, [Next]_vars
  PROVE  Filled'
<1>1. \A e \in Entries : Index(e) # NoIndex =>
        /\ e \notin pending /\ e \notin error => data[e] = <<Block(e), "plain">>
        /\ e \in Busy => data[e] = <<Block(e), "raw">>
  BY DEF Inv, Filled, Index, Busy
<1>2. ASSUME \A e \in Entries : Index(e)' # NoIndex =>
               /\ e \notin pending' /\ e \notin error' => data'[e] = <<Block(e)', "plain">>
               /\ e \in Busy' => data'[e] = <<Block(e)', "raw">>
      PROVE  Filled'
  BY <1>2 DEF Filled, Index, Busy
<1>3. ASSUME UNCHANGED <<pending, error, data>>, Busy' \subseteq Busy,
             \A e \in Entries : Index(e)' = Index(e)
      PROVE  Filled'
  <2>1. \A e \in Entries : Block(e)' = Block(e)
    BY <1>3, BlockStill
  <2>2. QED BY <1>1, <1>2, <1>3, <2>1
<1>4. data \in [Entries -> Written]
  BY ReadFields
<1>5. CASE CacheGet
  <2>1. UNCHANGED <<data, to_deflate, deflator>>
    BY <1>5 DEF CacheGet
  <2>2. Busy' = Busy
    BY <2>1 DEF Busy, Deflating
  <2>3. PICK e \in Entries :
          /\ \A x \in Entries : x # e => Index(x)' = Index(x)
          /\ \/ Index(e)' = Index(e) /\ UNCHANGED <<pending, error>>
             \/ /\ Used(e) = 0
                /\ pending' = pending \cup {e} /\ error' = error \ {e}
    BY <1>5, GetEffect
  <2>4. CASE Index(e)' = Index(e) /\ UNCHANGED <<pending, error>>
    BY <1>3, <2>1, <2>2, <2>3, <2>4
  <2>5. CASE Used(e) = 0 /\ pending' = pending \cup {e} /\ error' = error \ {e}
    <3>1. e \notin Busy
      <4>1. e \notin pending
        BY <2>5, HeldIs
      <4>2. QED BY <4>1, ReadingIs DEF Busy
    <3>2. \A x \in Entries : x # e => Block(x)' = Block(x)
      BY <2>3, BlockStill
    <3>3. QED BY <1>1, <1>2, <2>1, <2>2, <2>3, <2>5, <3>1, <3>2
  <2>6. QED BY <2>3, <2>4, <2>5
<1>6. CASE TakeRead
  <2>1. UNCHANGED <<pending, error, data, cache, to_deflate, deflator>>
    BY <1>6 DEF TakeRead, cacheVars
  <2>2. Busy' = Busy
    BY <2>1 DEF Busy, Deflating
  <2>3. QED BY <1>3, <2>1, <2>2, CacheStill
<1>7. CASE Read
  <2>1. PICK e : e = reader
    OBVIOUS
  <2>2. e \in Entries /\ UNCHANGED <<cache, deflator>> /\ reader # NoEntry
    BY <1>7, <2>1, ReadFields DEF Read
  <2>3. e \notin Busy /\ e \in pending
    BY <2>1, <2>2, ReadingIs DEF Busy, Taken
  <2>4. \A x \in Entries : Index(x)' = Index(x) /\ Block(x)' = Block(x)
    BY <2>2, CacheStill
  <2>5. \/ /\ data' = [data EXCEPT ![e] = <<Block(e), "raw">>]
           /\ to_deflate' = Append(to_deflate, e) /\ UNCHANGED <<pending, error>>
        \/ /\ data' = [data EXCEPT ![e] = <<Block(e), "plain">>]
           /\ pending' = pending \ {e} /\ error' = error \ {e} /\ UNCHANGED to_deflate
        \/ /\ data' = [data EXCEPT ![e] = <<NoEntry, "raw">>]
           /\ pending' = pending \ {e} /\ error' = error \cup {e} /\ UNCHANGED to_deflate
    BY <1>7, <2>1 DEF Read, BlockReady
  <2>6. CASE /\ data' = [data EXCEPT ![e] = <<Block(e), "raw">>]
             /\ to_deflate' = Append(to_deflate, e) /\ UNCHANGED <<pending, error>>
    <3>1. Busy' = Busy \cup {e}
      <4>1. Range(Append(to_deflate, e)) = Range(to_deflate) \cup {e}
        BY <2>2, ReadFields, AppendOnce
      <4>2. QED BY <2>2, <2>6, <4>1 DEF Busy, Deflating
    <3>2. QED BY <1>1, <1>2, <1>4, <2>2, <2>3, <2>4, <2>6, <3>1
  <2>7. CASE /\ data' = [data EXCEPT ![e] = <<Block(e), "plain">>]
             /\ pending' = pending \ {e} /\ error' = error \ {e} /\ UNCHANGED to_deflate
    <3>1. Busy' = Busy
      BY <2>2, <2>7 DEF Busy, Deflating
    <3>2. QED BY <1>1, <1>2, <1>4, <2>2, <2>3, <2>4, <2>7, <3>1
  <2>8. CASE /\ data' = [data EXCEPT ![e] = <<NoEntry, "raw">>]
             /\ pending' = pending \ {e} /\ error' = error \cup {e} /\ UNCHANGED to_deflate
    <3>1. Busy' = Busy
      BY <2>2, <2>8 DEF Busy, Deflating
    <3>2. QED BY <1>1, <1>2, <1>4, <2>2, <2>3, <2>4, <2>8, <3>1
  <2>9. QED BY <2>5, <2>6, <2>7, <2>8
<1>8. ASSUME NEW d \in Deflators, TakeDeflate(d) PROVE Filled'
  <2>1. PICK e : e = Head(to_deflate)
    OBVIOUS
  <2>2. /\ deflator[d] = NoEntry /\ to_deflate # <<>>
        /\ deflator' = [deflator EXCEPT ![d] = e] /\ to_deflate' = Tail(to_deflate)
        /\ UNCHANGED <<pending, error, data, cache>>
    BY <1>8, <2>1 DEF TakeDeflate, cacheVars
  <2>3. Range(to_deflate') = Range(to_deflate) \ {e} /\ e \in Range(to_deflate) /\ e \in Entries
    <3>1. to_deflate \in Seq(Entries) /\ IsInjective(to_deflate)
      BY ReadFields, ReadingIs
    <3>2. /\ Range(Tail(to_deflate)) = Range(to_deflate) \ {e} /\ e \in Range(to_deflate)
      BY <2>1, <2>2, <3>1, TailOnce
    <3>3. QED BY <2>1, <2>2, <3>1, <3>2, TailIs
  <2>4. e \notin Deflating
    BY <2>3, ReadingIs
  <2>5. Deflating' = Deflating \cup {e}
    BY <2>2, <2>3, <2>4, DeflatorTakes
  <2>6. Busy' \subseteq Busy
    BY <2>3, <2>5 DEF Busy
  <2>7. QED BY <1>3, <2>2, <2>6, CacheStill
<1>9. ASSUME NEW d \in Deflators, Uncompress(d) PROVE Filled'
  <2>1. PICK e : e = deflator[d]
    OBVIOUS
  <2>2. /\ e \in Entries /\ deflator' = [deflator EXCEPT ![d] = NoEntry]
        /\ UNCHANGED <<cache, to_deflate>>
    BY <1>9, <2>1, ReadFields DEF Uncompress
  <2>3. PICK failed \in BOOLEAN :
          /\ data' = IF failed THEN data ELSE [data EXCEPT ![e][2] = "plain"]
          /\ pending' = pending \ {e}
          /\ error' = IF failed THEN error \cup {e} ELSE error \ {e}
    BY <1>9, <2>1 DEF Uncompress, BlockReady
  <2>4. Deflating' = Deflating \ {e} /\ e \in Deflating
    BY <2>1, <2>2, DeflatorReturns
  <2>5. Busy' = Busy \ {e} /\ e \in Busy
    <3>1. e \notin Range(to_deflate)
      BY <2>4, ReadingIs
    <3>2. QED BY <2>2, <2>4, <3>1 DEF Busy
  <2>6. \A x \in Entries : Index(x)' = Index(x) /\ Block(x)' = Block(x)
    BY <2>2, CacheStill
  <2>7. CASE failed
    BY <1>1, <1>2, <2>3, <2>5, <2>6, <2>7
  <2>8. CASE ~failed
    <3>1. data' = [data EXCEPT ![e] = <<data[e][1], "plain">>]
      BY <1>4, <2>2, <2>3, <2>8, PlainIs
    <3>2. Index(e) # NoIndex => data'[e] = <<Block(e), "plain">>
      <4>1. Index(e) # NoIndex => data[e] = <<Block(e), "raw">>
        BY <1>1, <2>2, <2>5
      <4>2. <<Block(e), "raw">>[1] = Block(e)
        OBVIOUS
      <4>3. QED BY <1>4, <2>2, <3>1, <4>1, <4>2
    <3>3. \A x \in Entries : x # e => data'[x] = data[x]
      BY <1>4, <3>1
    <3>4. QED BY <1>1, <1>2, <2>3, <2>5, <2>6, <2>8, <3>2, <3>3
  <2>9. QED BY <2>7, <2>8
<1>10. CASE WriteBlock
  <2>1. UNCHANGED <<pending, error, data, to_deflate, deflator>>
    BY <1>10 DEF WriteBlock, readVars
  <2>2. Busy' = Busy
    BY <2>1 DEF Busy, Deflating
  <2>3. \A x \in Entries : Index(x)' = Index(x)
    BY <1>10, WriteEffect
  <2>4. QED BY <1>3, <2>1, <2>2, <2>3
<1>11. CASE UNCHANGED <<cacheVars, data, readVars>>
  <2>1. Busy' = Busy /\ UNCHANGED <<cache, pending, error, data>>
    BY <1>11 DEF Busy, Deflating, readVars, cacheVars
  <2>2. QED BY <1>3, <2>1, CacheStill
<1>12. QED
  <2>1. WriteFile \/ SparseBlock \/ PutBlock \/ Finish \/ Finished \/ TakeItem \/ CloseFile
          \/ UNCHANGED vars => UNCHANGED <<cacheVars, data, readVars>>
    BY DEF WriteFile, SparseBlock, PutBlock, Finish, Finished, TakeItem, CloseFile, vars
  <2>2. QED BY <1>5, <1>6, <1>7, <1>8, <1>9, <1>10, <1>11, <2>1, NextCases

-----------------------------------------------------------------------------
(* The invariant.                                                          *)
LEMMA InvInit == Init => Inv
<1> SUFFICES ASSUME Init PROVE Inv
  OBVIOUS
<1>1. /\ main = Idle /\ files = [created |-> 0, kept |-> 0, unlinked |-> 0]
      /\ cache = [c \in Caches |-> CacheInit(c)]
      /\ pending = {} /\ error = {} /\ data = [e \in Entries |-> <<NoEntry, "raw">>]
      /\ to_reader = <<>> /\ reader = NoEntry
      /\ to_deflate = <<>> /\ deflator = [d \in Deflators |-> NoEntry]
      /\ to_writer = <<>> /\ writer = IdleWriter /\ from_writer = <<>>
  BY DEF Init
<1>2. ASSUME NEW c \in Caches
      PROVE  /\ CacheKept(cache[c], BuffersOf[c], IndexesOf[c])
             /\ \A b \in BuffersOf[c] : cache[c].used[b] = 0 /\ cache[c].index[b] = NoIndex
  <2>1. cache[c] = EmptyCache(BuffersOf[c], IndexesOf[c])
    BY <1>1 DEF CacheInit
  <2>2. NoIndex \notin IndexesOf[c]
    BY EntryIs
  <2>3. /\ CacheKept(cache[c], BuffersOf[c], IndexesOf[c])
        /\ cache[c].used = [b \in BuffersOf[c] |-> 0]
        /\ cache[c].index = [b \in BuffersOf[c] |-> NoIndex]
    BY <2>1, <2>2, EmptyKept
  <2>4. QED BY <2>3
<1>3. CachesKept
  BY <1>1, <1>2 DEF CachesKept
<1>4. ASSUME NEW e \in Entries PROVE Used(e) = 0 /\ Index(e) = NoIndex
  <2>1. PICK c, b : c \in Caches /\ b \in BuffersOf[c] /\ c = e[1] /\ b = e[2]
    BY EntryIs
  <2>2. cache[c].used[b] = 0 /\ cache[c].index[b] = NoIndex
    BY <1>2, <2>1
  <2>3. QED BY <2>1, <2>2 DEF Used, Index
<1>5. \A S : <<>> \in Seq(S) /\ Len(<<>>) = 0 /\ Range(<<>>) = {} /\ IsInjective(<<>>)
  BY EmptyOnce
<1>6. Taken = {} /\ Deflating = {}
  BY <1>1 DEF Taken, Deflating
<1>7. ReadTyped
  <2>1. <<NoEntry, "raw">> \in Written
    BY DEF Written, Texts
  <2>2. to_reader \in Seq(Entries) /\ to_deflate \in Seq(Entries)
    BY <1>1, <1>5
  <2>3. QED BY <1>1, <2>1, <2>2 DEF ReadTyped
<1>8. MainTyped
  <2>1. <<>> \in Seq(Places)
    BY <1>5
  <2>2. QED BY <1>1, <2>1 DEF MainTyped, Idle
<1>9. WriterTyped
  <2>1. to_writer \in Seq(Items) /\ Len(to_writer) = 0 /\ from_writer \in Seq({Flush})
        /\ Len(from_writer) = 0
    BY <1>1, <1>5
  <2>2. 0 <= WriterQueue /\ 0 <= 1
    BY DEF QueueAssumption
  <2>3. QED BY <1>1, <2>1, <2>2, WriterSpace DEF WriterTyped
<1>10. FilesTyped
  BY <1>1 DEF FilesTyped
<1>11. Reading
  BY <1>1, <1>5, <1>6 DEF Reading
<1>12. Holding
  <2>1. \A e : ItemsOf(e) = 0
    BY <1>1, CountEmpty DEF ItemsOf
  <2>2. \A e \in Entries : MainHas(e) = 0 /\ WriterHas(e) = 0
    BY <1>1, EntryIs DEF MainHas, WriterHas, Idle, IdleWriter
  <2>3. QED BY <1>4, <2>1, <2>2 DEF Holding
<1>13. Stream
  <2>1. PICK l \in Seq(Places) : l = <<>> /\ Len(l) = 0
    BY EmptySeq
  <2>2. PICK w : w = Point(l, 0)
    OBVIOUS
  <2>3. w \in Points /\ w.content = l /\ w.taken = 0
    BY <2>2, PointIs
  <2>4. WriterAt = w
    <3>1. WriterAt = Point(<<>>, 0 - 0 + 0)
      BY <1>1, <2>1 DEF WriterAt, IdleWriter
    <3>2. QED BY <2>1, <2>2, <3>1
  <2>5. MainAt(w)
    BY <1>1, <2>1, <2>3 DEF MainAt, AtEnd, Idle
  <2>6. PICK at : at = [k \in 0 .. 0 |-> w]
    OBVIOUS
  <2>7. at \in [0 .. 0 -> Points] /\ at[0] = w /\ Len(to_writer) = 0
        /\ \A k \in 1 .. 0 : FALSE
    BY <1>1, <1>5, <2>3, <2>6
  <2>8. StreamBy(at)
    BY <2>4, <2>5, <2>7 DEF StreamBy
  <2>9. QED BY <2>7, <2>8 DEF Stream
<1>14. WriterHolds
  <2>1. writer.entry = NoEntry /\ writer.left = 0 /\ writer.content = <<>>
        /\ writer.written = <<>>
    BY <1>1 DEF IdleWriter
  <2>2. Len(writer.content) = 0 /\ Len(writer.written) = 0 /\ \A i \in 1 .. 0 : FALSE
    BY <1>5, <2>1
  <2>3. QED BY <1>1, <2>1, <2>2 DEF WriterHolds
<1>15. FlushLast
  <2>1. main.pc = "idle" /\ Len(to_writer) = 0 /\ \A k \in 1 .. 0 : FALSE
    BY <1>1, <1>5 DEF Idle
  <2>2. QED BY <1>1, <2>1 DEF FlushLast
<1>16. FilesCounted
  <2>1. CountIn(to_writer, FileItems) = 0
    BY <1>1, CountEmpty
  <2>2. writer.pc = "idle"
    BY <1>1 DEF IdleWriter
  <2>3. QED BY <1>1, <2>1, <2>2 DEF FilesCounted
<1>17. Filled
  BY <1>4 DEF Filled, Index
<1>18. QED BY <1>3, <1>7, <1>8, <1>9, <1>10, <1>11, <1>12, <1>13, <1>14, <1>15, <1>16, <1>17
            DEF Inv, Typed

LEMMA InvStep == Inv /\ [Next]_vars => Inv'
<1> SUFFICES ASSUME Inv, [Next]_vars PROVE Inv'
  OBVIOUS
<1>1. QED BY TypedStep, ReadingStep, HoldingStep, StreamStep, WriterHoldsStep, FlushLastStep,
             FilesCountedStep, FilledStep DEF Inv

LEMMA InvAlways == Spec => []Inv
BY InvInit, InvStep, PTL DEF Spec

-----------------------------------------------------------------------------
(* What the invariant says to a reader of the code.                        *)
LEMMA InvTypes == Inv => TypeOK
<1> SUFFICES ASSUME Inv PROVE TypeOK
  OBVIOUS
<1>1. /\ pending \subseteq Entries /\ error \subseteq Entries
      /\ to_reader \in Seq(Entries) /\ to_deflate \in Seq(Entries)
  BY DEF Inv, Typed, ReadTyped
<1>2. Range(to_reader) \cup Range(to_deflate) \subseteq Entries
  BY <1>1 DEF Inv, Reading
<1>3. Len(to_reader) <= Cardinality(Entries)
  BY <1>1, EntryIs, OnceShort DEF Inv, Reading
<1>4. Len(to_deflate) <= Cardinality(Entries)
  BY <1>1, EntryIs, OnceShort DEF Inv, Reading
<1>5. main.pc \in {"idle", "get", "put", "flush", "done"} /\ main.entry \in Entries \cup {NoEntry}
  BY DEF Inv, Typed, MainTyped
<1>6. Len(to_writer) <= WriterQueue /\ Len(from_writer) <= 1
  BY DEF Inv, Typed, WriterTyped
<1>7. QED BY <1>1, <1>2, <1>3, <1>4, <1>5, <1>6 DEF TypeOK

LEMMA TimesIs ==
  ASSUME NEW T, NEW s \in Seq(T), IsInjective(s), NEW e
  PROVE  Times(e, s) = IF e \in Range(s) THEN 1 ELSE 0
<1> DEFINE D == {i \in DOMAIN s : s[i] = e}
<1>1. CASE e \in Range(s)
  <2>1. PICK i \in DOMAIN s : s[i] = e
    BY <1>1 DEF Range
  <2>2. D = {i}
    BY <2>1 DEF IsInjective
  <2>3. QED BY <1>1, <2>2, FS_Singleton DEF Times
<1>2. CASE e \notin Range(s)
  <2>1. D = {}
    BY <1>2 DEF Range
  <2>2. QED BY <1>2, <2>1, FS_EmptySet DEF Times
<1>3. QED BY <1>1, <1>2

LEMMA InvReadOnce == Inv => ReadOnce
<1> SUFFICES ASSUME Inv, NEW e \in Entries
             PROVE  /\ Readers(e) = (IF e \in pending THEN 1 ELSE 0)
                    /\ e \in pending => Used(e) > 0
  BY DEF ReadOnce
<1> DEFINE D == {d \in Deflators : deflator[d] = e}
<1>1. /\ to_reader \in Seq(Entries) /\ IsInjective(to_reader)
      /\ to_deflate \in Seq(Entries) /\ IsInjective(to_deflate)
  BY DEF Inv, Typed, ReadTyped, Reading
<1>2. e # NoEntry
  BY EntryIs
<1>3. Times(e, to_reader) = IF e \in Range(to_reader) THEN 1 ELSE 0
  BY <1>1, TimesIs
<1>4. Times(e, to_deflate) = IF e \in Range(to_deflate) THEN 1 ELSE 0
  BY <1>1, TimesIs
<1>5. Cardinality(D) = IF e \in Deflating THEN 1 ELSE 0
  <2>1. CASE e \in Deflating
    <3>1. PICK d \in Deflators : deflator[d] = e
      BY <2>1 DEF Deflating
    <3>2. \A f, g \in Deflators : deflator[f] = deflator[g] /\ deflator[f] # NoEntry => f = g
      BY DEF Inv, Reading
    <3>3. D = {d}
      BY <1>2, <3>1, <3>2
    <3>4. QED BY <2>1, <3>3, FS_Singleton
  <2>2. CASE e \notin Deflating
    <3>1. D = {}
      BY <1>2, <2>2 DEF Deflating
    <3>2. QED BY <2>2, <3>1, FS_EmptySet
  <2>3. QED BY <2>1, <2>2
<1>6. reader = e <=> e \in Taken
  BY <1>2 DEF Taken
<1>7. Readers(e) = (IF e \in Range(to_reader) THEN 1 ELSE 0)
                   + (IF e \in Range(to_deflate) THEN 1 ELSE 0)
                   + (IF e \in Taken THEN 1 ELSE 0) + (IF e \in Deflating THEN 1 ELSE 0)
  BY <1>3, <1>4, <1>5, <1>6 DEF Readers
<1>8. /\ ~(e \in Range(to_reader) /\ e \in Taken)
      /\ ~(e \in Range(to_reader) /\ e \in Range(to_deflate))
      /\ ~(e \in Range(to_reader) /\ e \in Deflating)
      /\ ~(e \in Range(to_deflate) /\ e \in Taken)
      /\ ~(e \in Range(to_deflate) /\ e \in Deflating)
      /\ ~(e \in Deflating /\ e \in Taken)
      /\ e \in pending <=> \/ e \in Range(to_reader) \/ e \in Range(to_deflate)
                           \/ e \in Taken \/ e \in Deflating
  BY DEF Inv, Reading
<1>9. Readers(e) = IF e \in pending THEN 1 ELSE 0
  BY <1>7, <1>8
<1>10. e \in pending => Used(e) > 0
  <2>1. Used(e) \in Nat
    BY CachesAre DEF Inv, Typed
  <2>2. e \in pending => Used(e) # 0
    BY DEF Inv, Reading
  <2>3. QED BY <2>1, <2>2
<1>11. QED BY <1>9, <1>10

LEMMA InvHeldIsUsed == Inv => HeldIsUsed
<1> SUFFICES ASSUME Inv PROVE HeldIsUsed
  OBVIOUS
<1>1. ASSUME NEW c \in Caches PROVE WellFormed(cache[c])
  BY CachesAre DEF Inv, Typed, CacheKept
<1>2. ASSUME NEW e \in Entries PROVE Used(e) >= Holders(e)
  <2>1. to_writer \in Seq(Items)
    BY DEF Inv, Typed, WriterTyped
  <2>2. ASSUME NEW i \in DOMAIN to_writer
        PROVE  "entry" \in DOMAIN to_writer[i] /\ to_writer[i].entry = e
                 <=> to_writer[i] \in {[entry |-> e]}
    <3>1. PICK item \in Items : item = to_writer[i]
      BY <2>1
    <3>2. "entry" \in DOMAIN item /\ item.entry = e <=> item = [entry |-> e]
      <4>1. CASE item \in FileItems \/ item = Flush
        BY <4>1, ItemIs
      <4>2. CASE item \in [entry : Entries \cup {NoEntry}]
        <5>1. PICK f : item = [entry |-> f]
          BY <4>2
        <5>2. QED BY <5>1, ItemIs
      <4>3. QED BY <4>1, <4>2 DEF Items
    <3>3. QED BY <3>1, <3>2
  <2>3. Queued(e) = ItemsOf(e)
    <3>1. {i \in DOMAIN to_writer : "entry" \in DOMAIN to_writer[i] /\ to_writer[i].entry = e}
            = {i \in DOMAIN to_writer : to_writer[i] \in {[entry |-> e]}}
      BY <2>2
    <3>2. QED BY <3>1 DEF Queued, ItemsOf, CountIn
  <2>4. Holders(e) = ItemsOf(e) + MainHas(e) + WriterHas(e)
    BY <2>3 DEF Holders, MainHas, WriterHas
  <2>5. ItemsOf(e) \in Nat /\ Used(e) \in Nat
    BY <2>1, CountFinite, CachesAre DEF ItemsOf, Inv, Typed
  <2>6. MainHas(e) \in Nat /\ WriterHas(e) \in Nat
    BY DEF MainHas, WriterHas
  <2>7. ItemsOf(e) + MainHas(e) + WriterHas(e) <= Used(e)
    BY DEF Inv, Holding
  <2>8. QED BY <2>4, <2>5, <2>6, <2>7
<1>3. QED BY <1>1, <1>2 DEF HeldIsUsed

LEMMA InvKeptWhole == Inv => KeptWhole
<1> SUFFICES ASSUME Inv PROVE KeptWhole
  OBVIOUS
<1>1. writer.content \in Seq(Places) /\ writer.written \in Seq(Written)
  BY DEF Inv, Typed, WriterTyped
<1>2. ASSUME writer.left = 0, ~writer.failed
      PROVE  /\ DOMAIN writer.written = DOMAIN writer.content
             /\ \A i \in DOMAIN writer.written :
                  writer.written[i] = <<writer.content[i], "plain">>
  <2>1. /\ Len(writer.written) = Len(writer.content) - writer.left
        /\ \A i \in 1 .. Len(writer.written) :
             writer.written[i] = <<writer.content[i], "plain">>
    BY <1>2 DEF Inv, WriterHolds
  <2>2. Len(writer.written) = Len(writer.content)
    BY <1>1, <1>2, <2>1
  <2>3. DOMAIN writer.written = 1 .. Len(writer.written)
        /\ DOMAIN writer.content = 1 .. Len(writer.content)
    BY <1>1
  <2>4. QED BY <2>1, <2>2, <2>3
<1>3. ASSUME main.pc = "done" PROVE files.created = files.kept + files.unlinked
  <2>1. to_writer = <<>> /\ writer.pc = "idle"
    BY <1>3 DEF Inv, FlushLast
  <2>2. CountIn(to_writer, FileItems) = 0
    BY <2>1, CountEmpty
  <2>3. files.created \in Nat /\ files.kept \in Nat /\ files.unlinked \in Nat
    BY DEF Inv, Typed, FilesTyped
  <2>4. QED BY <2>1, <2>2, <2>3 DEF Inv, FilesCounted
<1>4. QED BY <1>2, <1>3 DEF KeptWhole

(* Every variable of unsquashfs has its type, and there are never more     *)
(* blocks queued for the reader, or for the deflators, than the caches     *)
(* have buffers: queue_init makes those queues as long as the caches, so   *)
(* cache_get and the reader never wait for room in them.                   *)
THEOREM ThreadsTyped == Spec => []TypeOK
BY InvAlways, InvTypes, PTL

(* A cache entry is pending exactly while one of the reader and the        *)
(* deflators, and no second, is to fill it, and cache_get does not give it *)
(* to another block meanwhile, as it has a user.                           *)
THEOREM ReadByOne == Spec => []ReadOnce
BY InvAlways, InvReadOnce, PTL

(* The free list and the hash chains of both caches stay well formed, and  *)
(* an entry main, to_writer or the writer has, however often, counts as    *)
(* many users: cache_block_put never frees an entry that is still to be    *)
(* written.                                                                *)
THEOREM HeldInUse == Spec => []HeldIsUsed
BY InvAlways, InvHeldIsUsed, PTL

(* A file the writer closes and keeps was written from its own blocks, in  *)
(* order and uncompressed, and when main is told that the writer is at the *)
(* end every file it created was kept or unlinked.                         *)
THEOREM FilesKeptWhole == Spec => []KeptWhole
BY InvAlways, InvKeptWhole, PTL

=============================================================================
