--------------------------- MODULE MkCacheProofs ---------------------------
(***************************************************************************)
(* The caches of mksquashfs, for any number of frag_deflators and buffers, *)
(* any sizes, files, blocks and fragments: the use counts are exact, and   *)
(* main finds the block or the fragment it looks for.                      *)
(***************************************************************************)
EXTENDS MkCache, BufferCacheProofs

USE SizesAssumption, DeflatorsAssumption, BoundsAssumption, BuffersAssumption,
    IndexAssumption, NoEntryAssumption

-----------------------------------------------------------------------------
(* Types.                                                                  *)
Owners == {<<"nothing">>} \cup {BlockOf(n, i) : n, i \in Nat} \cup {FragOf(f) : f \in Frags}
Extents == [owner : Owners, pos : 0 .. MaxBytes, size : Nat]
Files == [list : Seq(Extents), frag : Frags \cup {NoFragment}]
Fetches == [frag : Frags \cup {NoFragment}, compressed : Buffers \cup {NoBuffer},
            buffer : FragmentBuffers \cup {NoBuffer}]
Filled == [frag : Frags, from : FragmentBuffers]
Pending == [frag : Frags, buffer : Buffers]
Working == [state : {"settle", "pend"}, frag : Frags, from : FragmentBuffers,
            to : Buffers, size : Nat]

CachesKept == /\ CacheKept(writer_buffer, Buffers, Indexes)
              /\ CacheKept(fragment_buffer, FragmentBuffers, Frags)
Places == {"idle", "file", "compare", "get", "read", "flush", "unlock", "fill", "exited"}
Mains == [pc : Places, mode : {"none", "dup", "blocks", "fragment"}, id : Nat,
          start : 0 .. MaxBytes, blocks : Nat, tail : BOOLEAN, thresh : Nat,
          list : Seq(Extents), held : Seq(Buffers), next : {"idle", "fill", "unlock"},
          fetch : Fetches]
MainTyped == main \in Mains
QueuesTyped ==
  /\ to_writer \in Seq(Buffers) /\ to_frag \in Seq(Filled)
  /\ frag_locked_list \in Seq(Pending) /\ fragments_locked \in BOOLEAN
  /\ frag_deflator \in [FragDeflators -> {IdleDeflator} \cup Working]
OutputTyped ==
  /\ files \in Seq(Files) /\ bytes \in 0 .. MaxBytes
  /\ data \in [Buffers -> Extents] /\ disk \in [1 .. MaxBytes -> Owners]
  /\ fragments \in Nat /\ fragment_data \in FragmentBuffers \cup {NoBuffer}
  /\ fragment_table \in [Frags -> Extents \cup {NoEntry}]

Typed == CachesKept /\ MainTyped /\ QueuesTyped /\ OutputTyped

(* Where main is, and what it has there.                                   *)
MainShape ==
  /\ main.pc \notin {"get", "read", "exited"} => main.fetch = NoFetch
  /\ main.pc \in {"get", "read"} => main.fetch.frag \in Frags
  /\ main.pc = "get" => main.fetch.buffer = NoBuffer
  /\ main.pc = "read" => main.fetch.buffer # NoBuffer
  /\ main.pc = "idle" => main.list = <<>>
  /\ main.pc = "file" => main.mode \in {"dup", "blocks"}
  /\ main.held # <<>> =>
       /\ main.mode = "dup"
       /\ main.pc \in {"file", "compare", "get", "read", "exited", "flush", "unlock"}
       /\ main.pc \in {"flush", "unlock"} => (main.next = "idle" /\ main.list = <<>>)
  /\ fragment_data # NoBuffer => fragments < MaxFragments
  /\ fragments <= MaxFragments

(* Each buffer of the writer cache in use is in one place at most, besides *)
(* the use main makes of it while it fetches a fragment.                   *)
PendingIn(b) == {p \in Pending : p.buffer = b}
FilledFrom(b) == {p \in Filled : p.from = b}
Owned(b) == CountIn(to_writer, {b}) + CountIn(main.held, {b}) + One(b \in Ready)
            + CountIn(frag_locked_list, PendingIn(b)) + Deflating(b, "to")
WriterUsed ==
  \A b \in Buffers : /\ writer_buffer.used[b] = Owned(b) + One(main.fetch.compressed = b)
                     /\ Owned(b) <= 1
FragUsed ==
  \A b \in FragmentBuffers :
    /\ fragment_buffer.used[b] = One(fragment_data = b) + One(main.fetch.buffer = b)
                                 + Deflating(b, "from") + CountIn(to_frag, FilledFrom(b))
    /\ fragment_buffer.used[b] <= 1

UseInv == Typed /\ MainShape /\ WriterUsed /\ FragUsed

-----------------------------------------------------------------------------
(* The indexes of the two caches, and the parts of the state.              *)
LEMMA IndexesAre ==
  /\ NoIndex \notin Indexes /\ NoIndex \notin Frags
  /\ 0 .. MaxBytes \subseteq Indexes
  /\ \A f \in Frags : f \in Nat /\ FragIndex + f \in Indexes /\ FragIndex + f \notin 0 .. MaxBytes
  /\ NoFragment \notin Frags
<1>1. \A f \in Frags : f \in Nat
  BY DEF Frags
<1>2. \A f \in Frags : FragIndex + f \in Indexes /\ FragIndex + f \notin 0 .. MaxBytes
  BY <1>1 DEF Indexes
<1>3. NoIndex \notin Indexes /\ NoIndex \notin Frags /\ NoFragment \notin Frags
  BY <1>1 DEF NoIndex, NoFragment, Indexes
<1>4. QED BY <1>1, <1>2, <1>3 DEF Indexes

LEMMA CachesAre ==
  ASSUME CachesKept
  PROVE  /\ CacheKept(writer_buffer, Buffers, Indexes)
         /\ CacheKept(fragment_buffer, FragmentBuffers, Frags)
         /\ writer_buffer.used \in [Buffers -> Nat]
         /\ writer_buffer.index \in [Buffers -> Indexes \cup {NoIndex}]
         /\ fragment_buffer.used \in [FragmentBuffers -> Nat]
         /\ fragment_buffer.index \in [FragmentBuffers -> Frags \cup {NoIndex}]
BY DEF CachesKept, CacheKept, CacheTyped

LEMMA MainFields ==
  ASSUME MainTyped
  PROVE  /\ main.list \in Seq(Extents) /\ main.held \in Seq(Buffers) /\ main.fetch \in Fetches
         /\ main.id \in Nat /\ main.start \in 0 .. MaxBytes /\ main.blocks \in Nat
         /\ main.thresh \in Nat /\ main.tail \in BOOLEAN
         /\ main.fetch.frag \in Frags \cup {NoFragment}
         /\ main.fetch.compressed \in Buffers \cup {NoBuffer}
         /\ main.fetch.buffer \in FragmentBuffers \cup {NoBuffer}
<1>1. /\ main.list \in Seq(Extents) /\ main.held \in Seq(Buffers) /\ main.fetch \in Fetches
      /\ main.id \in Nat /\ main.start \in 0 .. MaxBytes /\ main.blocks \in Nat
      /\ main.thresh \in Nat /\ main.tail \in BOOLEAN
  BY DEF MainTyped, Mains
<1>2. QED BY <1>1 DEF Fetches

LEMMA WorkingIs ==
  ASSUME QueuesTyped, NEW d \in FragDeflators
  PROVE  /\ frag_deflator[d].state \in {"settle", "pend"} <=> frag_deflator[d] # IdleDeflator
         /\ frag_deflator[d] # IdleDeflator =>
              /\ frag_deflator[d] \in Working /\ frag_deflator[d].frag \in Frags
              /\ frag_deflator[d].from \in FragmentBuffers /\ frag_deflator[d].to \in Buffers
         /\ frag_deflator[d] = IdleDeflator =>
              /\ frag_deflator[d].frag = NoFragment
              /\ frag_deflator[d].from = NoBuffer /\ frag_deflator[d].to = NoBuffer
<1>1. frag_deflator[d] \in {IdleDeflator} \cup Working
  BY DEF QueuesTyped
<1>2. /\ IdleDeflator.state = "idle" /\ IdleDeflator.frag = NoFragment
      /\ IdleDeflator.from = NoBuffer /\ IdleDeflator.to = NoBuffer
  BY DEF IdleDeflator
<1>3. \A w \in Working : /\ w.state \in {"settle", "pend"} /\ w.frag \in Frags
                         /\ w.from \in FragmentBuffers /\ w.to \in Buffers
  BY DEF Working
<1>4. QED BY <1>1, <1>2, <1>3

(* What can happen, one step at a time.                                    *)
LEMMA NextCases ==
  ASSUME [Next]_vars
  PROVE  \/ Compress \/ Write
         \/ \E d \in FragDeflators : CompressFragment(d)
         \/ \E d \in FragDeflators : SettleFragment(d)
         \/ \E d \in FragDeflators : AddPendingFragment(d)
         \/ StartFile
         \/ \E b \in Ready, size \in Sizes : PlaceBlock(b, size)
         \/ FileRead \/ ReadError \/ Truncate \/ UnlockOne \/ UnlockDone
         \/ WriteFileFrag \/ CompareBlock \/ GetFragment \/ GetFragmentBuffer
         \/ ReadFragment \/ Duplicate \/ NotDuplicate \/ WriteFragment \/ Fill
         \/ UNCHANGED vars
BY DEF Next, Deflate

-----------------------------------------------------------------------------
(* What the threads keep has its type, whatever happens.                   *)
LEMMA BufferGot ==
  ASSUME Typed
  PROVE  /\ \A b \in Gettable(writer_buffer, first_freelist) :
               b \in Buffers /\ writer_buffer.used[b] = 0
         /\ \A b \in Gettable(fragment_buffer, first_freelist) :
               b \in FragmentBuffers /\ fragment_buffer.used[b] = 0
<1>1. CacheKept(writer_buffer, Buffers, Indexes)
      /\ CacheKept(fragment_buffer, FragmentBuffers, Frags)
  BY DEF Typed, CachesKept
<1>2. ASSUME NEW b \in Gettable(writer_buffer, first_freelist)
      PROVE  b \in Buffers /\ writer_buffer.used[b] = 0
  BY <1>1, GettableIs
<1>3. ASSUME NEW b \in Gettable(fragment_buffer, first_freelist)
      PROVE  b \in FragmentBuffers /\ fragment_buffer.used[b] = 0
  BY <1>1, GettableIs
<1>4. QED BY <1>2, <1>3

LEMMA IdleIs ==
  ASSUME NEW n \in Nat
  PROVE  Idle(n) \in Mains
<1>1. /\ NoFetch \in Fetches /\ 0 \in 0 .. MaxBytes
      /\ <<>> \in Seq(Extents) /\ <<>> \in Seq(Buffers)
  BY DEF NoFetch, Fetches
<1>2. QED BY <1>1 DEF Idle, Mains, Places

(* The ways main goes on.                                                  *)
LEMMA MainGoesOn ==
  ASSUME NEW m \in Mains, NEW pc \in Places
  PROVE  /\ [m EXCEPT !.pc = pc] \in Mains
         /\ \A next \in {"idle", "fill", "unlock"} :
              /\ [m EXCEPT !.pc = pc, !.next = next] \in Mains
              /\ [m EXCEPT !.list = <<>>, !.next = next, !.pc = pc] \in Mains
              /\ [m EXCEPT !.held = <<>>, !.list = <<>>, !.next = next, !.pc = pc] \in Mains
              /\ [m EXCEPT !.pc = pc, !.held = <<>>, !.next = next] \in Mains
         /\ \A fetch \in Fetches : [m EXCEPT !.pc = pc, !.fetch = fetch] \in Mains
<1>1. <<>> \in Seq(Extents) /\ <<>> \in Seq(Buffers)
  OBVIOUS
<1>2. [m EXCEPT !.pc = pc] \in Mains
  BY DEF Mains
<1>3. ASSUME NEW next \in {"idle", "fill", "unlock"}
      PROVE  /\ [m EXCEPT !.pc = pc, !.next = next] \in Mains
             /\ [m EXCEPT !.list = <<>>, !.next = next, !.pc = pc] \in Mains
             /\ [m EXCEPT !.held = <<>>, !.list = <<>>, !.next = next, !.pc = pc] \in Mains
             /\ [m EXCEPT !.pc = pc, !.held = <<>>, !.next = next] \in Mains
  BY <1>1 DEF Mains
<1>4. ASSUME NEW fetch \in Fetches PROVE [m EXCEPT !.pc = pc, !.fetch = fetch] \in Mains
  BY DEF Mains
<1>5. QED BY <1>2, <1>3, <1>4

LEMMA MainTypedStep ==
  ASSUME Typed, MainShape, [Next]_vars
  PROVE  MainTyped'
<1>1. main \in Mains /\ bytes \in 0 .. MaxBytes
  BY DEF Typed, OutputTyped, MainTyped
<1>2. /\ main.id \in Nat /\ Idle(main.id) \in Mains /\ Idle(main.id + 1) \in Mains
      /\ main.list \in Seq(Extents) /\ main.held \in Seq(Buffers) /\ main.fetch \in Fetches
  <2>1. main.id \in Nat /\ main.id + 1 \in Nat
    BY <1>1, MainFields DEF MainTyped
  <2>2. QED BY <1>1, <2>1, IdleIs, MainFields DEF MainTyped
<1>3. {"idle", "file", "compare", "get", "read", "flush", "unlock", "fill", "exited"} = Places
  BY DEF Places
<1>4. SUFFICES main' \in Mains
  BY DEF MainTyped
<1>a. CASE Compress
  BY <1>a, <1>1 DEF Compress
<1>b. CASE Write
  BY <1>b, <1>1 DEF Write
<1>c. ASSUME NEW d \in FragDeflators, CompressFragment(d) PROVE main' \in Mains
  BY <1>c, <1>1 DEF CompressFragment
<1>d. ASSUME NEW d \in FragDeflators, SettleFragment(d) PROVE main' \in Mains
  BY <1>d, <1>1 DEF SettleFragment
<1>e. ASSUME NEW d \in FragDeflators, AddPendingFragment(d) PROVE main' \in Mains
  BY <1>e, <1>1 DEF AddPendingFragment
<1>f. CASE StartFile
  <2> DEFINE Mode(blocks, tail) ==
               IF \E i \in DOMAIN files : /\ Len(files[i].list) = blocks
                                          /\ HasTail(files[i]) = tail
               THEN "dup" ELSE "blocks"
             Thresh(mode, blocks, tail) ==
               LET wanted == blocks + (IF tail THEN 1 ELSE 0)
                   free == Cardinality(Buffers) - fragments_outstanding
               IN IF mode = "dup" /\ wanted > free THEN wanted - free ELSE 0
             Started(mode, blocks, tail, thresh) ==
               [Idle(main.id + 1) EXCEPT !.pc = "file", !.mode = mode, !.start = bytes,
                  !.blocks = blocks, !.tail = tail, !.thresh = thresh]
  <2>1. PICK blocks \in 1 .. MaxBlocks, tail \in BOOLEAN :
          main' = Started(Mode(blocks, tail), blocks, tail,
                          Thresh(Mode(blocks, tail), blocks, tail))
    BY <1>f DEF StartFile
  <2>2. Mode(blocks, tail) \in {"dup", "blocks"}
    OBVIOUS
  <2>3. fragments_outstanding \in Nat /\ Cardinality(Buffers) \in Nat /\ blocks \in Nat
    <3>1. Cardinality({d \in FragDeflators : frag_deflator[d] # IdleDeflator}) \in Nat
      BY FS_Subset, FS_CardinalityType
    <3>2. Len(to_frag) \in Nat /\ Len(frag_locked_list) \in Nat
      BY DEF Typed, QueuesTyped
    <3>3. QED BY <3>1, <3>2, FS_CardinalityType DEF fragments_outstanding
  <2> HIDE DEF Mode
  <2>4. PICK mode : mode = Mode(blocks, tail)
    OBVIOUS
  <2>5. Thresh(mode, blocks, tail) \in Nat
    BY <2>3
  <2> HIDE DEF Thresh
  <2>6. PICK thresh : thresh = Thresh(mode, blocks, tail)
    OBVIOUS
  <2>7. PICK m : m = Idle(main.id + 1)
    OBVIOUS
  <2>8. main' = [m EXCEPT !.pc = "file", !.mode = mode, !.start = bytes,
                   !.blocks = blocks, !.tail = tail, !.thresh = thresh]
    BY <2>1, <2>4, <2>6, <2>7
  <2>9. m \in Mains /\ mode \in {"dup", "blocks"} /\ thresh \in Nat /\ blocks \in Nat
    BY <1>2, <2>2, <2>3, <2>4, <2>5, <2>6, <2>7
  <2>10. QED BY Zenon, <1>1, <2>8, <2>9 DEF Mains, Places
<1>g. ASSUME NEW b \in Ready, NEW size \in Sizes, PlaceBlock(b, size) PROVE main' \in Mains
  <2>1. PICK e \in Extents, held \in BOOLEAN :
          main' = [main EXCEPT !.list = Append(@, e), !.held = IF held THEN Append(@, b) ELSE @]
    <3>1. Extent(BlockOf(main.id, Len(main.list) + 1), bytes, size) \in Extents
      BY <1>1, <1>2 DEF Extent, Extents, Owners
    <3>2. QED BY <1>g, <3>1 DEF PlaceBlock
  <2>2. b \in Buffers
    BY DEF Ready
  <2>3. Append(main.list, e) \in Seq(Extents) /\ Append(main.held, b) \in Seq(Buffers)
    BY <1>2, <2>2
  <2>4. QED BY <1>1, <1>2, <2>1, <2>3 DEF Mains
<1>h. CASE FileRead
  <2>1. \/ main' = [main EXCEPT !.pc = "compare"]
        \/ main' = [main EXCEPT !.pc = "unlock", !.next = "fill"]
    BY <1>h DEF FileRead
  <2>2. [main EXCEPT !.pc = "compare"] \in Mains
    BY <1>1, <1>3, MainGoesOn
  <2>3. [main EXCEPT !.pc = "unlock", !.next = "fill"] \in Mains
    BY <1>1, <1>3, MainGoesOn
  <2>4. QED BY <2>1, <2>2, <2>3
<1>i. CASE ReadError
  <2>1. PICK pc \in {"flush", "unlock"} :
          main' = [main EXCEPT !.list = <<>>, !.next = "idle", !.pc = pc]
    BY <1>i DEF ReadError, GiveBack
  <2>2. pc \in Places
    BY DEF Places
  <2>3. QED BY Zenon, <1>1, <2>1, <2>2, MainGoesOn
<1>j. CASE Truncate
  BY Zenon, <1>j, <1>1, <1>3, MainGoesOn DEF Truncate
<1>k. CASE UnlockOne
  BY <1>k, <1>1 DEF UnlockOne
<1>l. CASE UnlockDone
  BY Zenon, <1>l, <1>1, <1>2, <1>3, MainGoesOn DEF UnlockDone
<1>m. CASE WriteFileFrag
  <2>1. main' = [Idle(main.id + 1) EXCEPT !.pc = "compare", !.mode = "fragment",
                   !.start = bytes, !.tail = TRUE]
    BY <1>m DEF WriteFileFrag
  <2>2. QED BY <1>1, <1>2, <2>1 DEF Mains, Places
<1>n. CASE CompareBlock
  BY <1>n, <1>1 DEF CompareBlock, others
<1>o. CASE GetFragment
  <2>1. PICK i \in Candidates : LET f == files[i].frag
               c == Found(writer_buffer, FragIndex + f)
           IN f # NoFragment /\
              (\/ UNCHANGED main
               \/ main' = [main EXCEPT !.pc = "get", !.fetch =
                       [frag |-> f, compressed |-> c, buffer |-> NoBuffer]])
    BY <1>o DEF GetFragment
  <2>2. files[i].frag \in Frags
    <3>1. i \in DOMAIN files /\ files \in Seq(Files)
      BY DEF Candidates, Typed, OutputTyped
    <3>2. files[i] \in Files
      BY <3>1
    <3>3. QED BY <2>1, <3>2 DEF Files
  <2>3. FragIndex + files[i].frag \in Indexes
    BY <2>2, IndexesAre
  <2>4. Found(writer_buffer, FragIndex + files[i].frag) \in Buffers \cup {NoBuffer}
    BY <2>3, FoundIs DEF Typed, CachesKept
  <2>5. [frag |-> files[i].frag, compressed |-> Found(writer_buffer, FragIndex + files[i].frag),
         buffer |-> NoBuffer] \in Fetches
    BY <2>2, <2>4 DEF Fetches
  <2>6. PICK fetch \in Fetches :
          main' = main \/ main' = [main EXCEPT !.pc = "get", !.fetch = fetch]
    BY <2>1, <2>5
  <2>7. [main EXCEPT !.pc = "get", !.fetch = fetch] \in Mains
    BY Zenon, <1>1 DEF Mains, Places
  <2>8. QED BY <1>1, <2>6, <2>7
<1>p. CASE GetFragmentBuffer
  <2>1. PICK b \in Gettable(fragment_buffer, first_freelist) :
          main' = [main EXCEPT !.pc = "read", !.fetch.buffer = b]
    BY <1>p DEF GetFragmentBuffer
  <2>2. b \in FragmentBuffers
    BY BufferGot
  <2>3. [main.fetch EXCEPT !.buffer = b] \in Fetches
    BY <1>2, <2>2 DEF Fetches
  <2>4. main' = [main EXCEPT !.pc = "read", !.fetch = [main.fetch EXCEPT !.buffer = b]]
    BY <1>1, <2>1 DEF Mains
  <2>5. QED BY Zenon, <1>1, <1>3, <2>3, <2>4, MainGoesOn
<1>q. CASE ReadFragment
  <2>1. NoFetch \in Fetches
    BY DEF NoFetch, Fetches
  <2>2. \/ main' = [main EXCEPT !.pc = "compare", !.fetch = NoFetch]
        \/ main' = [main EXCEPT !.pc = "exited"]
    BY <1>q DEF ReadFragment
  <2>3. [main EXCEPT !.pc = "compare", !.fetch = NoFetch] \in Mains
    BY <1>1, <2>1 DEF Mains, Places
  <2>4. [main EXCEPT !.pc = "exited"] \in Mains
    BY <1>1 DEF Mains, Places
  <2>5. QED BY <2>2, <2>3, <2>4
<1>r. CASE Duplicate
  <2>1. CASE main.mode = "dup"
    <3>1. PICK pc \in {"flush", "unlock"} :
            main' = [main EXCEPT !.held = <<>>, !.list = <<>>, !.next = "idle", !.pc = pc]
      BY <1>r, <2>1 DEF Duplicate, GiveBackHeld
    <3>2. pc \in Places
      BY DEF Places
    <3>3. QED BY Zenon, <1>1, <3>1, <3>2, MainGoesOn
  <2>2. CASE main.mode # "dup"
    BY <1>r, <2>2, <1>2 DEF Duplicate
  <2>3. QED BY <2>1, <2>2
<1>s. CASE NotDuplicate
  BY Zenon, <1>s, <1>1, <1>3, MainGoesOn DEF NotDuplicate
<1>t. CASE WriteFragment
  BY <1>t, <1>1 DEF WriteFragment
<1>u. CASE Fill
  BY Zenon, <1>u, <1>1, <1>2, <1>3, MainGoesOn DEF Fill
<1>v. CASE UNCHANGED vars
  BY <1>v, <1>1 DEF vars
<1>z. QED
  BY NextCases, <1>a, <1>b, <1>c, <1>d, <1>e, <1>f, <1>g, <1>h, <1>i, <1>j, <1>k, <1>l,
     <1>m, <1>n, <1>o, <1>p, <1>q, <1>r, <1>s, <1>t, <1>u, <1>v

LEMMA QueuesTypedStep ==
  ASSUME Typed, MainShape, [Next]_vars
  PROVE  QueuesTyped'
<1>1. /\ to_writer \in Seq(Buffers) /\ to_frag \in Seq(Filled)
      /\ frag_locked_list \in Seq(Pending) /\ fragments_locked \in BOOLEAN
      /\ frag_deflator \in [FragDeflators -> {IdleDeflator} \cup Working]
      /\ QueuesTyped
  BY DEF Typed, QueuesTyped
<1>2. main.held \in Seq(Buffers)
  BY MainFields DEF Typed
<1>a. CASE Compress
  BY <1>a, <1>1 DEF Compress, lockVars, QueuesTyped
<1>b. CASE Write
  BY <1>b, <1>1, TailIs DEF Write, lockVars, QueuesTyped
<1>c. ASSUME NEW d \in FragDeflators, CompressFragment(d) PROVE QueuesTyped'
  <2>1. /\ Head(to_frag) \in Filled /\ Tail(to_frag) \in Seq(Filled)
    BY <1>c, <1>1, TailIs DEF CompressFragment
  <2>2. PICK b \in Gettable(writer_buffer, first_freelist), size \in Sizes :
          frag_deflator' = [frag_deflator EXCEPT ![d] =
               [state |-> "settle", frag |-> Head(to_frag).frag, from |-> Head(to_frag).from,
                to |-> b, size |-> size]]
    BY <1>c DEF CompressFragment
  <2>3. b \in Buffers /\ size \in Nat
    BY BufferGot
  <2>4. [state |-> "settle", frag |-> Head(to_frag).frag, from |-> Head(to_frag).from,
                to |-> b, size |-> size] \in Working
    BY <2>1, <2>3 DEF Filled, Working
  <2>5. frag_deflator' \in [FragDeflators -> {IdleDeflator} \cup Working]
    BY <1>1, <2>2, <2>4
  <2>6. to_frag' = Tail(to_frag) /\ UNCHANGED <<to_writer, lockVars>>
    BY <1>c DEF CompressFragment
  <2>7. QED BY <1>1, <2>1, <2>5, <2>6 DEF lockVars, QueuesTyped
<1>d. ASSUME NEW d \in FragDeflators, SettleFragment(d) PROVE QueuesTyped'
  <2>1. frag_deflator[d] \in Working /\ frag_deflator[d].to \in Buffers
    BY <1>d, <1>1, WorkingIs DEF SettleFragment
  <2>2. [frag_deflator[d] EXCEPT !.state = "pend"] \in Working
    BY <2>1 DEF Working
  <2>3. frag_deflator' \in [FragDeflators -> {IdleDeflator} \cup Working]
    BY <1>d, <1>1, <2>2 DEF SettleFragment
  <2>4. to_writer' \in Seq(Buffers)
    <3>1. Append(to_writer, frag_deflator[d].to) \in Seq(Buffers)
      BY <1>1, <2>1, AppendIs
    <3>2. to_writer' \in {to_writer, Append(to_writer, frag_deflator[d].to)}
      BY <1>d DEF SettleFragment, PlaceFragment
    <3>3. QED BY <1>1, <3>1, <3>2
  <2>5. UNCHANGED <<to_frag, lockVars>>
    BY <1>d DEF SettleFragment
  <2>6. QED BY <1>1, <2>3, <2>4, <2>5 DEF lockVars, QueuesTyped
<1>e. ASSUME NEW d \in FragDeflators, AddPendingFragment(d) PROVE QueuesTyped'
  <2>1. /\ frag_deflator[d] \in Working /\ frag_deflator[d].to \in Buffers
        /\ frag_deflator[d].frag \in Frags
    BY <1>e, <1>1, WorkingIs DEF AddPendingFragment
  <2>2. [frag |-> frag_deflator[d].frag, buffer |-> frag_deflator[d].to] \in Pending
    BY <2>1 DEF Pending
  <2>3. frag_locked_list' \in Seq(Pending)
    BY <1>e, <1>1, <2>2, AppendIs DEF AddPendingFragment
  <2>4. frag_deflator' \in [FragDeflators -> {IdleDeflator} \cup Working]
    BY <1>e, <1>1 DEF AddPendingFragment
  <2>5. UNCHANGED <<to_frag, to_writer, fragments_locked>>
    BY <1>e DEF AddPendingFragment
  <2>6. QED BY <1>1, <2>3, <2>4, <2>5 DEF QueuesTyped
<1>f. CASE StartFile
  BY <1>f, <1>1 DEF StartFile, others, QueuesTyped
<1>g. ASSUME NEW b \in Ready, NEW size \in Sizes, PlaceBlock(b, size) PROVE QueuesTyped'
  <2>1. b \in Buffers
    BY DEF Ready
  <2>2. to_writer' \in Seq(Buffers)
    BY <1>g, <1>1, <2>1, AppendIs DEF PlaceBlock
  <2>3. UNCHANGED <<to_frag, frag_deflator, lockVars>>
    BY <1>g DEF PlaceBlock, others
  <2>4. QED BY <1>1, <2>2, <2>3 DEF lockVars, QueuesTyped
<1>h. CASE FileRead
  BY <1>h, <1>1 DEF FileRead, others, lockVars, QueuesTyped
<1>i. CASE ReadError
  BY <1>i, <1>1 DEF ReadError, GiveBack, others, lockVars, QueuesTyped
<1>j. CASE Truncate
  BY <1>j, <1>1 DEF Truncate, others, lockVars, QueuesTyped
<1>k. CASE UnlockOne
  <2>1. /\ Head(frag_locked_list) \in Pending /\ Tail(frag_locked_list) \in Seq(Pending)
    BY <1>k, <1>1, TailIs DEF UnlockOne
  <2>2. Head(frag_locked_list).buffer \in Buffers
    BY <2>1 DEF Pending
  <2>3. to_writer' \in Seq(Buffers) /\ frag_locked_list' = Tail(frag_locked_list)
    BY <1>k, <1>1, <2>2, AppendIs DEF UnlockOne, PlaceFragment
  <2>4. UNCHANGED <<to_frag, frag_deflator, fragments_locked>>
    BY <1>k DEF UnlockOne
  <2>5. QED BY <1>1, <2>1, <2>3, <2>4 DEF QueuesTyped
<1>l. CASE UnlockDone
  BY <1>l, <1>1 DEF UnlockDone, others, QueuesTyped
<1>m. CASE WriteFileFrag
  BY <1>m, <1>1 DEF WriteFileFrag, others, lockVars, QueuesTyped
<1>n. CASE CompareBlock
  BY <1>n, <1>1 DEF CompareBlock, others, lockVars, QueuesTyped
<1>o. CASE GetFragment
  BY <1>o, <1>1 DEF GetFragment, others, lockVars, QueuesTyped
<1>p. CASE GetFragmentBuffer
  BY <1>p, <1>1 DEF GetFragmentBuffer, others, lockVars, QueuesTyped
<1>q. CASE ReadFragment
  BY <1>q, <1>1 DEF ReadFragment, others, lockVars, QueuesTyped
<1>r. CASE Duplicate
  BY <1>r, <1>1 DEF Duplicate, GiveBackHeld, others, lockVars, QueuesTyped
<1>s. CASE NotDuplicate
  BY <1>s, <1>1, <1>2 DEF NotDuplicate, others, lockVars, QueuesTyped
<1>t. CASE WriteFragment
  <2>1. fragments \in Frags /\ fragment_data \in FragmentBuffers
    BY <1>t DEF WriteFragment, Typed, OutputTyped, MainShape, Frags
  <2>2. [frag |-> fragments, from |-> fragment_data] \in Filled
    BY <2>1 DEF Filled
  <2>3. to_frag' \in Seq(Filled)
    BY <1>t, <1>1, <2>2, AppendIs DEF WriteFragment
  <2>4. UNCHANGED <<to_writer, frag_deflator, lockVars>>
    BY <1>t DEF WriteFragment
  <2>5. QED BY <1>1, <2>3, <2>4 DEF lockVars, QueuesTyped
<1>u. CASE Fill
  BY <1>u, <1>1 DEF Fill, lockVars, QueuesTyped
<1>v. CASE UNCHANGED vars
  BY <1>v, <1>1 DEF vars, lockVars, QueuesTyped
<1>z. QED
  BY NextCases, <1>a, <1>b, <1>c, <1>d, <1>e, <1>f, <1>g, <1>h, <1>i, <1>j, <1>k, <1>l,
     <1>m, <1>n, <1>o, <1>p, <1>q, <1>r, <1>s, <1>t, <1>u, <1>v

LEMMA OutputTypedStep ==
  ASSUME Typed, MainShape, [Next]_vars
  PROVE  OutputTyped'
<1>1. /\ files \in Seq(Files) /\ bytes \in 0 .. MaxBytes
      /\ data \in [Buffers -> Extents] /\ disk \in [1 .. MaxBytes -> Owners]
      /\ fragments \in Nat /\ fragment_data \in FragmentBuffers \cup {NoBuffer}
      /\ fragment_table \in [Frags -> Extents \cup {NoEntry}]
  BY DEF Typed, OutputTyped
<1>2. main.list \in Seq(Extents) /\ main.start \in 0 .. MaxBytes /\ main.id \in Nat
  BY MainFields DEF Typed
<1>3. /\ \A e \in Extents : e.owner \in Owners /\ e.pos \in Nat /\ e.size \in Nat
      /\ Nothing \in Extents /\ <<"nothing">> \in Owners
  BY DEF Extents, Nothing, Extent, Owners
<1>4. ASSUME NEW f \in Frags, NEW b \in Buffers, PlaceFragment(f, b)
      PROVE  /\ bytes' \in 0 .. MaxBytes /\ data' \in [Buffers -> Extents]
             /\ fragment_table' \in [Frags -> Extents \cup {NoEntry}]
  <2>1. data[b] \in Extents /\ data[b].size \in Nat /\ bytes \in Nat /\ MaxBytes \in Nat
    BY <1>1, <1>3
  <2>2. [data[b] EXCEPT !.pos = bytes] \in Extents
    BY <1>1, <2>1 DEF Extents
  <2>3. data' = [data EXCEPT ![b] = [data[b] EXCEPT !.pos = bytes]]
    BY <1>4, <1>1 DEF PlaceFragment
  <2>4. bytes' = bytes + data[b].size /\ bytes + data[b].size <= MaxBytes
        /\ fragment_table' = [fragment_table EXCEPT ![f] = [data[b] EXCEPT !.pos = bytes]]
    BY <1>4 DEF PlaceFragment
  <2>5. QED BY <1>1, <2>1, <2>2, <2>3, <2>4
<1>a. CASE Compress
  <2>1. PICK b \in Gettable(writer_buffer, first_freelist) : data' = [data EXCEPT ![b] = Nothing]
    BY <1>a DEF Compress
  <2>2. data' \in [Buffers -> Extents]
    BY <1>1, <1>3, <2>1
  <2>3. QED BY <1>a, <1>1, <2>2 DEF Compress, packVars, OutputTyped
<1>b. CASE Write
  <2>1. Head(to_writer) \in Buffers
    BY <1>b, TailIs DEF Write, Typed, QueuesTyped
  <2>2. PICK e \in Extents :
          disk' = [p \in DOMAIN disk |-> IF p > e.pos /\ p <= e.pos + e.size THEN e.owner ELSE disk[p]]
    BY <1>b, <1>1, <2>1 DEF Write
  <2>3. disk' \in [1 .. MaxBytes -> Owners]
    BY <1>1, <1>3, <2>2
  <2>4. QED BY <1>b, <1>1, <2>3 DEF Write, packVars, OutputTyped
<1>c. ASSUME NEW d \in FragDeflators, CompressFragment(d) PROVE OutputTyped'
  <2>1. Head(to_frag) \in Filled
    BY <1>c, TailIs DEF CompressFragment, Typed, QueuesTyped
  <2>2. Head(to_frag).frag \in Frags
    BY <2>1 DEF Filled
  <2>3. PICK b \in Gettable(writer_buffer, first_freelist), size \in Sizes :
          data' = [data EXCEPT ![b] = Extent(FragOf(Head(to_frag).frag), 0, size)]
    BY <1>c DEF CompressFragment
  <2>4. Extent(FragOf(Head(to_frag).frag), 0, size) \in Extents
    BY <2>2 DEF Extent, Extents, Owners
  <2>5. data' \in [Buffers -> Extents]
    BY <1>1, <2>3, <2>4
  <2>6. QED BY <1>c, <1>1, <2>5 DEF CompressFragment, packVars, OutputTyped
<1>d. ASSUME NEW d \in FragDeflators, SettleFragment(d) PROVE OutputTyped'
  <2>1. frag_deflator[d].to \in Buffers /\ frag_deflator[d].frag \in Frags
    BY <1>d, WorkingIs DEF SettleFragment, Typed
  <2>2. \/ PlaceFragment(frag_deflator[d].frag, frag_deflator[d].to)
        \/ UNCHANGED <<bytes, data, fragment_table>>
    BY <1>d DEF SettleFragment
  <2>3. /\ bytes' \in 0 .. MaxBytes /\ data' \in [Buffers -> Extents]
        /\ fragment_table' \in [Frags -> Extents \cup {NoEntry}]
    BY <1>1, <1>4, <2>1, <2>2
  <2>4. UNCHANGED <<files, disk, fragments, fragment_data>>
    BY <1>d DEF SettleFragment, packVars
  <2>5. QED BY <1>1, <2>3, <2>4 DEF OutputTyped
<1>e. ASSUME NEW d \in FragDeflators, AddPendingFragment(d) PROVE OutputTyped'
  BY <1>e, <1>1 DEF AddPendingFragment, packVars, OutputTyped
<1>f. CASE StartFile
  BY <1>f, <1>1 DEF StartFile, others, packVars, OutputTyped
<1>g. ASSUME NEW b \in Ready, NEW size \in Sizes, PlaceBlock(b, size) PROVE OutputTyped'
  <2>1. Extent(BlockOf(main.id, Len(main.list) + 1), bytes, size) \in Extents
    BY <1>1, <1>2 DEF Extent, Extents, Owners
  <2>2. data' \in [Buffers -> Extents]
    BY <1>g, <1>1, <2>1 DEF PlaceBlock
  <2>3. bytes' \in 0 .. MaxBytes
    BY <1>g, <1>1 DEF PlaceBlock
  <2>4. UNCHANGED <<files, disk, fragments, fragment_data, fragment_table>>
    BY <1>g DEF PlaceBlock, others, packVars
  <2>5. QED BY <1>1, <2>2, <2>3, <2>4 DEF OutputTyped
<1>h. CASE FileRead
  BY <1>h, <1>1 DEF FileRead, others, packVars, OutputTyped
<1>i. CASE ReadError
  BY <1>i, <1>1, <1>2 DEF ReadError, GiveBack, others, packVars, OutputTyped
<1>j. CASE Truncate
  <2>1. disk' \in [1 .. MaxBytes -> Owners]
    BY <1>j, <1>1, <1>3 DEF Truncate
  <2>2. QED BY <1>j, <1>1, <2>1 DEF Truncate, others, packVars, OutputTyped
<1>k. CASE UnlockOne
  <2>1. Head(frag_locked_list) \in Pending
    BY <1>k, TailIs DEF UnlockOne, Typed, QueuesTyped
  <2>2. Head(frag_locked_list).buffer \in Buffers /\ Head(frag_locked_list).frag \in Frags
    BY <2>1 DEF Pending
  <2>3. PlaceFragment(Head(frag_locked_list).frag, Head(frag_locked_list).buffer)
    BY <1>k DEF UnlockOne
  <2>4. UNCHANGED <<files, disk, fragments, fragment_data>>
    BY <1>k DEF UnlockOne, packVars
  <2>5. QED BY <1>1, <1>4, <2>2, <2>3, <2>4 DEF OutputTyped
<1>l. CASE UnlockDone
  BY <1>l, <1>1 DEF UnlockDone, others, packVars, OutputTyped
<1>m. CASE WriteFileFrag
  BY <1>m, <1>1 DEF WriteFileFrag, others, packVars, OutputTyped
<1>n. CASE CompareBlock
  BY <1>n, <1>1 DEF CompareBlock, others, packVars, OutputTyped
<1>o. CASE GetFragment
  BY <1>o, <1>1 DEF GetFragment, others, packVars, OutputTyped
<1>p. CASE GetFragmentBuffer
  BY <1>p, <1>1 DEF GetFragmentBuffer, others, packVars, OutputTyped
<1>q. CASE ReadFragment
  BY <1>q, <1>1 DEF ReadFragment, others, packVars, OutputTyped
<1>r. CASE Duplicate
  BY <1>r, <1>1, <1>2 DEF Duplicate, GiveBackHeld, others, packVars, OutputTyped
<1>s. CASE NotDuplicate
  BY <1>s, <1>1 DEF NotDuplicate, others, packVars, OutputTyped
<1>t. CASE WriteFragment
  <2>1. fragments' \in Nat /\ fragment_data' = NoBuffer
    BY <1>t, <1>1 DEF WriteFragment
  <2>2. QED BY <1>t, <1>1, <2>1 DEF WriteFragment, OutputTyped
<1>u. CASE Fill
  <2>1. fragment_data' \in FragmentBuffers \cup {NoBuffer}
    BY <1>u, <1>1, BufferGot DEF Fill
  <2>2. PICK r : r = [list |-> main.list, frag |-> IF main.tail THEN fragments ELSE NoFragment]
    OBVIOUS
  <2>3. main.tail => fragments \in Frags
    BY <1>u, <1>1 DEF Fill, Frags
  <2>4. r \in Files
    BY <1>2, <2>2, <2>3 DEF Files
  <2>5. files' = Append(files, r)
    BY <1>u, <2>2 DEF Fill
  <2>6. files' \in Seq(Files)
    BY <1>1, <2>4, <2>5, AppendIs
  <2>7. UNCHANGED <<bytes, data, disk, fragments, fragment_table>>
    BY <1>u DEF Fill
  <2>8. QED BY <1>1, <2>1, <2>6, <2>7 DEF OutputTyped
<1>v. CASE UNCHANGED vars
  BY <1>v, <1>1 DEF vars, packVars, OutputTyped
<1>z. QED
  BY NextCases, <1>a, <1>b, <1>c, <1>d, <1>e, <1>f, <1>g, <1>h, <1>i, <1>j, <1>k, <1>l,
     <1>m, <1>n, <1>o, <1>p, <1>q, <1>r, <1>s, <1>t, <1>u, <1>v

LEMMA MainShapeStep ==
  ASSUME Typed, MainShape, [Next]_vars
  PROVE  MainShape'
<1>1. main \in Mains /\ fragments \in Nat /\ MaxFragments \in Nat
  BY DEF Typed, MainTyped, OutputTyped
<1>a. CASE Compress
  BY <1>a DEF Compress, packVars, MainShape
<1>b. CASE Write
  BY <1>b DEF Write, packVars, MainShape
<1>c. ASSUME NEW d \in FragDeflators, CompressFragment(d) PROVE MainShape'
  BY <1>c DEF CompressFragment, packVars, MainShape
<1>d. ASSUME NEW d \in FragDeflators, SettleFragment(d) PROVE MainShape'
  BY <1>d DEF SettleFragment, packVars, MainShape
<1>e. ASSUME NEW d \in FragDeflators, AddPendingFragment(d) PROVE MainShape'
  BY <1>e DEF AddPendingFragment, packVars, MainShape
<1>f. CASE StartFile
  BY <1>f DEF StartFile, Idle, others, packVars, MainShape
<1>g. ASSUME NEW b \in Ready, NEW size \in Sizes, PlaceBlock(b, size) PROVE MainShape'
  BY <1>1, <1>g DEF PlaceBlock, Mains, others, packVars, MainShape
<1>h. CASE FileRead
  BY <1>1, <1>h DEF FileRead, Mains, others, packVars, MainShape
<1>i. CASE ReadError
  BY <1>1, <1>i DEF ReadError, GiveBack, Mains, others, packVars, MainShape
<1>j. CASE Truncate
  BY <1>1, <1>j DEF Truncate, Mains, others, packVars, MainShape
<1>k. CASE UnlockOne
  BY <1>k DEF UnlockOne, packVars, MainShape
<1>l. CASE UnlockDone
  BY <1>1, <1>l DEF UnlockDone, Idle, Mains, others, packVars, MainShape
<1>m. CASE WriteFileFrag
  BY <1>m DEF WriteFileFrag, Idle, others, packVars, MainShape
<1>n. CASE CompareBlock
  BY <1>n DEF CompareBlock, others, packVars, MainShape
<1>o. CASE GetFragment
  <2>1. PICK i \in Candidates :
          /\ files[i].frag # NoFragment
          /\ \/ UNCHANGED main
             \/ main' = [main EXCEPT !.pc = "get", !.fetch =
                  [frag |-> files[i].frag, buffer |-> NoBuffer,
                   compressed |-> Found(writer_buffer, FragIndex + files[i].frag)]]
    BY <1>o DEF GetFragment
  <2>2. files[i].frag \in Frags
    <3>1. i \in DOMAIN files /\ files \in Seq(Files)
      BY DEF Candidates, Typed, OutputTyped
    <3>2. files[i] \in Files
      BY <3>1
    <3>3. QED BY <2>1, <3>2 DEF Files
  <2>3. UNCHANGED packVars /\ main.pc = "compare"
    BY <1>o DEF GetFragment, others
  <2>4. PICK g : g = [frag |-> files[i].frag, buffer |-> NoBuffer,
                      compressed |-> Found(writer_buffer, FragIndex + files[i].frag)]
    OBVIOUS
  <2>5. g.frag \in Frags /\ g.buffer = NoBuffer
    BY <2>2, <2>4
  <2>6. main' = main \/ main' = [main EXCEPT !.pc = "get", !.fetch = g]
    BY <2>1, <2>4
  <2>7. CASE main' = main
    BY <2>3, <2>7 DEF packVars, MainShape
  <2>8. CASE main' = [main EXCEPT !.pc = "get", !.fetch = g]
    <3>1. /\ main'.pc = "get" /\ main'.fetch = g /\ main'.held = main.held
          /\ main'.mode = main.mode
      BY <1>1, <2>8 DEF Mains
    <3>2. QED BY <2>3, <2>5, <3>1 DEF packVars, MainShape
  <2>9. QED BY <2>6, <2>7, <2>8
<1>p. CASE GetFragmentBuffer
  BY <1>1, <1>p, BufferGot DEF GetFragmentBuffer, Mains, Fetches, others, packVars, MainShape
<1>q. CASE ReadFragment
  BY <1>1, <1>q DEF ReadFragment, Mains, others, packVars, MainShape
<1>r. CASE Duplicate
  <2>1. CASE main.mode = "dup"
    <3>1. PICK pc \in {"flush", "unlock"} :
            main' = [main EXCEPT !.held = <<>>, !.list = <<>>, !.next = "idle", !.pc = pc]
      BY <1>r, <2>1 DEF Duplicate, GiveBackHeld
    <3>2. UNCHANGED packVars /\ main.pc = "compare"
      BY <1>r, <2>1 DEF Duplicate, GiveBackHeld, others
    <3>3. QED BY <1>1, <3>1, <3>2 DEF Mains, packVars, MainShape
  <2>2. CASE main.mode # "dup"
    BY <1>r, <2>2 DEF Duplicate, Idle, others, packVars, MainShape
  <2>3. QED BY <2>1, <2>2
<1>s. CASE NotDuplicate
  BY <1>1, <1>s DEF NotDuplicate, Mains, others, packVars, MainShape
<1>t. CASE WriteFragment
  BY <1>1, <1>t DEF WriteFragment, MainShape
<1>u. CASE Fill
  BY <1>1, <1>u DEF Fill, Idle, Mains, MainShape
<1>v. CASE UNCHANGED vars
  BY <1>v DEF vars, packVars, MainShape
<1>z. QED
  BY NextCases, <1>a, <1>b, <1>c, <1>d, <1>e, <1>f, <1>g, <1>h, <1>i, <1>j, <1>k, <1>l,
     <1>m, <1>n, <1>o, <1>p, <1>q, <1>r, <1>s, <1>t, <1>u, <1>v

-----------------------------------------------------------------------------
(* The use counts.                                                         *)
LEMMA PutAllIs ==
  ASSUME NEW c, NEW bufs
  PROVE  PutAll(c, bufs) = PutEach(c, bufs)
BY DEF PutAll, PutEach

(* What frag_deflators hold, when one of them gets something else.         *)
LEMMA DeflatingSet ==
  ASSUME NEW d \in FragDeflators, NEW b,
         \A e \in FragDeflators : e # d => frag_deflator'[e] = frag_deflator[e]
  PROVE  /\ Deflating(b, "to") \in Nat
         /\ Deflating(b, "to")' = Deflating(b, "to")
              - (IF frag_deflator[d].to = b THEN 1 ELSE 0)
              + (IF frag_deflator'[d].to = b THEN 1 ELSE 0)
         /\ Deflating(b, "from") \in Nat
         /\ Deflating(b, "from")' = Deflating(b, "from")
              - (IF frag_deflator[d].from = b THEN 1 ELSE 0)
              + (IF frag_deflator'[d].from = b THEN 1 ELSE 0)
<1> DEFINE T == {e \in FragDeflators : frag_deflator[e].to = b}
           F == {e \in FragDeflators : frag_deflator[e].from = b}
<1>1. /\ Deflating(b, "to") = Cardinality(T) /\ Deflating(b, "to")' = Cardinality(T')
      /\ Deflating(b, "from") = Cardinality(F) /\ Deflating(b, "from")' = Cardinality(F')
  BY DEF Deflating
<1>2. /\ T \ {d} = T' \ {d} /\ F \ {d} = F' \ {d}
      /\ d \in T <=> frag_deflator[d].to = b
      /\ d \in T' <=> frag_deflator'[d].to = b
      /\ d \in F <=> frag_deflator[d].from = b
      /\ d \in F' <=> frag_deflator'[d].from = b
  OBVIOUS
<1>3. IsFiniteSet(T) /\ IsFiniteSet(T') /\ IsFiniteSet(F) /\ IsFiniteSet(F')
  BY FS_Subset
<1> HIDE DEF T, F
<1>4. ASSUME NEW S, IsFiniteSet(S)
      PROVE  Cardinality(S) = Cardinality(S \ {d}) + (IF d \in S THEN 1 ELSE 0)
             /\ Cardinality(S) \in Nat /\ Cardinality(S \ {d}) \in Nat
  <2>1. /\ IsFiniteSet(S \ {d})
        /\ Cardinality(S \ {d}) = IF d \in S THEN Cardinality(S) - 1 ELSE Cardinality(S)
    BY <1>4, FS_RemoveElement
  <2>2. Cardinality(S) \in Nat /\ Cardinality(S \ {d}) \in Nat
    BY <1>4, <2>1, FS_CardinalityType
  <2>3. QED BY <2>1, <2>2
<1>5. /\ Cardinality(T) = Cardinality(T \ {d}) + (IF d \in T THEN 1 ELSE 0)
      /\ Cardinality(T') = Cardinality(T \ {d}) + (IF d \in T' THEN 1 ELSE 0)
      /\ Cardinality(T) \in Nat /\ Cardinality(T \ {d}) \in Nat
  BY <1>2, <1>3, <1>4
<1>6. /\ Cardinality(F) = Cardinality(F \ {d}) + (IF d \in F THEN 1 ELSE 0)
      /\ Cardinality(F') = Cardinality(F \ {d}) + (IF d \in F' THEN 1 ELSE 0)
      /\ Cardinality(F) \in Nat /\ Cardinality(F \ {d}) \in Nat
  BY <1>2, <1>3, <1>4
<1>7. QED BY <1>1, <1>2, <1>5, <1>6

LEMMA CountsAre ==
  ASSUME Typed
  PROVE  /\ \A b \in Buffers :
              /\ CountIn(to_writer, {b}) \in Nat /\ CountIn(main.held, {b}) \in Nat
              /\ CountIn(frag_locked_list, PendingIn(b)) \in Nat
              /\ Deflating(b, "to") \in Nat /\ writer_buffer.used[b] \in Nat
         /\ \A b \in FragmentBuffers :
              /\ CountIn(to_frag, FilledFrom(b)) \in Nat
              /\ Deflating(b, "from") \in Nat /\ fragment_buffer.used[b] \in Nat
<1>1. /\ to_writer \in Seq(Buffers) /\ main.held \in Seq(Buffers)
      /\ frag_locked_list \in Seq(Pending) /\ to_frag \in Seq(Filled)
      /\ writer_buffer.used \in [Buffers -> Nat]
      /\ fragment_buffer.used \in [FragmentBuffers -> Nat]
  BY MainFields, CachesAre DEF Typed, QueuesTyped
<1>2. ASSUME NEW b PROVE Deflating(b, "to") \in Nat /\ Deflating(b, "from") \in Nat
  <2>1. IsFiniteSet({d \in FragDeflators : frag_deflator[d].to = b})
        /\ IsFiniteSet({d \in FragDeflators : frag_deflator[d].from = b})
    BY FS_Subset
  <2>2. QED BY <2>1, FS_CardinalityType DEF Deflating
<1>3. QED BY <1>1, <1>2, CountFinite

LEMMA ReadyIs ==
  ASSUME NEW b \in Buffers
  PROVE  b \in Ready <=> writer_buffer.used[b] > 0 /\ writer_buffer.index[b] = NoIndex
BY DEF Ready

(* The equations for one buffer, with the sums written out.                *)
LEMMA WriterSum ==
  ASSUME UseInv, NEW b \in Buffers
  PROVE  /\ writer_buffer.used[b] =
              CountIn(to_writer, {b}) + CountIn(main.held, {b})
              + (IF b \in Ready THEN 1 ELSE 0) + CountIn(frag_locked_list, PendingIn(b))
              + Deflating(b, "to") + (IF main.fetch.compressed = b THEN 1 ELSE 0)
         /\ CountIn(to_writer, {b}) + CountIn(main.held, {b})
            + (IF b \in Ready THEN 1 ELSE 0) + CountIn(frag_locked_list, PendingIn(b))
            + Deflating(b, "to") <= 1
         /\ CountIn(to_writer, {b}) \in Nat /\ CountIn(main.held, {b}) \in Nat
         /\ CountIn(frag_locked_list, PendingIn(b)) \in Nat
         /\ Deflating(b, "to") \in Nat /\ writer_buffer.used[b] \in Nat
<1>1. /\ writer_buffer.used[b] = Owned(b) + One(main.fetch.compressed = b)
      /\ Owned(b) <= 1
  BY DEF UseInv, WriterUsed
<1>2. /\ CountIn(to_writer, {b}) \in Nat /\ CountIn(main.held, {b}) \in Nat
      /\ CountIn(frag_locked_list, PendingIn(b)) \in Nat
      /\ Deflating(b, "to") \in Nat /\ writer_buffer.used[b] \in Nat
  BY CountsAre DEF UseInv
<1>3. QED BY <1>1, <1>2 DEF Owned, One

LEMMA WriterFree ==
  ASSUME UseInv, NEW b \in Buffers, writer_buffer.used[b] = 0
  PROVE  /\ CountIn(to_writer, {b}) = 0 /\ CountIn(main.held, {b}) = 0
         /\ CountIn(frag_locked_list, PendingIn(b)) = 0 /\ Deflating(b, "to") = 0
         /\ main.fetch.compressed # b
<1>1. PICK n \in Nat : n = CountIn(to_writer, {b})
  BY WriterSum
<1>2. PICK k \in Nat : k = CountIn(main.held, {b})
  BY WriterSum
<1>3. PICK l \in Nat : l = CountIn(frag_locked_list, PendingIn(b))
  BY WriterSum
<1>4. PICK m \in Nat : m = Deflating(b, "to")
  BY WriterSum
<1>5. writer_buffer.used[b] = n + k + (IF b \in Ready THEN 1 ELSE 0) + l + m
                              + (IF main.fetch.compressed = b THEN 1 ELSE 0)
  BY <1>1, <1>2, <1>3, <1>4, WriterSum
<1>6. n = 0 /\ k = 0 /\ l = 0 /\ m = 0 /\ main.fetch.compressed # b
  BY <1>5
<1>7. QED BY <1>1, <1>2, <1>3, <1>4, <1>6

LEMMA FragSum ==
  ASSUME UseInv, NEW b \in FragmentBuffers
  PROVE  /\ fragment_buffer.used[b] =
              (IF fragment_data = b THEN 1 ELSE 0)
              + (IF main.fetch.buffer = b THEN 1 ELSE 0)
              + Deflating(b, "from") + CountIn(to_frag, FilledFrom(b))
         /\ fragment_buffer.used[b] <= 1
         /\ Deflating(b, "from") \in Nat /\ CountIn(to_frag, FilledFrom(b)) \in Nat
         /\ fragment_buffer.used[b] \in Nat
<1>1. /\ fragment_buffer.used[b] = One(fragment_data = b) + One(main.fetch.buffer = b)
                                   + Deflating(b, "from") + CountIn(to_frag, FilledFrom(b))
      /\ fragment_buffer.used[b] <= 1
  BY DEF UseInv, FragUsed
<1>2. /\ CountIn(to_frag, FilledFrom(b)) \in Nat
      /\ Deflating(b, "from") \in Nat /\ fragment_buffer.used[b] \in Nat
  BY CountsAre DEF UseInv
<1>3. QED BY <1>1, <1>2 DEF One

(* Nothing in the writer cache changes hands.                              *)
LEMMA WriterLeft ==
  ASSUME WriterUsed, CacheKept(writer_buffer, Buffers, Indexes),
         UNCHANGED <<writer_buffer, to_writer, frag_locked_list, frag_deflator>>,
         main'.held = main.held, main'.fetch.compressed = main.fetch.compressed
  PROVE  WriterUsed' /\ CacheKept(writer_buffer, Buffers, Indexes)'
<1>1. Ready' = Ready
  BY DEF Ready
<1>2. ASSUME NEW b \in Buffers PROVE Owned(b)' = Owned(b)
  BY <1>1 DEF Owned, Deflating
<1>3. WriterUsed'
  BY <1>2 DEF WriterUsed, One
<1>4. QED BY <1>3

LEMMA FragLeft ==
  ASSUME FragUsed, CacheKept(fragment_buffer, FragmentBuffers, Frags),
         UNCHANGED <<fragment_buffer, to_frag, frag_deflator, fragment_data>>,
         main'.fetch.buffer = main.fetch.buffer
  PROVE  FragUsed' /\ CacheKept(fragment_buffer, FragmentBuffers, Frags)'
<1>1. ASSUME NEW b \in FragmentBuffers PROVE Deflating(b, "from")' = Deflating(b, "from")
  BY DEF Deflating
<1>2. FragUsed'
  BY <1>1 DEF FragUsed, One
<1>3. QED BY <1>2

(* And where each count adds up.                                           *)
LEMMA WriterAdds ==
  ASSUME \A b \in Buffers :
           /\ writer_buffer'.used[b] =
                CountIn(to_writer', {b}) + CountIn(main'.held, {b})
                + (IF b \in Ready' THEN 1 ELSE 0) + CountIn(frag_locked_list', PendingIn(b))
                + Deflating(b, "to")' + (IF main'.fetch.compressed = b THEN 1 ELSE 0)
           /\ CountIn(to_writer', {b}) + CountIn(main'.held, {b})
              + (IF b \in Ready' THEN 1 ELSE 0) + CountIn(frag_locked_list', PendingIn(b))
              + Deflating(b, "to")' <= 1
  PROVE  WriterUsed'
BY DEF WriterUsed, Owned, One

(* Uses move from one place to another, or end.                            *)
LEMMA WriterMoves ==
  ASSUME UseInv, NEW ended \in [Buffers -> Nat],
         main'.fetch.compressed = main.fetch.compressed,
         \A b \in Buffers : /\ writer_buffer'.used[b] = writer_buffer.used[b] - ended[b]
                            /\ Owned(b)' = Owned(b) - ended[b]
  PROVE  WriterUsed'
<1>1. ASSUME NEW b \in Buffers
      PROVE  /\ writer_buffer'.used[b] = Owned(b)' + One(main.fetch.compressed = b)'
             /\ Owned(b)' <= 1
  <2>1. /\ writer_buffer'.used[b] = writer_buffer.used[b] - ended[b]
        /\ Owned(b)' = Owned(b) - ended[b]
    OBVIOUS
  <2>2. PICK o \in Nat : o = Owned(b)
    BY WriterSum DEF Owned, One
  <2>3. PICK x \in Nat : x = One(main.fetch.compressed = b)
    BY DEF One
  <2>4. One(main.fetch.compressed = b)' = x
    BY <2>3 DEF One
  <2>5. writer_buffer.used[b] = o + x /\ o <= 1
    BY <2>2, <2>3 DEF UseInv, WriterUsed
  <2>6. ended[b] \in Nat
    OBVIOUS
  <2>7. QED BY <2>1, <2>2, <2>4, <2>5, <2>6
<1>2. QED BY <1>1 DEF WriterUsed

LEMMA FragAdds ==
  ASSUME \A b \in FragmentBuffers :
           /\ fragment_buffer'.used[b] =
                (IF fragment_data' = b THEN 1 ELSE 0)
                + (IF main'.fetch.buffer = b THEN 1 ELSE 0)
                + Deflating(b, "from")' + CountIn(to_frag', FilledFrom(b))
           /\ fragment_buffer'.used[b] <= 1
  PROVE  FragUsed'
BY DEF FragUsed, One

-----------------------------------------------------------------------------
(* The use counts through each step that changes hands.                    *)
LEMMA WriterGot ==
  ASSUME UseInv, NEW a \in Buffers, writer_buffer.used[a] = 0, NEW i \in Indexes \cup {NoIndex},
         writer_buffer' = Get(writer_buffer, a, i)
  PROVE  /\ CacheKept(writer_buffer, Buffers, Indexes)'
         /\ writer_buffer'.used = [writer_buffer.used EXCEPT ![a] = 1]
         /\ writer_buffer'.index = [writer_buffer.index EXCEPT ![a] = i]
         /\ \A b \in Buffers : b \in Ready' <=> IF b = a THEN i = NoIndex ELSE b \in Ready
<1>1. CacheKept(writer_buffer, Buffers, Indexes) /\ NoIndex \notin Indexes
  BY IndexesAre DEF UseInv, Typed, CachesKept
<1>2. /\ CacheKept(Get(writer_buffer, a, i), Buffers, Indexes)
      /\ Get(writer_buffer, a, i).used = [writer_buffer.used EXCEPT ![a] = 1]
      /\ Get(writer_buffer, a, i).index = [writer_buffer.index EXCEPT ![a] = i]
  BY <1>1, GetKept
<1>3. /\ writer_buffer.used \in [Buffers -> Nat]
      /\ writer_buffer.index \in [Buffers -> Indexes \cup {NoIndex}]
  BY CachesAre DEF UseInv, Typed
<1>4. QED BY <1>2, <1>3 DEF Ready

LEMMA CompressUse ==
  ASSUME UseInv, Compress
  PROVE  CachesKept' /\ WriterUsed' /\ FragUsed'
<1>1. PICK a \in Gettable(writer_buffer, first_freelist) :
        writer_buffer' = Get(writer_buffer, a, NoIndex)
  BY DEF Compress
<1>2. a \in Buffers /\ writer_buffer.used[a] = 0
  BY BufferGot DEF UseInv
<1>3. /\ CacheKept(writer_buffer, Buffers, Indexes)'
      /\ writer_buffer'.used = [writer_buffer.used EXCEPT ![a] = 1]
      /\ \A b \in Buffers : b \in Ready' <=> IF b = a THEN TRUE ELSE b \in Ready
  BY <1>1, <1>2, WriterGot
<1>4. UNCHANGED <<main, to_writer, frag_locked_list, frag_deflator, fragment_buffer, to_frag,
                  fragment_data>>
  BY DEF Compress, lockVars, packVars
<1>5. WriterUsed'
  <2>1. ASSUME NEW b \in Buffers PROVE Deflating(b, "to")' = Deflating(b, "to")
    BY <1>4 DEF Deflating
  <2>2. ASSUME NEW b \in Buffers, b # a
        PROVE  writer_buffer'.used[b] = writer_buffer.used[b] /\ (b \in Ready' <=> b \in Ready)
    BY <1>2, <1>3, <2>2, CachesAre DEF UseInv, Typed
  <2>3. writer_buffer'.used[a] = 1 /\ a \in Ready'
    BY <1>2, <1>3, CachesAre DEF UseInv, Typed
  <2>4. /\ CountIn(to_writer, {a}) = 0 /\ CountIn(main.held, {a}) = 0
        /\ CountIn(frag_locked_list, PendingIn(a)) = 0 /\ Deflating(a, "to") = 0
        /\ main.fetch.compressed # a
    BY <1>2, WriterFree
  <2>5. QED BY <1>2, <1>4, <2>1, <2>2, <2>3, <2>4, WriterSum, WriterAdds
<1>6. FragUsed' /\ CacheKept(fragment_buffer, FragmentBuffers, Frags)'
  BY <1>4, FragLeft DEF UseInv, Typed, CachesKept
<1>7. QED BY <1>3, <1>5, <1>6 DEF CachesKept

LEMMA CompressFragmentUse ==
  ASSUME UseInv, NEW d \in FragDeflators, CompressFragment(d)
  PROVE  CachesKept' /\ WriterUsed' /\ FragUsed'
<1>1. frag_deflator \in [FragDeflators -> {IdleDeflator} \cup Working] /\ to_frag \in Seq(Filled)
      /\ frag_deflator[d] = IdleDeflator /\ to_frag # <<>> /\ to_frag' = Tail(to_frag)
  BY DEF UseInv, Typed, QueuesTyped, CompressFragment
<1>2. PICK h : h = Head(to_frag)
  OBVIOUS
<1>3. h \in Filled /\ h.frag \in Frags /\ h.from \in FragmentBuffers
  <2>1. h \in Filled
    BY <1>1, <1>2, TailIs
  <2>2. QED BY <2>1 DEF Filled
<1>4. PICK a \in Gettable(writer_buffer, first_freelist), size \in Sizes :
        /\ writer_buffer' = Get(writer_buffer, a, FragIndex + h.frag)
        /\ frag_deflator' = [frag_deflator EXCEPT ![d] =
             [state |-> "settle", frag |-> h.frag, from |-> h.from, to |-> a, size |-> size]]
  BY <1>2 DEF CompressFragment
<1>5. a \in Buffers /\ writer_buffer.used[a] = 0
  BY BufferGot DEF UseInv
<1>6. FragIndex + h.frag \in Indexes /\ FragIndex + h.frag # NoIndex
  BY <1>3, IndexesAre
<1>7. /\ CacheKept(writer_buffer, Buffers, Indexes)'
      /\ writer_buffer'.used = [writer_buffer.used EXCEPT ![a] = 1]
      /\ \A b \in Buffers : b \in Ready' <=> IF b = a THEN FALSE ELSE b \in Ready
  <2>1. PICK i \in Indexes : i = FragIndex + h.frag
    BY <1>6
  <2>2. writer_buffer' = Get(writer_buffer, a, i) /\ i # NoIndex
    BY <1>4, <1>6, <2>1
  <2>3. i \in Indexes \cup {NoIndex}
    OBVIOUS
  <2>4. /\ CacheKept(writer_buffer, Buffers, Indexes)'
        /\ writer_buffer'.used = [writer_buffer.used EXCEPT ![a] = 1]
        /\ \A b \in Buffers : b \in Ready' <=> IF b = a THEN i = NoIndex ELSE b \in Ready
    BY <1>5, <2>2, <2>3, WriterGot
  <2>5. QED BY <2>2, <2>4
<1>8. UNCHANGED <<main, to_writer, frag_locked_list, fragment_buffer, fragment_data>>
  BY DEF CompressFragment, lockVars, packVars
<1>9. /\ frag_deflator'[d].to = a /\ frag_deflator'[d].from = h.from
      /\ frag_deflator[d].to = NoBuffer /\ frag_deflator[d].from = NoBuffer
      /\ \A e \in FragDeflators : e # d => frag_deflator'[e] = frag_deflator[e]
  BY <1>1, <1>4 DEF IdleDeflator
<1>10. WriterUsed'
  <2>1. ASSUME NEW b \in Buffers
        PROVE Deflating(b, "to")' = Deflating(b, "to") + (IF b = a THEN 1 ELSE 0)
              /\ Deflating(b, "to") \in Nat
    <3>1. b # NoBuffer
      OBVIOUS
    <3>2. QED BY <1>9, <3>1, DeflatingSet
  <2>2. ASSUME NEW b \in Buffers, b # a
        PROVE  writer_buffer'.used[b] = writer_buffer.used[b] /\ (b \in Ready' <=> b \in Ready)
    BY <1>5, <1>7, <2>2, CachesAre DEF UseInv, Typed
  <2>3. writer_buffer'.used[a] = 1 /\ a \notin Ready'
    BY <1>5, <1>7, CachesAre DEF UseInv, Typed
  <2>4. /\ CountIn(to_writer, {a}) = 0 /\ CountIn(main.held, {a}) = 0
        /\ CountIn(frag_locked_list, PendingIn(a)) = 0 /\ Deflating(a, "to") = 0
        /\ main.fetch.compressed # a
    BY <1>5, WriterFree
  <2>5. QED BY <1>5, <1>8, <2>1, <2>2, <2>3, <2>4, WriterSum, WriterAdds
<1>11. FragUsed' /\ CacheKept(fragment_buffer, FragmentBuffers, Frags)'
  <2>1. ASSUME NEW b \in FragmentBuffers
        PROVE  /\ Deflating(b, "from")' = Deflating(b, "from") + (IF b = h.from THEN 1 ELSE 0)
               /\ Deflating(b, "from") \in Nat
    <3>1. b # NoBuffer
      OBVIOUS
    <3>2. QED BY <1>9, <3>1, DeflatingSet
  <2>2. ASSUME NEW b \in FragmentBuffers
        PROVE  CountIn(to_frag, FilledFrom(b))
                 = CountIn(to_frag', FilledFrom(b)) + (IF b = h.from THEN 1 ELSE 0)
               /\ CountIn(to_frag', FilledFrom(b)) \in Nat
    <3>1. h \in FilledFrom(b) <=> b = h.from
      BY <1>3 DEF FilledFrom
    <3>2. CountIn(to_frag, FilledFrom(b))
            = CountIn(Tail(to_frag), FilledFrom(b)) + (IF h \in FilledFrom(b) THEN 1 ELSE 0)
      BY <1>1, <1>2, CountTail
    <3>3. Tail(to_frag) \in Seq(Filled)
      BY <1>1, TailIs
    <3>4. QED BY <1>1, <3>1, <3>2, <3>3, CountFinite
  <2>3. QED BY <1>8, <2>1, <2>2, FragSum, FragAdds DEF UseInv, Typed, CachesKept
<1>12. QED BY <1>7, <1>10, <1>11 DEF CachesKept

LEMMA WriterPut ==
  ASSUME UseInv, NEW a \in Buffers, writer_buffer.used[a] # 0,
         writer_buffer.index[a] # NoIndex, writer_buffer' = Put(writer_buffer, a)
  PROVE  /\ CacheKept(writer_buffer, Buffers, Indexes)'
         /\ writer_buffer'.index = writer_buffer.index
         /\ \A b \in Buffers :
              /\ writer_buffer'.used[b] = writer_buffer.used[b] - (IF b = a THEN 1 ELSE 0)
              /\ b \in Ready' <=> b \in Ready
<1>1. CacheKept(writer_buffer, Buffers, Indexes)
  BY DEF UseInv, Typed, CachesKept
<1>2. /\ CacheKept(Put(writer_buffer, a), Buffers, Indexes)
      /\ Put(writer_buffer, a).used = [writer_buffer.used EXCEPT ![a] = @ - 1]
      /\ Put(writer_buffer, a).index = writer_buffer.index
  BY <1>1, PutKept
<1>3. /\ writer_buffer.used \in [Buffers -> Nat]
      /\ writer_buffer.index \in [Buffers -> Indexes \cup {NoIndex}]
  BY CachesAre DEF UseInv, Typed
<1>4. ASSUME NEW b \in Buffers
      PROVE  writer_buffer'.used[b] = writer_buffer.used[b] - (IF b = a THEN 1 ELSE 0)
  BY <1>2, <1>3
<1>5. ASSUME NEW b \in Buffers PROVE b \in Ready' <=> b \in Ready
  BY <1>2, <1>3, <1>4 DEF Ready
<1>6. QED BY <1>2, <1>4, <1>5

LEMMA FragGot ==
  ASSUME UseInv, NEW a \in FragmentBuffers, NEW f \in Frags,
         fragment_buffer.used[a] = 0, fragment_buffer' = Get(fragment_buffer, a, f)
  PROVE  /\ CacheKept(fragment_buffer, FragmentBuffers, Frags)'
         /\ fragment_buffer'.index = [fragment_buffer.index EXCEPT ![a] = f]
         /\ \A b \in FragmentBuffers : fragment_buffer'.used[b] =
              IF b = a THEN 1 ELSE fragment_buffer.used[b]
<1>1. CacheKept(fragment_buffer, FragmentBuffers, Frags) /\ NoIndex \notin Frags
  BY IndexesAre DEF UseInv, Typed, CachesKept
<1>2. f \in Frags \cup {NoIndex}
  OBVIOUS
<1>3. /\ CacheKept(Get(fragment_buffer, a, f), FragmentBuffers, Frags)
      /\ Get(fragment_buffer, a, f).used = [fragment_buffer.used EXCEPT ![a] = 1]
      /\ Get(fragment_buffer, a, f).index = [fragment_buffer.index EXCEPT ![a] = f]
  BY <1>1, <1>2, GetKept
<1>4. fragment_buffer.used \in [FragmentBuffers -> Nat]
  BY CachesAre DEF UseInv, Typed
<1>5. QED BY <1>3, <1>4

LEMMA FragPut ==
  ASSUME UseInv, NEW a \in FragmentBuffers, fragment_buffer.used[a] # 0,
         fragment_buffer' = Put(fragment_buffer, a)
  PROVE  /\ CacheKept(fragment_buffer, FragmentBuffers, Frags)'
         /\ fragment_buffer'.index = fragment_buffer.index
         /\ \A b \in FragmentBuffers : fragment_buffer'.used[b] =
              fragment_buffer.used[b] - (IF b = a THEN 1 ELSE 0)
<1>1. CacheKept(fragment_buffer, FragmentBuffers, Frags)
  BY DEF UseInv, Typed, CachesKept
<1>2. /\ CacheKept(Put(fragment_buffer, a), FragmentBuffers, Frags)
      /\ Put(fragment_buffer, a).used = [fragment_buffer.used EXCEPT ![a] = @ - 1]
      /\ Put(fragment_buffer, a).index = fragment_buffer.index
  BY <1>1, PutKept
<1>3. fragment_buffer.used \in [FragmentBuffers -> Nat]
  BY CachesAre DEF UseInv, Typed
<1>4. QED BY <1>2, <1>3

(* A frag_deflator is done with its fragment.                              *)
LEMMA DeflatorDone ==
  ASSUME UseInv, NEW d \in FragDeflators, frag_deflator[d] # IdleDeflator,
         frag_deflator' = [frag_deflator EXCEPT ![d] = IdleDeflator]
  PROVE  /\ \A b \in Buffers : Deflating(b, "to")' =
              Deflating(b, "to") - (IF b = frag_deflator[d].to THEN 1 ELSE 0)
         /\ \A b \in FragmentBuffers : Deflating(b, "from")' =
              Deflating(b, "from") - (IF b = frag_deflator[d].from THEN 1 ELSE 0)
         /\ Deflating(frag_deflator[d].to, "to") > 0
         /\ Deflating(frag_deflator[d].from, "from") > 0
         /\ fragment_buffer.used[frag_deflator[d].from] # 0
<1>1. /\ frag_deflator[d].to \in Buffers /\ frag_deflator[d].from \in FragmentBuffers
  BY WorkingIs DEF UseInv, Typed
<1>2. /\ \A e \in FragDeflators : e # d => frag_deflator'[e] = frag_deflator[e]
      /\ frag_deflator'[d].to = NoBuffer /\ frag_deflator'[d].from = NoBuffer
  BY DEF UseInv, Typed, QueuesTyped, IdleDeflator
<1>3. ASSUME NEW b \in Buffers
      PROVE  Deflating(b, "to")' =
               Deflating(b, "to") - (IF b = frag_deflator[d].to THEN 1 ELSE 0)
             /\ Deflating(b, "to") \in Nat /\ Deflating(b, "to")' \in Nat
  <2>1. b # NoBuffer
    OBVIOUS
  <2>2. Deflating(b, "to") \in Nat /\ Deflating(b, "to")' =
          Deflating(b, "to") - (IF frag_deflator[d].to = b THEN 1 ELSE 0)
            + (IF frag_deflator'[d].to = b THEN 1 ELSE 0)
    BY <1>2, DeflatingSet
  <2>3. Deflating(b, "to")' \in Nat
    <3>1. IsFiniteSet({e \in FragDeflators : frag_deflator'[e].to = b})
      BY FS_Subset
    <3>2. QED BY <3>1, FS_CardinalityType DEF Deflating
  <2>4. QED BY <1>2, <2>1, <2>2, <2>3
<1>4. ASSUME NEW b \in FragmentBuffers
      PROVE  Deflating(b, "from")' =
               Deflating(b, "from") - (IF b = frag_deflator[d].from THEN 1 ELSE 0)
             /\ Deflating(b, "from") \in Nat /\ Deflating(b, "from")' \in Nat
  <2>1. b # NoBuffer
    OBVIOUS
  <2>2. Deflating(b, "from") \in Nat /\ Deflating(b, "from")' =
          Deflating(b, "from") - (IF frag_deflator[d].from = b THEN 1 ELSE 0)
            + (IF frag_deflator'[d].from = b THEN 1 ELSE 0)
    BY <1>2, DeflatingSet
  <2>3. Deflating(b, "from")' \in Nat
    <3>1. IsFiniteSet({e \in FragDeflators : frag_deflator'[e].from = b})
      BY FS_Subset
    <3>2. QED BY <3>1, FS_CardinalityType DEF Deflating
  <2>4. QED BY <1>2, <2>1, <2>2, <2>3
<1>5. Deflating(frag_deflator[d].to, "to") > 0
  <2>1. PICK b \in Buffers : b = frag_deflator[d].to
    BY <1>1
  <2>2. Deflating(b, "to")' = Deflating(b, "to") - 1
        /\ Deflating(b, "to") \in Nat /\ Deflating(b, "to")' \in Nat
    BY <1>3, <2>1
  <2>3. QED BY <2>1, <2>2
<1>6. Deflating(frag_deflator[d].from, "from") > 0
      /\ fragment_buffer.used[frag_deflator[d].from] # 0
  <2>1. PICK b \in FragmentBuffers : b = frag_deflator[d].from
    BY <1>1
  <2>2. Deflating(b, "from")' = Deflating(b, "from") - 1
        /\ Deflating(b, "from") \in Nat /\ Deflating(b, "from")' \in Nat
    BY <1>4, <2>1
  <2>3. Deflating(b, "from") > 0
    BY <2>2
  <2>4. fragment_buffer.used[b] # 0
    BY <2>3, FragSum
  <2>5. QED BY <2>1, <2>3, <2>4
<1>7. QED BY <1>3, <1>4, <1>5, <1>6

LEMMA DeflatorDoneFrag ==
  ASSUME UseInv, NEW d \in FragDeflators, frag_deflator[d] # IdleDeflator,
         frag_deflator' = [frag_deflator EXCEPT ![d] = IdleDeflator],
         fragment_buffer' = Put(fragment_buffer, frag_deflator[d].from),
         UNCHANGED <<main, to_frag, fragment_data>>
  PROVE  FragUsed' /\ CacheKept(fragment_buffer, FragmentBuffers, Frags)'
<1>1. PICK a \in FragmentBuffers : a = frag_deflator[d].from
  BY WorkingIs DEF UseInv, Typed
<1>2. /\ fragment_buffer.used[a] # 0
      /\ \A b \in FragmentBuffers : Deflating(b, "from")' =
           Deflating(b, "from") - (IF b = a THEN 1 ELSE 0)
  BY <1>1, DeflatorDone
<1>3. /\ CacheKept(fragment_buffer, FragmentBuffers, Frags)'
      /\ \A b \in FragmentBuffers : fragment_buffer'.used[b] =
           fragment_buffer.used[b] - (IF b = a THEN 1 ELSE 0)
  <2>1. fragment_buffer' = Put(fragment_buffer, a)
    BY <1>1
  <2>2. QED BY <1>2, <2>1, FragPut
<1>4. FragUsed'
  BY <1>2, <1>3, FragSum, FragAdds
<1>5. QED BY <1>3, <1>4

LEMMA SettleFragmentUse ==
  ASSUME UseInv, NEW d \in FragDeflators, SettleFragment(d)
  PROVE  CachesKept' /\ WriterUsed' /\ FragUsed'
<1>1. /\ frag_deflator \in [FragDeflators -> {IdleDeflator} \cup Working]
      /\ frag_deflator[d] # IdleDeflator /\ to_writer \in Seq(Buffers)
      /\ UNCHANGED <<main, writer_buffer, frag_locked_list, to_frag, fragment_data>>
  <2>1. frag_deflator[d] # IdleDeflator
    BY DEF SettleFragment, IdleDeflator
  <2>2. QED BY <2>1 DEF UseInv, Typed, QueuesTyped, SettleFragment, lockVars, packVars
<1>2. PICK a \in Buffers : a = frag_deflator[d].to
  BY <1>1, WorkingIs DEF UseInv, Typed
<1>3. CacheKept(writer_buffer, Buffers, Indexes)'
      /\ CacheKept(fragment_buffer, FragmentBuffers, Frags)
  BY <1>1 DEF UseInv, Typed, CachesKept
<1>4. CASE fragments_locked
  <2>1. /\ frag_deflator' = [frag_deflator EXCEPT ![d].state = "pend"]
        /\ UNCHANGED <<to_writer, fragment_buffer>>
    BY <1>4 DEF SettleFragment
  <2>2. /\ \A e \in FragDeflators : e # d => frag_deflator'[e] = frag_deflator[e]
        /\ frag_deflator'[d].to = frag_deflator[d].to
        /\ frag_deflator'[d].from = frag_deflator[d].from
    <3>1. frag_deflator[d] \in Working
      BY <1>1
    <3>2. frag_deflator' = [frag_deflator EXCEPT ![d] = [frag_deflator[d] EXCEPT !.state = "pend"]]
      BY <1>1, <2>1
    <3>3. QED BY <1>1, <3>1, <3>2 DEF Working
  <2>3. ASSUME NEW b
        PROVE  Deflating(b, "to")' = Deflating(b, "to")
               /\ Deflating(b, "from")' = Deflating(b, "from")
    <3>1. /\ Deflating(b, "to") \in Nat
          /\ Deflating(b, "to")' = Deflating(b, "to")
              - (IF frag_deflator[d].to = b THEN 1 ELSE 0)
              + (IF frag_deflator'[d].to = b THEN 1 ELSE 0)
          /\ Deflating(b, "from") \in Nat
          /\ Deflating(b, "from")' = Deflating(b, "from")
              - (IF frag_deflator[d].from = b THEN 1 ELSE 0)
              + (IF frag_deflator'[d].from = b THEN 1 ELSE 0)
      BY <2>2, DeflatingSet
    <3>2. QED BY <2>2, <3>1
  <2>4. Ready' = Ready
    BY <1>1 DEF Ready
  <2>5. WriterUsed'
    BY <1>1, <2>1, <2>3, <2>4, WriterSum, WriterAdds
  <2>6. FragUsed'
    BY <1>1, <2>1, <2>3, FragSum, FragAdds
  <2>7. QED BY <1>3, <2>1, <2>5, <2>6 DEF CachesKept
<1>5. CASE ~fragments_locked
  <2>1. /\ to_writer' = Append(to_writer, a)
        /\ frag_deflator' = [frag_deflator EXCEPT ![d] = IdleDeflator]
        /\ fragment_buffer' = Put(fragment_buffer, frag_deflator[d].from)
    BY <1>2, <1>5 DEF SettleFragment, PlaceFragment
  <2>2. FragUsed' /\ CacheKept(fragment_buffer, FragmentBuffers, Frags)'
    BY <1>1, <2>1, DeflatorDoneFrag
  <2>3. ASSUME NEW b \in Buffers
        PROVE  CountIn(to_writer', {b}) = CountIn(to_writer, {b}) + (IF b = a THEN 1 ELSE 0)
    BY <1>1, <2>1, CountAppend
  <2>4. \A b \in Buffers : Deflating(b, "to")' = Deflating(b, "to") - (IF b = a THEN 1 ELSE 0)
    BY <1>1, <1>2, <2>1, DeflatorDone
  <2>5. Ready' = Ready
    BY <1>1 DEF Ready
  <2>6. WriterUsed'
    <3> DEFINE ended == [b \in Buffers |-> 0]
    <3>1. ASSUME NEW b \in Buffers
          PROVE  /\ writer_buffer'.used[b] = writer_buffer.used[b] - ended[b]
                 /\ Owned(b)' = Owned(b) - ended[b]
      <4>1. PICK n \in Nat : n = CountIn(to_writer, {b})
        BY WriterSum
      <4>2. PICK k \in Nat : k = CountIn(main.held, {b})
        BY WriterSum
      <4>3. PICK m \in Nat : m = Deflating(b, "to")
        BY WriterSum
      <4>4. PICK l \in Nat : l = CountIn(frag_locked_list, PendingIn(b))
        BY WriterSum
      <4>5. /\ CountIn(to_writer', {b}) = n + (IF b = a THEN 1 ELSE 0)
            /\ CountIn(main'.held, {b}) = k
            /\ Deflating(b, "to")' = m - (IF b = a THEN 1 ELSE 0)
            /\ CountIn(frag_locked_list', PendingIn(b)) = l
            /\ writer_buffer'.used[b] = writer_buffer.used[b] /\ writer_buffer.used[b] \in Nat
        BY <1>1, <2>3, <2>4, <4>1, <4>2, <4>3, <4>4, WriterSum
      <4>6. QED BY <2>5, <4>1, <4>2, <4>3, <4>4, <4>5 DEF Owned, One
    <3>2. ended \in [Buffers -> Nat]
      OBVIOUS
    <3> HIDE DEF ended
    <3>3. QED BY <1>1, <3>1, <3>2, WriterMoves
  <2>7. QED BY <1>3, <2>2, <2>6 DEF CachesKept
<1>6. QED BY <1>4, <1>5

LEMMA AddPendingUse ==
  ASSUME UseInv, NEW d \in FragDeflators, AddPendingFragment(d)
  PROVE  CachesKept' /\ WriterUsed' /\ FragUsed'
<1>1. /\ frag_deflator[d] # IdleDeflator /\ frag_locked_list \in Seq(Pending)
      /\ UNCHANGED <<main, writer_buffer, to_writer, to_frag, fragment_data>>
      /\ frag_deflator' = [frag_deflator EXCEPT ![d] = IdleDeflator]
      /\ fragment_buffer' = Put(fragment_buffer, frag_deflator[d].from)
  <2>1. frag_deflator[d] # IdleDeflator
    BY DEF AddPendingFragment, IdleDeflator
  <2>2. QED BY <2>1 DEF UseInv, Typed, QueuesTyped, AddPendingFragment, packVars
<1>2. PICK a \in Buffers : a = frag_deflator[d].to
  BY <1>1, WorkingIs DEF UseInv, Typed
<1>3. PICK p : p = [frag |-> frag_deflator[d].frag, buffer |-> a]
  OBVIOUS
<1>4. p \in Pending /\ p.buffer = a /\ frag_locked_list' = Append(frag_locked_list, p)
  <2>1. frag_deflator[d].frag \in Frags
    BY <1>1, WorkingIs DEF UseInv, Typed
  <2>2. p \in Pending /\ p.buffer = a
    BY <1>3, <2>1 DEF Pending
  <2>3. QED BY <1>2, <1>3, <2>2 DEF AddPendingFragment
<1>5. CacheKept(writer_buffer, Buffers, Indexes)'
  BY <1>1 DEF UseInv, Typed, CachesKept
<1>6. FragUsed' /\ CacheKept(fragment_buffer, FragmentBuffers, Frags)'
  BY <1>1, DeflatorDoneFrag
<1>7. ASSUME NEW b \in Buffers
      PROVE  CountIn(frag_locked_list', PendingIn(b)) =
               CountIn(frag_locked_list, PendingIn(b)) + (IF b = a THEN 1 ELSE 0)
  <2>1. p \in PendingIn(b) <=> b = a
    BY <1>4 DEF PendingIn
  <2>2. CountIn(Append(frag_locked_list, p), PendingIn(b)) =
          CountIn(frag_locked_list, PendingIn(b)) + (IF p \in PendingIn(b) THEN 1 ELSE 0)
    BY <1>1, <1>4, CountAppend
  <2>3. QED BY <1>4, <2>1, <2>2
<1>8. \A b \in Buffers : Deflating(b, "to")' = Deflating(b, "to") - (IF b = a THEN 1 ELSE 0)
  BY <1>1, <1>2, DeflatorDone
<1>9. Ready' = Ready
  BY <1>1 DEF Ready
<1>10. WriterUsed'
  BY <1>1, <1>7, <1>8, <1>9, WriterSum, WriterAdds
<1>11. QED BY <1>5, <1>6, <1>10 DEF CachesKept

LEMMA WriteUse ==
  ASSUME UseInv, Write
  PROVE  CachesKept' /\ WriterUsed' /\ FragUsed'
<1>1. /\ to_writer \in Seq(Buffers) /\ to_writer # <<>> /\ to_writer' = Tail(to_writer)
      /\ UNCHANGED <<main, fragment_buffer, to_frag, fragment_data, frag_locked_list,
                     frag_deflator>>
  BY DEF UseInv, Typed, QueuesTyped, Write, packVars, lockVars
<1>2. PICK a \in Buffers : a = Head(to_writer)
  BY <1>1, TailIs
<1>3. ASSUME NEW b \in Buffers
      PROVE  CountIn(to_writer, {b}) = CountIn(to_writer', {b}) + (IF b = a THEN 1 ELSE 0)
             /\ CountIn(to_writer', {b}) \in Nat
  <2>1. CountIn(to_writer, {b}) = CountIn(Tail(to_writer), {b})
                                  + (IF Head(to_writer) \in {b} THEN 1 ELSE 0)
    BY <1>1, CountTail
  <2>2. Tail(to_writer) \in Seq(Buffers)
    BY <1>1, TailIs
  <2>3. QED BY <1>1, <1>2, <2>1, <2>2, CountFinite
<1>4. writer_buffer.used[a] # 0 /\ a \notin Ready
  <2>1. CountIn(to_writer, {a}) > 0
    BY <1>3
  <2>2. QED BY <2>1, WriterSum
<1>5. writer_buffer.index[a] # NoIndex
  <2>1. writer_buffer.used[a] \in Nat
    BY WriterSum
  <2>2. writer_buffer.used[a] > 0
    BY <1>4, <2>1
  <2>3. QED BY <1>4, <2>2, ReadyIs
<1>6. writer_buffer' = Put(writer_buffer, a)
  BY <1>2 DEF Write
<1>7. /\ CacheKept(writer_buffer, Buffers, Indexes)'
      /\ \A b \in Buffers :
           /\ writer_buffer'.used[b] = writer_buffer.used[b] - (IF b = a THEN 1 ELSE 0)
           /\ b \in Ready' <=> b \in Ready
  BY <1>4, <1>5, <1>6, WriterPut
<1>8. WriterUsed'
  <2>1. ASSUME NEW b \in Buffers PROVE Deflating(b, "to")' = Deflating(b, "to")
    BY <1>1 DEF Deflating
  <2> DEFINE ended == [b \in Buffers |-> IF b = a THEN 1 ELSE 0]
  <2>2. ASSUME NEW b \in Buffers
        PROVE  /\ writer_buffer'.used[b] = writer_buffer.used[b] - ended[b]
               /\ Owned(b)' = Owned(b) - ended[b]
    <3>1. PICK n \in Nat : n = CountIn(to_writer', {b})
      BY <1>3
    <3>2. PICK k \in Nat : k = CountIn(main.held, {b})
      BY WriterSum
    <3>3. PICK m \in Nat : m = Deflating(b, "to")
      BY WriterSum
    <3>4. PICK l \in Nat : l = CountIn(frag_locked_list, PendingIn(b))
      BY WriterSum
    <3>5. /\ CountIn(to_writer, {b}) = n + (IF b = a THEN 1 ELSE 0)
          /\ CountIn(main'.held, {b}) = k
          /\ Deflating(b, "to")' = m
          /\ CountIn(frag_locked_list', PendingIn(b)) = l
          /\ writer_buffer'.used[b] = writer_buffer.used[b] - (IF b = a THEN 1 ELSE 0)
          /\ b \in Ready' <=> b \in Ready
      BY <1>1, <1>3, <1>7, <2>1, <3>1, <3>2, <3>3, <3>4
    <3>6. QED BY <3>1, <3>2, <3>3, <3>4, <3>5 DEF Owned, One
  <2>3. ended \in [Buffers -> Nat]
    OBVIOUS
  <2> HIDE DEF ended
  <2>4. QED BY <1>1, <2>2, <2>3, WriterMoves
<1>9. FragUsed' /\ CacheKept(fragment_buffer, FragmentBuffers, Frags)'
  BY <1>1, FragLeft DEF UseInv, Typed, CachesKept
<1>10. QED BY <1>7, <1>8, <1>9 DEF CachesKept

LEMMA PlaceBlockUse ==
  ASSUME UseInv, NEW a \in Ready, NEW size \in Sizes, PlaceBlock(a, size)
  PROVE  CachesKept' /\ WriterUsed' /\ FragUsed'
<1>1. /\ a \in Buffers /\ writer_buffer.used[a] # 0 /\ bytes \in Indexes
      /\ to_writer \in Seq(Buffers) /\ main.held \in Seq(Buffers) /\ main \in Mains
      /\ CacheKept(writer_buffer, Buffers, Indexes) /\ NoIndex \notin Indexes
  BY IndexesAre, MainFields DEF Ready, UseInv, Typed, QueuesTyped, OutputTyped, CachesKept, MainTyped
<1>2. /\ writer_buffer' = Rehash(writer_buffer, a, bytes)
      /\ UNCHANGED <<fragment_buffer, to_frag, fragment_data, frag_locked_list, frag_deflator>>
  BY DEF PlaceBlock, others, packVars, lockVars
<1>3. /\ CacheKept(writer_buffer, Buffers, Indexes)'
      /\ writer_buffer'.used = writer_buffer.used
      /\ writer_buffer'.index = [writer_buffer.index EXCEPT ![a] = bytes]
  <2>0. PICK c : c = writer_buffer
    OBVIOUS
  <2>1. PICK i \in Indexes : i = bytes
    BY <1>1
  <2>2. CacheKept(c, Buffers, Indexes) /\ c.used[a] # 0 /\ a \in Buffers /\ NoIndex \notin Indexes
    BY <1>1, <2>0
  <2>3. /\ CacheKept(Rehash(c, a, i), Buffers, Indexes)
        /\ Rehash(c, a, i).used = c.used
        /\ Rehash(c, a, i).index = [c.index EXCEPT ![a] = i]
    BY <2>2, RehashKept
  <2>4. writer_buffer' = Rehash(c, a, i)
    BY <1>2, <2>0, <2>1
  <2>5. QED BY <2>0, <2>1, <2>3, <2>4
<1>4. \A b \in Buffers : b \in Ready' <=> b \in Ready /\ b # a
  BY <1>1, <1>3, CachesAre DEF Ready, UseInv, Typed
<1>5. /\ main'.fetch = main.fetch
      /\ \/ main'.held = Append(main.held, a) /\ to_writer' = to_writer
         \/ main'.held = main.held /\ to_writer' = Append(to_writer, a)
  BY <1>1 DEF PlaceBlock, Mains
<1>6. ASSUME NEW b \in Buffers
      PROVE  CountIn(to_writer', {b}) + CountIn(main'.held, {b}) =
               CountIn(to_writer, {b}) + CountIn(main.held, {b}) + (IF b = a THEN 1 ELSE 0)
             /\ CountIn(to_writer', {b}) \in Nat /\ CountIn(main'.held, {b}) \in Nat
  <2>1. /\ CountIn(Append(to_writer, a), {b}) = CountIn(to_writer, {b}) + (IF a \in {b} THEN 1 ELSE 0)
        /\ CountIn(Append(main.held, a), {b}) = CountIn(main.held, {b}) + (IF a \in {b} THEN 1 ELSE 0)
    BY <1>1, CountAppend
  <2>2. PICK n \in Nat : n = CountIn(to_writer, {b})
    BY WriterSum
  <2>3. PICK k \in Nat : k = CountIn(main.held, {b})
    BY WriterSum
  <2>4. \/ CountIn(to_writer', {b}) = n + (IF b = a THEN 1 ELSE 0) /\ CountIn(main'.held, {b}) = k
        \/ CountIn(to_writer', {b}) = n /\ CountIn(main'.held, {b}) = k + (IF b = a THEN 1 ELSE 0)
    BY <1>5, <2>1, <2>2, <2>3
  <2>5. QED BY <2>2, <2>3, <2>4
<1>7. WriterUsed'
  <2>1. ASSUME NEW b \in Buffers PROVE Deflating(b, "to")' = Deflating(b, "to")
    BY <1>2 DEF Deflating
  <2>2. QED BY <1>2, <1>3, <1>4, <1>5, <1>6, <2>1, WriterSum, WriterAdds
<1>8. FragUsed' /\ CacheKept(fragment_buffer, FragmentBuffers, Frags)'
  BY <1>2, <1>5, FragLeft DEF UseInv, Typed, CachesKept
<1>9. QED BY <1>3, <1>7, <1>8 DEF CachesKept

LEMMA UnlockOneUse ==
  ASSUME UseInv, UnlockOne
  PROVE  CachesKept' /\ WriterUsed' /\ FragUsed'
<1>1. /\ to_writer \in Seq(Buffers) /\ frag_locked_list \in Seq(Pending)
      /\ frag_locked_list # <<>> /\ frag_locked_list' = Tail(frag_locked_list)
      /\ UNCHANGED <<main, writer_buffer, fragment_buffer, to_frag, fragment_data,
                     frag_deflator>>
  BY DEF UseInv, Typed, QueuesTyped, UnlockOne, packVars
<1>2. PICK p \in Pending : p = Head(frag_locked_list)
  BY <1>1, TailIs
<1>3. p.buffer \in Buffers /\ to_writer' = Append(to_writer, p.buffer)
  BY <1>2 DEF Pending, UnlockOne, PlaceFragment
<1>4. ASSUME NEW b \in Buffers
      PROVE  /\ CountIn(frag_locked_list, PendingIn(b)) =
                  CountIn(frag_locked_list', PendingIn(b)) + (IF b = p.buffer THEN 1 ELSE 0)
             /\ CountIn(frag_locked_list', PendingIn(b)) \in Nat
             /\ CountIn(to_writer', {b}) = CountIn(to_writer, {b}) + (IF b = p.buffer THEN 1 ELSE 0)
  <2>1. p \in PendingIn(b) <=> b = p.buffer
    BY DEF PendingIn
  <2>2. CountIn(frag_locked_list, PendingIn(b)) = CountIn(Tail(frag_locked_list), PendingIn(b))
                                         + (IF p \in PendingIn(b) THEN 1 ELSE 0)
    BY <1>1, <1>2, CountTail
  <2>3. Tail(frag_locked_list) \in Seq(Pending)
    BY <1>1, TailIs
  <2>4. CountIn(Tail(frag_locked_list), PendingIn(b)) \in Nat
    BY <2>3, CountFinite
  <2>5. CountIn(Append(to_writer, p.buffer), {b}) =
          CountIn(to_writer, {b}) + (IF p.buffer \in {b} THEN 1 ELSE 0)
    BY <1>1, <1>3, CountAppend
  <2>6. QED BY <1>1, <1>3, <2>1, <2>2, <2>4, <2>5
<1>5. Ready' = Ready
  BY <1>1 DEF Ready
<1>6. WriterUsed'
  <2>1. ASSUME NEW b \in Buffers PROVE Deflating(b, "to")' = Deflating(b, "to")
    BY <1>1 DEF Deflating
  <2>2. ASSUME NEW b \in Buffers
        PROVE  /\ writer_buffer'.used[b] = writer_buffer.used[b] - 0
               /\ Owned(b)' = Owned(b) - 0
    <3>1. PICK n \in Nat : n = CountIn(to_writer, {b})
      BY WriterSum
    <3>2. PICK k \in Nat : k = CountIn(main.held, {b})
      BY WriterSum
    <3>3. PICK m \in Nat : m = Deflating(b, "to")
      BY WriterSum
    <3>4. PICK l \in Nat : l = CountIn(frag_locked_list', PendingIn(b))
      BY <1>4
    <3>5. /\ CountIn(to_writer', {b}) = n + (IF b = p.buffer THEN 1 ELSE 0)
          /\ CountIn(main'.held, {b}) = k
          /\ Deflating(b, "to")' = m
          /\ CountIn(frag_locked_list, PendingIn(b)) = l + (IF b = p.buffer THEN 1 ELSE 0)
      BY <1>1, <1>4, <2>1, <3>1, <3>2, <3>3, <3>4
    <3>6. Owned(b)' = Owned(b)
      BY <1>5, <3>1, <3>2, <3>3, <3>4, <3>5 DEF Owned, One
    <3>7. PICK o \in Nat : o = Owned(b)
      BY <3>1, <3>2, <3>3, <1>4, <3>4, <3>5 DEF Owned, One
    <3>8. PICK u \in Nat : u = writer_buffer.used[b]
      BY WriterSum
    <3>9. writer_buffer'.used[b] = u
      BY <1>1, <3>8
    <3>10. QED BY <3>6, <3>7, <3>8, <3>9
  <2> DEFINE ended == [b \in Buffers |-> 0]
  <2>3. ended \in [Buffers -> Nat] /\ \A b \in Buffers : ended[b] = 0
    OBVIOUS
  <2> HIDE DEF ended
  <2>4. QED BY <1>1, <2>2, <2>3, WriterMoves
<1>7. FragUsed' /\ CacheKept(fragment_buffer, FragmentBuffers, Frags)'
  BY <1>1, FragLeft DEF UseInv, Typed, CachesKept
<1>8. QED BY <1>1, <1>6, <1>7 DEF UseInv, Typed, CachesKept

(* The buffers main held are put back.                                     *)
LEMMA HeldPut ==
  ASSUME UseInv, writer_buffer' = PutAll(writer_buffer, main.held), main'.held = <<>>,
         main'.fetch.compressed = main.fetch.compressed,
         UNCHANGED <<to_writer, frag_locked_list, frag_deflator>>
  PROVE  /\ CacheKept(writer_buffer, Buffers, Indexes)' /\ WriterUsed'
         /\ writer_buffer'.index = writer_buffer.index
         /\ writer_buffer'.chain = writer_buffer.chain
         /\ Extends(writer_buffer.free, writer_buffer'.free)
<1>1. PICK c, h : c = writer_buffer /\ h = main.held
  OBVIOUS
<1>2. CacheKept(c, Buffers, Indexes) /\ h \in Seq(Buffers)
  BY <1>1, MainFields DEF UseInv, Typed, CachesKept
<1>3. ASSUME NEW b \in Buffers PROVE CountIn(h, {b}) <= c.used[b] /\ CountIn(h, {b}) \in Nat
  <2>1. PICK n \in Nat : n = CountIn(to_writer, {b})
    BY WriterSum
  <2>2. PICK k \in Nat : k = CountIn(h, {b})
    BY <1>1, WriterSum
  <2>3. PICK m \in Nat : m = Deflating(b, "to")
    BY WriterSum
  <2>4. PICK l \in Nat : l = CountIn(frag_locked_list, PendingIn(b))
    BY WriterSum
  <2>5. c.used[b] = n + k + (IF b \in Ready THEN 1 ELSE 0) + l + m
                    + (IF main.fetch.compressed = b THEN 1 ELSE 0)
    BY <1>1, <2>1, <2>2, <2>3, <2>4, WriterSum
  <2>6. QED BY <2>2, <2>5
<1>4. /\ CacheKept(PutEach(c, h), Buffers, Indexes)
      /\ \A b \in Buffers : PutEach(c, h).used[b] = c.used[b] - CountIn(h, {b})
      /\ PutEach(c, h).index = c.index /\ PutEach(c, h).chain = c.chain
      /\ Extends(c.free, PutEach(c, h).free)
  BY <1>2, <1>3, PutEachKept
<1>5. writer_buffer' = PutEach(c, h)
  BY <1>1, PutAllIs
<1> DEFINE ended == [b \in Buffers |-> CountIn(h, {b})]
<1>6. ASSUME NEW b \in Buffers
      PROVE  /\ writer_buffer'.used[b] = writer_buffer.used[b] - ended[b]
             /\ Owned(b)' = Owned(b) - ended[b]
  <2>1. PICK n \in Nat : n = CountIn(to_writer, {b})
    BY WriterSum
  <2>2. PICK k \in Nat : k = CountIn(h, {b})
    BY <1>1, WriterSum
  <2>3. PICK m \in Nat : m = Deflating(b, "to")
    BY WriterSum
  <2>4. PICK l \in Nat : l = CountIn(frag_locked_list, PendingIn(b))
    BY WriterSum
  <2>5. PICK u \in Nat : u = writer_buffer.used[b]
    BY WriterSum
  <2>6. u = n + k + (IF b \in Ready THEN 1 ELSE 0) + l + m
            + (IF main.fetch.compressed = b THEN 1 ELSE 0)
        /\ n + k + (IF b \in Ready THEN 1 ELSE 0) + l + m <= 1
    BY <1>1, <2>1, <2>2, <2>3, <2>4, <2>5, WriterSum
  <2>7. writer_buffer'.used[b] = u - k
    BY <1>1, <1>4, <1>5, <2>2, <2>5
  <2>8. b \in Ready' <=> b \in Ready
    <3>1. writer_buffer'.index[b] = writer_buffer.index[b]
      BY <1>1, <1>4, <1>5
    <3>2. b \in Ready <=> u > 0 /\ writer_buffer.index[b] = NoIndex
      BY <2>5, ReadyIs
    <3>3. b \in Ready' <=> u - k > 0 /\ writer_buffer.index[b] = NoIndex
      BY <2>7, <3>1 DEF Ready
    <3>4. QED BY <2>6, <3>2, <3>3
  <2>9. Deflating(b, "to")' = m /\ CountIn(to_writer', {b}) = n
        /\ CountIn(frag_locked_list', PendingIn(b)) = l /\ CountIn(main'.held, {b}) = 0
    BY <2>1, <2>3, <2>4, CountEmpty DEF Deflating
  <2>10. Owned(b) = n + k + (IF b \in Ready THEN 1 ELSE 0) + l + m
    BY <1>1, <2>1, <2>2, <2>3, <2>4 DEF Owned, One
  <2>11. Owned(b)' = n + 0 + (IF b \in Ready THEN 1 ELSE 0) + l + m
    BY <2>8, <2>9 DEF Owned, One
  <2>12. ended[b] = k
    BY <2>2
  <2>13. QED BY <2>5, <2>7, <2>10, <2>11, <2>12
<1>7. ended \in [Buffers -> Nat]
  BY <1>3
<1> HIDE DEF ended
<1>8. WriterUsed'
  BY <1>6, <1>7, WriterMoves
<1>9. QED BY <1>1, <1>4, <1>5, <1>8

LEMMA UnlockDoneUse ==
  ASSUME UseInv, UnlockDone
  PROVE  CachesKept' /\ WriterUsed' /\ FragUsed'
<1>1. /\ main.pc = "unlock" /\ main \in Mains /\ main.fetch = NoFetch
      /\ main.held # <<>> => main.next = "idle"
  BY DEF UnlockDone, UseInv, Typed, MainTyped, MainShape
<1>2. main'.held = <<>> /\ main'.fetch = NoFetch
  BY <1>1 DEF UnlockDone, Idle, Mains
<1>3. /\ writer_buffer' = PutAll(writer_buffer, main.held)
      /\ UNCHANGED <<to_writer, frag_locked_list, frag_deflator, fragment_buffer, to_frag,
                     fragment_data>>
  BY DEF UnlockDone, others, packVars
<1>4. CacheKept(writer_buffer, Buffers, Indexes)' /\ WriterUsed'
  BY <1>1, <1>2, <1>3, HeldPut
<1>5. FragUsed' /\ CacheKept(fragment_buffer, FragmentBuffers, Frags)'
  BY <1>1, <1>2, <1>3, FragLeft DEF UseInv, Typed, CachesKept
<1>6. QED BY <1>4, <1>5 DEF CachesKept

LEMMA DuplicateUse ==
  ASSUME UseInv, Duplicate
  PROVE  CachesKept' /\ WriterUsed' /\ FragUsed'
<1>1. /\ main.pc = "compare" /\ main \in Mains /\ main.fetch = NoFetch
      /\ main.held # <<>> => main.mode = "dup"
  BY DEF Duplicate, UseInv, Typed, MainTyped, MainShape
<1>2. UNCHANGED <<to_writer, frag_locked_list, frag_deflator, fragment_buffer, to_frag,
                  fragment_data>>
  BY DEF Duplicate, GiveBackHeld, others, packVars, lockVars
<1>3. CASE main.mode = "dup"
  <2>1. /\ main'.held = <<>> /\ main'.fetch = main.fetch
        /\ writer_buffer' = PutAll(writer_buffer, main.held)
    <3>1. PICK pc :
            main' = [main EXCEPT !.held = <<>>, !.list = <<>>, !.next = "idle", !.pc = pc]
      BY <1>3 DEF Duplicate, GiveBackHeld
    <3>2. writer_buffer' = PutAll(writer_buffer, main.held)
      BY <1>3 DEF Duplicate, GiveBackHeld
    <3>3. QED BY <1>1, <3>1, <3>2 DEF Mains
  <2>2. CacheKept(writer_buffer, Buffers, Indexes)' /\ WriterUsed'
    BY <1>2, <2>1, HeldPut
  <2>3. FragUsed' /\ CacheKept(fragment_buffer, FragmentBuffers, Frags)'
    BY <1>2, <2>1, FragLeft DEF UseInv, Typed, CachesKept
  <2>4. QED BY <2>2, <2>3 DEF CachesKept
<1>4. CASE main.mode # "dup"
  <2>1. /\ main'.held = main.held /\ main'.fetch = main.fetch
        /\ writer_buffer' = writer_buffer
    BY <1>1, <1>4 DEF Duplicate, Idle
  <2>2. CacheKept(writer_buffer, Buffers, Indexes)' /\ WriterUsed'
    BY <1>2, <2>1, WriterLeft DEF UseInv, Typed, CachesKept
  <2>3. FragUsed' /\ CacheKept(fragment_buffer, FragmentBuffers, Frags)'
    BY <1>2, <2>1, FragLeft DEF UseInv, Typed, CachesKept
  <2>4. QED BY <2>2, <2>3 DEF CachesKept
<1>5. QED BY <1>3, <1>4

LEMMA NotDuplicateUse ==
  ASSUME UseInv, NotDuplicate
  PROVE  CachesKept' /\ WriterUsed' /\ FragUsed'
<1>1. /\ to_writer \in Seq(Buffers) /\ main.held \in Seq(Buffers) /\ main \in Mains
      /\ to_writer' = to_writer \o main.held
      /\ UNCHANGED <<writer_buffer, fragment_buffer, frag_locked_list, frag_deflator, to_frag,
                     fragment_data>>
  BY MainFields DEF UseInv, Typed, MainTyped, QueuesTyped, NotDuplicate, others, packVars, lockVars
<1>2. main'.held = <<>> /\ main'.fetch = main.fetch
  BY <1>1 DEF NotDuplicate, Mains
<1> DEFINE ended == [b \in Buffers |-> 0]
<1>3. ASSUME NEW b \in Buffers
      PROVE  /\ writer_buffer'.used[b] = writer_buffer.used[b] - ended[b]
             /\ Owned(b)' = Owned(b) - ended[b]
  <2>1. PICK n \in Nat : n = CountIn(to_writer, {b})
    BY WriterSum
  <2>2. PICK k \in Nat : k = CountIn(main.held, {b})
    BY WriterSum
  <2>3. PICK m \in Nat : m = Deflating(b, "to")
    BY WriterSum
  <2>4. PICK l \in Nat : l = CountIn(frag_locked_list, PendingIn(b))
    BY WriterSum
  <2>5. PICK u \in Nat : u = writer_buffer.used[b]
    BY WriterSum
  <2>6. CountIn(to_writer', {b}) = n + k
    BY <1>1, <2>1, <2>2, CountConcat
  <2>7. Deflating(b, "to")' = m /\ CountIn(main'.held, {b}) = 0
        /\ CountIn(frag_locked_list', PendingIn(b)) = l /\ Ready' = Ready
    BY <1>1, <1>2, <2>3, <2>4, CountEmpty DEF Deflating, Ready
  <2>8. Owned(b) = n + k + (IF b \in Ready THEN 1 ELSE 0) + l + m
    BY <2>1, <2>2, <2>3, <2>4 DEF Owned, One
  <2>9. Owned(b)' = n + k + 0 + (IF b \in Ready THEN 1 ELSE 0) + l + m
    BY <2>6, <2>7 DEF Owned, One
  <2>10. ended[b] = 0
    OBVIOUS
  <2>11. QED BY <1>1, <2>5, <2>8, <2>9, <2>10
<1>4. ended \in [Buffers -> Nat]
  OBVIOUS
<1> HIDE DEF ended
<1>5. WriterUsed'
  BY <1>2, <1>3, <1>4, WriterMoves
<1>6. FragUsed' /\ CacheKept(fragment_buffer, FragmentBuffers, Frags)'
  BY <1>1, <1>2, FragLeft DEF UseInv, Typed, CachesKept
<1>7. QED BY <1>1, <1>5, <1>6 DEF UseInv, Typed, CachesKept

LEMMA CompareBlockUse ==
  ASSUME UseInv, CompareBlock
  PROVE  /\ CachesKept' /\ WriterUsed' /\ FragUsed'
         /\ writer_buffer'.used = writer_buffer.used
         /\ writer_buffer'.index = writer_buffer.index
<1>1. PICK i \in Candidates : \E e \in Range(main.list) \cup Range(files[i].list) :
        LET b == Found(writer_buffer, e.pos)
        IN /\ b # NoBuffer
           /\ writer_buffer' = Put(Lookup(writer_buffer, b), b)
  BY DEF CompareBlock
<1>2. PICK e \in Range(main.list) \cup Range(files[i].list) :
        LET b == Found(writer_buffer, e.pos)
        IN /\ b # NoBuffer
           /\ writer_buffer' = Put(Lookup(writer_buffer, b), b)
  BY <1>1
<1>3. PICK a, c : a = Found(writer_buffer, e.pos) /\ c = writer_buffer
  OBVIOUS
<1>4. CacheKept(c, Buffers, Indexes) /\ a # NoBuffer /\ writer_buffer' = Put(Lookup(c, a), a)
  BY <1>2, <1>3 DEF UseInv, Typed, CachesKept
<1>5. e \in Extents /\ e.pos \in 0 .. MaxBytes
  <2>1. main.list \in Seq(Extents) /\ files \in Seq(Files) /\ i \in DOMAIN files
    BY MainFields DEF UseInv, Typed, OutputTyped, Candidates
  <2>2. files[i] \in Files
    BY <2>1
  <2>3. files[i].list \in Seq(Extents)
    BY <2>2 DEF Files
  <2>4. Range(main.list) \subseteq Extents /\ Range(files[i].list) \subseteq Extents
    BY <2>1, <2>3 DEF Range
  <2>5. QED BY <2>4 DEF Extents
<1>6. a \in Buffers /\ c.index[a] = e.pos /\ c.index[a] # NoIndex
  <2>1. PICK p \in Indexes : p = e.pos /\ p # NoIndex
    BY <1>5, IndexesAre
  <2>2. Found(c, p) # NoBuffer => Found(c, p) \in Buffers /\ c.index[Found(c, p)] = p
    BY <1>4, FoundIs
  <2>3. QED BY <1>3, <1>4, <2>1, <2>2
<1>7. /\ CacheKept(Lookup(c, a), Buffers, Indexes)
      /\ Lookup(c, a).used = [c.used EXCEPT ![a] = @ + 1]
      /\ Lookup(c, a).index = c.index
  BY <1>4, <1>6, LookupKept
<1>8. c.used \in [Buffers -> Nat]
  BY <1>3, CachesAre DEF UseInv, Typed
<1>9. PICK d : d = Lookup(c, a)
  OBVIOUS
<1>10. /\ CacheKept(d, Buffers, Indexes) /\ d.used[a] # 0
       /\ d.used = [c.used EXCEPT ![a] = @ + 1] /\ d.index = c.index
  BY <1>6, <1>7, <1>8, <1>9
<1>11. /\ CacheKept(Put(d, a), Buffers, Indexes)
       /\ Put(d, a).used = [d.used EXCEPT ![a] = @ - 1]
       /\ Put(d, a).index = d.index
  <2>1. CacheKept(d, Buffers, Indexes)
    BY <1>10
  <2>2. a \in Buffers /\ d.used[a] # 0
    BY <1>6, <1>10
  <2>3. QED BY <2>1, <2>2, PutKept
<1>12. writer_buffer' = Put(d, a)
  BY <1>4, <1>9
<1>13. writer_buffer'.used = writer_buffer.used /\ writer_buffer'.index = writer_buffer.index
  BY <1>3, <1>6, <1>8, <1>10, <1>11, <1>12
<1>14. UNCHANGED <<main, to_writer, frag_locked_list, frag_deflator, fragment_buffer, to_frag,
                   fragment_data>>
  BY DEF CompareBlock, others, packVars, lockVars
<1>15. Ready' = Ready
  BY <1>13 DEF Ready
<1>16. ASSUME NEW b \in Buffers PROVE Owned(b)' = Owned(b)
  BY <1>14, <1>15 DEF Owned, Deflating
<1>17. WriterUsed'
  BY <1>13, <1>14, <1>16 DEF UseInv, WriterUsed, One
<1>18. FragUsed' /\ CacheKept(fragment_buffer, FragmentBuffers, Frags)'
  BY <1>14, FragLeft DEF UseInv, Typed, CachesKept
<1>19. QED BY <1>11, <1>12, <1>13, <1>17, <1>18 DEF CachesKept

(* A file of which main compares the fragment has one.                     *)
LEMMA CandidateFrag ==
  ASSUME Typed, NEW i \in Candidates, files[i].frag # NoFragment
  PROVE  files[i].frag \in Frags /\ FragIndex + files[i].frag \in Indexes
<1>1. i \in DOMAIN files /\ files \in Seq(Files)
  BY DEF Candidates, Typed, OutputTyped
<1>2. files[i] \in Files
  BY <1>1
<1>3. files[i].frag \in Frags
  BY <1>2 DEF Files
<1>4. QED BY <1>3, IndexesAre

LEMMA GetFragmentUse ==
  ASSUME UseInv, GetFragment
  PROVE  CachesKept' /\ WriterUsed' /\ FragUsed'
<1>1. PICK i \in Candidates :
       LET f == files[i].frag
           b == Found(fragment_buffer, f)
           c == Found(writer_buffer, FragIndex + f)
       IN /\ f # NoFragment
          /\ IF b # NoBuffer
             THEN /\ fragment_buffer' = Put(Lookup(fragment_buffer, b), b)
                  /\ UNCHANGED <<main, writer_buffer>>
             ELSE /\ main' = [main EXCEPT !.pc = "get", !.fetch =
                       [frag |-> f, compressed |-> c, buffer |-> NoBuffer]]
                  /\ writer_buffer' = IF c = NoBuffer THEN writer_buffer
                                                      ELSE Lookup(writer_buffer, c)
                  /\ UNCHANGED fragment_buffer
  BY DEF GetFragment
<1>2. PICK f \in Frags : f = files[i].frag
  BY <1>1, CandidateFrag DEF UseInv
<1>3. PICK a, b, w, v : /\ a = Found(writer_buffer, FragIndex + f) /\ b = Found(fragment_buffer, f)
                        /\ w = writer_buffer /\ v = fragment_buffer
  OBVIOUS
<1>4. /\ CacheKept(w, Buffers, Indexes) /\ CacheKept(v, FragmentBuffers, Frags)
      /\ w.used \in [Buffers -> Nat] /\ v.used \in [FragmentBuffers -> Nat]
      /\ w.index \in [Buffers -> Indexes \cup {NoIndex}]
      /\ main \in Mains /\ main.fetch = NoFetch /\ main.pc = "compare"
  BY <1>3, CachesAre DEF UseInv, Typed, CachesKept, MainTyped, MainShape, GetFragment
<1>5. UNCHANGED <<to_writer, frag_locked_list, frag_deflator, to_frag, fragment_data>>
  BY DEF GetFragment, others, packVars, lockVars
<1>6. CASE b # NoBuffer
  <2>1. fragment_buffer' = Put(Lookup(v, b), b) /\ UNCHANGED <<main, writer_buffer>>
    BY <1>1, <1>2, <1>3, <1>6
  <2>2. b \in FragmentBuffers /\ v.index[b] # NoIndex
    <3>1. Found(v, f) # NoBuffer => Found(v, f) \in FragmentBuffers /\ v.index[Found(v, f)] = f
      BY <1>4, FoundIs
    <3>2. QED BY <1>3, <1>6, <3>1, IndexesAre
  <2>3. /\ CacheKept(Lookup(v, b), FragmentBuffers, Frags)
        /\ Lookup(v, b).used = [v.used EXCEPT ![b] = @ + 1]
        /\ Lookup(v, b).index = v.index
    BY <1>4, <2>2, LookupKept
  <2>4. PICK d : d = Lookup(v, b)
    OBVIOUS
  <2>5. /\ CacheKept(d, FragmentBuffers, Frags) /\ d.used[b] # 0
        /\ d.used = [v.used EXCEPT ![b] = @ + 1] /\ d.index = v.index
    BY <1>4, <2>2, <2>3, <2>4
  <2>6. /\ CacheKept(Put(d, b), FragmentBuffers, Frags)
        /\ Put(d, b).used = [d.used EXCEPT ![b] = @ - 1]
    <3>1. CacheKept(d, FragmentBuffers, Frags)
      BY <2>5
    <3>2. b \in FragmentBuffers /\ d.used[b] # 0
      BY <2>2, <2>5
    <3>3. QED BY <3>1, <3>2, PutKept
  <2>7. /\ CacheKept(fragment_buffer, FragmentBuffers, Frags)'
        /\ fragment_buffer'.used = fragment_buffer.used
    BY <1>3, <1>4, <2>1, <2>2, <2>4, <2>5, <2>6
  <2>8. FragUsed'
    <3>1. ASSUME NEW x \in FragmentBuffers PROVE Deflating(x, "from")' = Deflating(x, "from")
      BY <1>5 DEF Deflating
    <3>2. QED BY <1>5, <2>1, <2>7, <3>1 DEF UseInv, FragUsed, One
  <2>9. WriterUsed' /\ CacheKept(writer_buffer, Buffers, Indexes)'
    BY <1>5, <2>1, WriterLeft DEF UseInv, Typed, CachesKept
  <2>10. QED BY <2>7, <2>8, <2>9 DEF CachesKept
<1>7. CASE b = NoBuffer
  <2>1. PICK g : g = [frag |-> f, compressed |-> a, buffer |-> NoBuffer]
    OBVIOUS
  <2>2. /\ main' = [main EXCEPT !.pc = "get", !.fetch = g] /\ UNCHANGED fragment_buffer
        /\ writer_buffer' = IF a = NoBuffer THEN w ELSE Lookup(w, a)
    BY <1>1, <1>2, <1>3, <1>7, <2>1
  <2>3. /\ main'.held = main.held /\ main'.fetch.compressed = a /\ main'.fetch.buffer = NoBuffer
        /\ main.fetch.compressed = NoBuffer /\ main.fetch.buffer = NoBuffer
    BY <1>4, <2>1, <2>2 DEF Mains, NoFetch
  <2>4. FragUsed' /\ CacheKept(fragment_buffer, FragmentBuffers, Frags)'
    BY <1>5, <2>2, <2>3, FragLeft DEF UseInv, Typed, CachesKept
  <2>5. CASE a = NoBuffer
    <3>1. WriterUsed' /\ CacheKept(writer_buffer, Buffers, Indexes)'
      BY <1>3, <1>5, <2>2, <2>3, <2>5, WriterLeft DEF UseInv, Typed, CachesKept
    <3>2. QED BY <2>4, <3>1 DEF CachesKept
  <2>6. CASE a # NoBuffer
    <3>1. a \in Buffers /\ w.index[a] # NoIndex
      <4>1. PICK p \in Indexes : p = FragIndex + f /\ p # NoIndex
        BY IndexesAre
      <4>2. Found(w, p) # NoBuffer => Found(w, p) \in Buffers /\ w.index[Found(w, p)] = p
        BY <1>4, FoundIs
      <4>3. QED BY <1>3, <2>6, <4>1, <4>2
    <3>2. /\ CacheKept(Lookup(w, a), Buffers, Indexes)
          /\ Lookup(w, a).used = [w.used EXCEPT ![a] = @ + 1]
          /\ Lookup(w, a).index = w.index
      BY <1>4, <3>1, LookupKept
    <3>3. /\ CacheKept(writer_buffer, Buffers, Indexes)'
          /\ writer_buffer'.index = writer_buffer.index
          /\ \A x \in Buffers : writer_buffer'.used[x] =
               writer_buffer.used[x] + (IF x = a THEN 1 ELSE 0)
      BY <1>3, <1>4, <2>2, <2>6, <3>1, <3>2
    <3>4. \A x \in Buffers : x \in Ready' <=> x \in Ready
      BY <1>3, <1>4, <3>1, <3>3 DEF Ready
    <3>5. ASSUME NEW x \in Buffers
          PROVE  /\ writer_buffer'.used[x] = Owned(x)' + One(main.fetch.compressed = x)'
                 /\ Owned(x)' <= 1
      <4>1. Owned(x)' = Owned(x)
        BY <1>5, <2>3, <3>4 DEF Owned, Deflating, One
      <4>2. PICK o \in Nat : o = Owned(x)
        BY WriterSum DEF Owned, One
      <4>3. writer_buffer.used[x] = o + One(main.fetch.compressed = x) /\ o <= 1
        BY <4>2 DEF UseInv, WriterUsed
      <4>4. One(main.fetch.compressed = x) = 0
            /\ One(main.fetch.compressed = x)' = IF x = a THEN 1 ELSE 0
        BY <2>3 DEF One
      <4>5. QED BY <3>3, <4>1, <4>2, <4>3, <4>4
    <3>6. WriterUsed'
      BY <3>5 DEF WriterUsed
    <3>7. QED BY <2>4, <3>3, <3>6 DEF CachesKept
  <2>7. QED BY <2>5, <2>6
<1>8. QED BY <1>6, <1>7

LEMMA GetFragmentBufferUse ==
  ASSUME UseInv, GetFragmentBuffer
  PROVE  CachesKept' /\ WriterUsed' /\ FragUsed'
<1>1. PICK a \in Gettable(fragment_buffer, first_freelist) :
        /\ fragment_buffer' = Get(fragment_buffer, a, main.fetch.frag)
        /\ main' = [main EXCEPT !.pc = "read", !.fetch.buffer = a]
  BY DEF GetFragmentBuffer
<1>2. a \in FragmentBuffers /\ fragment_buffer.used[a] = 0
  BY BufferGot DEF UseInv
<1>3. /\ main.pc = "get" /\ main \in Mains /\ main.fetch \in Fetches
      /\ main.fetch.frag \in Frags /\ main.fetch.buffer = NoBuffer
  BY MainFields DEF GetFragmentBuffer, UseInv, Typed, MainTyped, MainShape
<1>4. PICK f \in Frags : f = main.fetch.frag
  BY <1>3
<1>5. /\ CacheKept(fragment_buffer, FragmentBuffers, Frags)'
      /\ \A b \in FragmentBuffers : fragment_buffer'.used[b] =
           IF b = a THEN 1 ELSE fragment_buffer.used[b]
  <2>1. fragment_buffer' = Get(fragment_buffer, a, f)
    BY <1>1, <1>4
  <2>2. QED BY <1>2, <2>1, FragGot
<1>6. UNCHANGED <<writer_buffer, to_writer, frag_locked_list, frag_deflator, to_frag,
                  fragment_data>>
  BY DEF GetFragmentBuffer, others, packVars, lockVars
<1>7. /\ main'.held = main.held /\ main'.fetch.compressed = main.fetch.compressed
      /\ main'.fetch.buffer = a
  BY <1>1, <1>3 DEF Mains, Fetches
<1>8. WriterUsed' /\ CacheKept(writer_buffer, Buffers, Indexes)'
  BY <1>6, <1>7, WriterLeft DEF UseInv, Typed, CachesKept
<1>9. FragUsed'
  <2>1. ASSUME NEW b \in FragmentBuffers
        PROVE  /\ fragment_buffer'.used[b] =
                    (IF fragment_data' = b THEN 1 ELSE 0)
                    + (IF main'.fetch.buffer = b THEN 1 ELSE 0)
                    + Deflating(b, "from")' + CountIn(to_frag', FilledFrom(b))
               /\ fragment_buffer'.used[b] <= 1
    <3>1. PICK m \in Nat : m = Deflating(b, "from")
      BY FragSum
    <3>2. PICK k \in Nat : k = CountIn(to_frag, FilledFrom(b))
      BY FragSum
    <3>3. fragment_buffer.used[b] = (IF fragment_data = b THEN 1 ELSE 0) + m + k
          /\ fragment_buffer.used[b] <= 1
      <4>1. main.fetch.buffer # b
        BY <1>3
      <4>2. QED BY <3>1, <3>2, <4>1, FragSum
    <3>4. Deflating(b, "from")' = m /\ CountIn(to_frag', FilledFrom(b)) = k
          /\ fragment_data' = fragment_data
      BY <1>6, <3>1, <3>2 DEF Deflating
    <3>5. CASE b = a
      <4>1. m = 0 /\ k = 0 /\ fragment_data # b
        BY <1>2, <3>3, <3>5
      <4>2. QED BY <1>5, <1>7, <3>4, <3>5, <4>1
    <3>6. CASE b # a
      BY <1>5, <1>7, <3>3, <3>4, <3>6
    <3>7. QED BY <3>5, <3>6
  <2>2. QED BY <2>1, FragAdds
<1>10. QED BY <1>5, <1>8, <1>9 DEF CachesKept

LEMMA ReadFragmentUse ==
  ASSUME UseInv, ReadFragment
  PROVE  /\ CachesKept' /\ WriterUsed' /\ FragUsed'
         /\ writer_buffer'.index = writer_buffer.index
         /\ fragment_buffer'.index = fragment_buffer.index
<1>1. /\ main.pc = "read" /\ main \in Mains /\ main.fetch \in Fetches
      /\ main.fetch.buffer \in FragmentBuffers
      /\ main.fetch.compressed \in Buffers \cup {NoBuffer}
  BY MainFields DEF ReadFragment, UseInv, Typed, MainTyped, MainShape
<1>2. UNCHANGED <<to_writer, frag_locked_list, frag_deflator, to_frag, fragment_data>>
  BY DEF ReadFragment, others, packVars, lockVars
<1>3. PICK a, e : a = main.fetch.buffer /\ e = main.fetch.compressed
  OBVIOUS
<1>4. CASE /\ main' = [main EXCEPT !.pc = "compare", !.fetch = NoFetch]
           /\ fragment_buffer' = Put(fragment_buffer, a)
           /\ writer_buffer' = IF e = NoBuffer THEN writer_buffer ELSE Put(writer_buffer, e)
  <2>1. /\ main'.held = main.held /\ main'.fetch.compressed = NoBuffer
        /\ main'.fetch.buffer = NoBuffer
    BY <1>1, <1>4 DEF Mains, NoFetch
  <2>2. a \in FragmentBuffers /\ fragment_buffer.used[a] # 0
    <3>1. a \in FragmentBuffers
      BY <1>1, <1>3
    <3>2. PICK m \in Nat : m = Deflating(a, "from")
      BY <3>1, FragSum
    <3>3. PICK k \in Nat : k = CountIn(to_frag, FilledFrom(a))
      BY <3>1, FragSum
    <3>4. fragment_buffer.used[a] = (IF fragment_data = a THEN 1 ELSE 0) + 1 + m + k
      BY <1>3, <3>1, <3>2, <3>3, FragSum
    <3>5. QED BY <3>1, <3>4
  <2>3. /\ CacheKept(fragment_buffer, FragmentBuffers, Frags)'
        /\ fragment_buffer'.index = fragment_buffer.index
        /\ \A b \in FragmentBuffers : fragment_buffer'.used[b] =
             fragment_buffer.used[b] - (IF b = a THEN 1 ELSE 0)
    BY <1>4, <2>2, FragPut
  <2>4. FragUsed'
    <3>1. ASSUME NEW b \in FragmentBuffers
          PROVE  /\ fragment_buffer'.used[b] =
                      (IF fragment_data' = b THEN 1 ELSE 0)
                      + (IF main'.fetch.buffer = b THEN 1 ELSE 0)
                      + Deflating(b, "from")' + CountIn(to_frag', FilledFrom(b))
                 /\ fragment_buffer'.used[b] <= 1
      <4>1. PICK m \in Nat : m = Deflating(b, "from")
        BY FragSum
      <4>2. PICK k \in Nat : k = CountIn(to_frag, FilledFrom(b))
        BY FragSum
      <4>3. fragment_buffer.used[b] = (IF fragment_data = b THEN 1 ELSE 0)
                                      + (IF b = a THEN 1 ELSE 0) + m + k
            /\ fragment_buffer.used[b] <= 1
        BY <1>3, <4>1, <4>2, FragSum
      <4>4. Deflating(b, "from")' = m /\ CountIn(to_frag', FilledFrom(b)) = k
            /\ fragment_data' = fragment_data /\ main'.fetch.buffer # b
        BY <1>2, <2>1, <4>1, <4>2 DEF Deflating
      <4>5. QED BY <2>3, <4>3, <4>4
    <3>2. QED BY <3>1, FragAdds
  <2>5. CASE e = NoBuffer
    <3>1. /\ CacheKept(writer_buffer, Buffers, Indexes)' /\ WriterUsed'
          /\ writer_buffer'.index = writer_buffer.index
      BY <1>2, <1>3, <1>4, <2>1, <2>5, WriterLeft DEF UseInv, Typed, CachesKept
    <3>2. QED BY <2>3, <2>4, <3>1 DEF CachesKept
  <2>6. CASE e # NoBuffer
    <3>1. e \in Buffers
      BY <1>1, <1>3, <2>6
    <3>2. PICK w : w = writer_buffer
      OBVIOUS
    <3>3. /\ CacheKept(w, Buffers, Indexes) /\ w.used \in [Buffers -> Nat]
          /\ writer_buffer' = Put(w, e)
      BY <1>4, <2>6, <3>2, CachesAre DEF UseInv, Typed, CachesKept
    <3>4. PICK o \in Nat : o = Owned(e)
      BY <3>1, WriterSum DEF Owned, One
    <3>5. w.used[e] = o + 1 /\ w.used[e] # 0
      BY <1>3, <3>1, <3>2, <3>4 DEF UseInv, WriterUsed, One
    <3>6. /\ CacheKept(Put(w, e), Buffers, Indexes)
          /\ Put(w, e).used = [w.used EXCEPT ![e] = @ - 1]
          /\ Put(w, e).index = w.index
      <4>1. CacheKept(w, Buffers, Indexes)
        BY <3>3
      <4>2. w.used[e] # 0
        BY <3>5
      <4>3. QED BY <3>1, <4>1, <4>2, PutKept
    <3>7. /\ CacheKept(writer_buffer, Buffers, Indexes)'
          /\ writer_buffer'.index = writer_buffer.index
          /\ \A x \in Buffers : writer_buffer'.used[x] =
               writer_buffer.used[x] - (IF x = e THEN 1 ELSE 0)
      BY <3>1, <3>2, <3>3, <3>6
    <3>8. e \in Ready => o >= 1
      <4>1. PICK n \in Nat : n = CountIn(to_writer, {e})
        BY <3>1, WriterSum
      <4>2. PICK k \in Nat : k = CountIn(main.held, {e})
        BY <3>1, WriterSum
      <4>3. PICK m \in Nat : m = Deflating(e, "to")
        BY <3>1, WriterSum
      <4>4. PICK l \in Nat : l = CountIn(frag_locked_list, PendingIn(e))
        BY <3>1, WriterSum
      <4>5. o = n + k + (IF e \in Ready THEN 1 ELSE 0) + l + m
        BY <3>4, <4>1, <4>2, <4>3, <4>4 DEF Owned, One
      <4>6. QED BY <4>5
    <3>9. \A x \in Buffers : x \in Ready' <=> x \in Ready
      <4>1. e \in Ready <=> w.index[e] = NoIndex
        BY <3>1, <3>2, <3>5, ReadyIs
      <4>2. writer_buffer'.used[e] = o
        BY <3>1, <3>2, <3>5, <3>7
      <4>3. e \in Ready' <=> o > 0 /\ w.index[e] = NoIndex
        BY <3>1, <3>2, <3>7, <4>2 DEF Ready
      <4>4. e \in Ready' <=> e \in Ready
        BY <3>4, <3>8, <4>1, <4>3
      <4>5. ASSUME NEW x \in Buffers, x # e PROVE x \in Ready' <=> x \in Ready
        BY <3>2, <3>3, <3>7, <4>5 DEF Ready
      <4>6. QED BY <4>4, <4>5
    <3>10. ASSUME NEW x \in Buffers
           PROVE  /\ writer_buffer'.used[x] = Owned(x)' + One(main.fetch.compressed = x)'
                  /\ Owned(x)' <= 1
      <4>1. Owned(x)' = Owned(x)
        BY <1>2, <2>1, <3>9 DEF Owned, Deflating, One
      <4>2. PICK p \in Nat : p = Owned(x)
        BY WriterSum DEF Owned, One
      <4>3. writer_buffer.used[x] = p + One(main.fetch.compressed = x) /\ p <= 1
        BY <4>2 DEF UseInv, WriterUsed
      <4>4. One(main.fetch.compressed = x)' = 0
            /\ One(main.fetch.compressed = x) = IF x = e THEN 1 ELSE 0
        BY <1>3, <2>1 DEF One
      <4>5. QED BY <3>7, <4>1, <4>2, <4>3, <4>4
    <3>11. WriterUsed'
      BY <3>10 DEF WriterUsed
    <3>12. QED BY <2>3, <2>4, <3>7, <3>11 DEF CachesKept
  <2>7. QED BY <2>5, <2>6
<1>5. CASE /\ main' = [main EXCEPT !.pc = "exited"]
           /\ UNCHANGED <<fragment_buffer, writer_buffer>>
  <2>1. main'.held = main.held /\ main'.fetch = main.fetch
    BY <1>1, <1>5 DEF Mains
  <2>2. WriterUsed' /\ CacheKept(writer_buffer, Buffers, Indexes)'
    BY <1>2, <1>5, <2>1, WriterLeft DEF UseInv, Typed, CachesKept
  <2>3. FragUsed' /\ CacheKept(fragment_buffer, FragmentBuffers, Frags)'
    BY <1>2, <1>5, <2>1, FragLeft DEF UseInv, Typed, CachesKept
  <2>4. QED BY <1>5, <2>2, <2>3 DEF CachesKept
<1>6. QED
  <2>1. \/ /\ main' = [main EXCEPT !.pc = "compare", !.fetch = NoFetch]
           /\ fragment_buffer' = Put(fragment_buffer, a)
           /\ writer_buffer' = IF e = NoBuffer THEN writer_buffer ELSE Put(writer_buffer, e)
        \/ /\ main' = [main EXCEPT !.pc = "exited"]
           /\ UNCHANGED <<fragment_buffer, writer_buffer>>
    BY <1>3 DEF ReadFragment
  <2>2. QED BY <1>4, <1>5, <2>1

LEMMA WriteFragmentUse ==
  ASSUME UseInv, WriteFragment
  PROVE  CachesKept' /\ WriterUsed' /\ FragUsed'
<1>1. /\ fragment_data \in FragmentBuffers /\ fragments \in Frags
      /\ to_frag \in Seq(Filled)
  BY DEF WriteFragment, UseInv, Typed, QueuesTyped, OutputTyped, MainShape, Frags
<1>2. PICK r : r = [frag |-> fragments, from |-> fragment_data]
  OBVIOUS
<1>3. r \in Filled /\ r.from = fragment_data
  BY <1>1, <1>2 DEF Filled
<1>4. /\ to_frag' = Append(to_frag, r) /\ fragment_data' = NoBuffer
      /\ UNCHANGED <<main, writer_buffer, to_writer, frag_locked_list, frag_deflator,
                     fragment_buffer>>
  BY <1>2 DEF WriteFragment, lockVars
<1>5. FragUsed'
  <2>1. ASSUME NEW b \in FragmentBuffers
        PROVE  /\ fragment_buffer'.used[b] =
                    (IF fragment_data' = b THEN 1 ELSE 0)
                    + (IF main'.fetch.buffer = b THEN 1 ELSE 0)
                    + Deflating(b, "from")' + CountIn(to_frag', FilledFrom(b))
               /\ fragment_buffer'.used[b] <= 1
    <3>1. PICK m \in Nat : m = Deflating(b, "from")
      BY FragSum
    <3>2. PICK k \in Nat : k = CountIn(to_frag, FilledFrom(b))
      BY FragSum
    <3>3. r \in FilledFrom(b) <=> fragment_data = b
      BY <1>3 DEF FilledFrom
    <3>4. CountIn(Append(to_frag, r), FilledFrom(b)) =
            CountIn(to_frag, FilledFrom(b)) + (IF r \in FilledFrom(b) THEN 1 ELSE 0)
      BY <1>1, <1>3, CountAppend
    <3>5. CountIn(to_frag', FilledFrom(b)) = k + (IF fragment_data = b THEN 1 ELSE 0)
      BY <1>4, <3>2, <3>3, <3>4
    <3>6. Deflating(b, "from")' = m /\ fragment_data' # b
      BY <1>4, <3>1 DEF Deflating
    <3>7. fragment_buffer.used[b] =
            (IF fragment_data = b THEN 1 ELSE 0)
            + (IF main.fetch.buffer = b THEN 1 ELSE 0) + m + k
          /\ fragment_buffer.used[b] <= 1
      BY <3>1, <3>2, FragSum
    <3>8. QED BY <1>4, <3>5, <3>6, <3>7
  <2>2. QED BY <2>1, FragAdds
<1>6. WriterUsed' /\ CacheKept(writer_buffer, Buffers, Indexes)'
  BY <1>4, WriterLeft DEF UseInv, Typed, CachesKept
<1>7. QED BY <1>4, <1>5, <1>6 DEF UseInv, Typed, CachesKept

LEMMA FillUse ==
  ASSUME UseInv, Fill
  PROVE  CachesKept' /\ WriterUsed' /\ FragUsed'
<1>1. /\ main.pc = "fill" /\ main \in Mains /\ main.fetch = NoFetch /\ main.held = <<>>
      /\ fragments \in Nat
  BY DEF Fill, UseInv, Typed, MainTyped, OutputTyped, MainShape
<1>2. main'.held = <<>> /\ main'.fetch = NoFetch
  BY <1>1 DEF Fill, Idle, Mains
<1>3. UNCHANGED <<writer_buffer, to_writer, frag_locked_list, frag_deflator, to_frag>>
  BY DEF Fill, lockVars
<1>4. WriterUsed' /\ CacheKept(writer_buffer, Buffers, Indexes)'
  BY <1>1, <1>2, <1>3, WriterLeft DEF UseInv, Typed, CachesKept
<1>5. CASE ~main.tail
  <2>1. UNCHANGED <<fragment_buffer, fragment_data>>
    BY <1>5 DEF Fill
  <2>2. FragUsed' /\ CacheKept(fragment_buffer, FragmentBuffers, Frags)'
    BY <1>1, <1>2, <1>3, <2>1, FragLeft DEF UseInv, Typed, CachesKept
  <2>3. QED BY <1>4, <2>2 DEF CachesKept
<1>6. CASE main.tail
  <2>1. PICK a \in Gettable(fragment_buffer, first_freelist) :
          /\ fragment_buffer' = Get(fragment_buffer, a, fragments)
          /\ fragment_data' = a
    BY <1>6 DEF Fill
  <2>2. /\ fragment_data = NoBuffer /\ fragments \in Frags
    BY <1>1, <1>6 DEF Fill, Frags
  <2>3. a \in FragmentBuffers /\ fragment_buffer.used[a] = 0
    BY BufferGot DEF UseInv
  <2>4. /\ CacheKept(fragment_buffer, FragmentBuffers, Frags)'
        /\ \A b \in FragmentBuffers : fragment_buffer'.used[b] =
             IF b = a THEN 1 ELSE fragment_buffer.used[b]
    <3>1. PICK f \in Frags : f = fragments
      BY <2>2
    <3>2. fragment_buffer' = Get(fragment_buffer, a, f)
      BY <2>1, <3>1
    <3>3. QED BY <2>3, <3>2, FragGot
  <2>5. ASSUME NEW b \in FragmentBuffers
        PROVE  /\ fragment_buffer'.used[b] =
                    (IF fragment_data' = b THEN 1 ELSE 0)
                    + (IF main'.fetch.buffer = b THEN 1 ELSE 0)
                    + Deflating(b, "from")' + CountIn(to_frag', FilledFrom(b))
               /\ fragment_buffer'.used[b] <= 1
    <3>1. PICK m \in Nat : m = Deflating(b, "from")
      BY FragSum
    <3>2. PICK k \in Nat : k = CountIn(to_frag, FilledFrom(b))
      BY FragSum
    <3>3. b # NoBuffer
      OBVIOUS
    <3>4. fragment_buffer.used[b] = m + k /\ fragment_buffer.used[b] <= 1
      <4>1. fragment_data # b /\ main.fetch.buffer # b
        BY <1>1, <2>2, <3>3 DEF NoFetch
      <4>2. QED BY <3>1, <3>2, <4>1, FragSum
    <3>5. Deflating(b, "from")' = m /\ CountIn(to_frag', FilledFrom(b)) = k
          /\ main'.fetch.buffer # b
      BY <1>2, <1>3, <3>1, <3>2, <3>3 DEF Deflating, NoFetch
    <3>6. CASE b = a
      <4>1. m = 0 /\ k = 0
        BY <2>3, <3>4, <3>6
      <4>2. QED BY <2>1, <2>4, <3>5, <3>6, <4>1
    <3>7. CASE b # a
      BY <2>1, <2>4, <3>4, <3>5, <3>7
    <3>8. QED BY <3>6, <3>7
  <2>6. FragUsed'
    BY <2>5, FragAdds
  <2>7. QED BY <1>4, <2>4, <2>6 DEF CachesKept
<1>7. QED BY <1>5, <1>6

(* Main goes on and no buffer changes hands.                               *)
LEMMA FrameUse ==
  ASSUME UseInv,
         StartFile \/ WriteFileFrag \/ FileRead \/ ReadError \/ Truncate \/ UNCHANGED vars
  PROVE  CachesKept' /\ WriterUsed' /\ FragUsed'
<1>1. main \in Mains
  BY DEF UseInv, Typed, MainTyped
<1>2. UNCHANGED <<writer_buffer, to_writer, frag_locked_list, frag_deflator,
                  fragment_buffer, to_frag, fragment_data>>
  BY DEF StartFile, WriteFileFrag, FileRead, ReadError, Truncate, GiveBack, others, packVars,
         lockVars, vars
<1>3. main'.held = main.held /\ main'.fetch = main.fetch
  <2>1. main.pc = "idle" => main.held = <<>> /\ main.fetch = NoFetch
    BY DEF UseInv, MainShape
  <2>2. CASE StartFile
    <3> DEFINE Mode(blocks, tail) ==
                 IF \E i \in DOMAIN files : /\ Len(files[i].list) = blocks
                                            /\ HasTail(files[i]) = tail
                 THEN "dup" ELSE "blocks"
               Thresh(mode, blocks, tail) ==
                 LET wanted == blocks + (IF tail THEN 1 ELSE 0)
                     free == Cardinality(Buffers) - fragments_outstanding
                 IN IF mode = "dup" /\ wanted > free THEN wanted - free ELSE 0
    <3>0. PICK blocks, tail :
            main' = [Idle(main.id + 1) EXCEPT !.pc = "file", !.mode = Mode(blocks, tail),
                       !.start = bytes, !.blocks = blocks, !.tail = tail,
                       !.thresh = Thresh(Mode(blocks, tail), blocks, tail)]
      BY Zenon, <2>2 DEF StartFile
    <3> HIDE DEF Mode, Thresh
    <3>1. PICK m, mode, thresh :
            /\ m = Idle(main.id + 1)
            /\ main' = [m EXCEPT !.pc = "file", !.mode = mode, !.start = bytes,
                          !.blocks = blocks, !.tail = tail, !.thresh = thresh]
      BY <3>0
    <3>2. m \in Mains /\ m.held = <<>> /\ m.fetch = NoFetch
      <4>1. main.id \in Nat
        BY <1>1 DEF Mains
      <4>2. m \in Mains
        BY <3>1, <4>1, IdleIs
      <4>3. QED BY <3>1, <4>2 DEF Idle
    <3>3. main.pc = "idle"
      BY <2>2 DEF StartFile
    <3>4. main'.held = m.held /\ main'.fetch = m.fetch
      BY <3>1, <3>2 DEF Mains
    <3>5. QED BY <2>1, <3>2, <3>3, <3>4
  <2>3. CASE WriteFileFrag
    <3>1. main'.held = <<>> /\ main'.fetch = NoFetch /\ main.pc = "idle"
      BY <2>3 DEF WriteFileFrag, Idle
    <3>2. QED BY <2>1, <3>1
  <2>4. CASE FileRead \/ ReadError \/ Truncate
    BY <1>1, <2>4 DEF FileRead, ReadError, Truncate, GiveBack, Mains
  <2>5. CASE UNCHANGED vars
    BY <2>5 DEF vars
  <2>6. QED BY <2>2, <2>3, <2>4, <2>5
<1>4. WriterUsed' /\ CacheKept(writer_buffer, Buffers, Indexes)'
  BY <1>2, <1>3, WriterLeft DEF UseInv, Typed, CachesKept
<1>5. FragUsed' /\ CacheKept(fragment_buffer, FragmentBuffers, Frags)'
  BY <1>2, <1>3, FragLeft DEF UseInv, Typed, CachesKept
<1>6. QED BY <1>4, <1>5 DEF CachesKept

-----------------------------------------------------------------------------
(* The use counts are exact, always.                                       *)
LEMMA UseStep == UseInv /\ [Next]_vars => UseInv'
<1> SUFFICES ASSUME UseInv, [Next]_vars PROVE UseInv'
  OBVIOUS
<1>1. Typed /\ MainShape
  BY DEF UseInv
<1>2. MainTyped' /\ QueuesTyped' /\ OutputTyped' /\ MainShape'
  BY <1>1, MainTypedStep, QueuesTypedStep, OutputTypedStep, MainShapeStep
<1>3. CachesKept' /\ WriterUsed' /\ FragUsed'
  <2>a. CASE Compress BY <2>a, CompressUse
  <2>b. CASE Write BY <2>b, WriteUse
  <2>c. ASSUME NEW d \in FragDeflators, CompressFragment(d)
        PROVE  CachesKept' /\ WriterUsed' /\ FragUsed'
    BY <2>c, CompressFragmentUse
  <2>d. ASSUME NEW d \in FragDeflators, SettleFragment(d)
        PROVE  CachesKept' /\ WriterUsed' /\ FragUsed'
    BY <2>d, SettleFragmentUse
  <2>e. ASSUME NEW d \in FragDeflators, AddPendingFragment(d)
        PROVE  CachesKept' /\ WriterUsed' /\ FragUsed'
    BY <2>e, AddPendingUse
  <2>f. CASE \/ StartFile \/ WriteFileFrag \/ FileRead \/ ReadError \/ Truncate
             \/ UNCHANGED vars
    BY <2>f, FrameUse
  <2>g. ASSUME NEW b \in Ready, NEW size \in Sizes, PlaceBlock(b, size)
        PROVE  CachesKept' /\ WriterUsed' /\ FragUsed'
    BY <2>g, PlaceBlockUse
  <2>h. CASE UnlockOne BY <2>h, UnlockOneUse
  <2>i. CASE UnlockDone BY <2>i, UnlockDoneUse
  <2>j. CASE CompareBlock BY <2>j, CompareBlockUse
  <2>k. CASE GetFragment BY <2>k, GetFragmentUse
  <2>l. CASE GetFragmentBuffer BY <2>l, GetFragmentBufferUse
  <2>m. CASE ReadFragment BY <2>m, ReadFragmentUse
  <2>n. CASE Duplicate BY <2>n, DuplicateUse
  <2>o. CASE NotDuplicate BY <2>o, NotDuplicateUse
  <2>p. CASE WriteFragment BY <2>p, WriteFragmentUse
  <2>q. CASE Fill BY <2>q, FillUse
  <2>r. QED
    BY NextCases, <2>a, <2>b, <2>c, <2>d, <2>e, <2>f, <2>g, <2>h, <2>i, <2>j, <2>k, <2>l,
       <2>m, <2>n, <2>o, <2>p, <2>q
<1>4. QED BY <1>2, <1>3 DEF UseInv, Typed

LEMMA UseInit == Init => UseInv
<1> SUFFICES ASSUME Init PROVE UseInv
  OBVIOUS
<1>1. /\ CacheKept(writer_buffer, Buffers, Indexes)
      /\ writer_buffer.used = [b \in Buffers |-> 0]
      /\ CacheKept(fragment_buffer, FragmentBuffers, Frags)
      /\ fragment_buffer.used = [b \in FragmentBuffers |-> 0]
  BY IndexesAre, EmptyKept DEF Init
<1>2. /\ main = Idle(0) /\ main.held = <<>> /\ main.fetch = NoFetch /\ main.pc = "idle"
      /\ main.list = <<>>
  BY DEF Init, Idle
<1>3. MainTyped
  BY <1>2, IdleIs DEF MainTyped
<1>4. QueuesTyped
  <2>1. <<>> \in Seq(Buffers) /\ <<>> \in Seq(Filled) /\ <<>> \in Seq(Pending)
    OBVIOUS
  <2>2. frag_deflator \in [FragDeflators -> {IdleDeflator} \cup Working]
    BY DEF Init
  <2>3. QED BY <2>1, <2>2 DEF Init, QueuesTyped
<1>5. OutputTyped
  <2>1. Nothing \in Extents
    BY DEF Nothing, Extent, Extents, Owners
  <2>2. /\ files \in Seq(Files) /\ bytes \in 0 .. MaxBytes
        /\ disk \in [1 .. MaxBytes -> Owners] /\ fragments \in Nat
        /\ fragment_data = NoBuffer /\ fragment_table \in [Frags -> Extents \cup {NoEntry}]
    BY DEF Init, Owners
  <2>3. data \in [Buffers -> Extents]
    BY <2>1 DEF Init
  <2>4. QED BY <2>2, <2>3 DEF OutputTyped
<1>6. MainShape
  BY <1>2 DEF Init, MainShape
<1>7. /\ to_writer = <<>> /\ frag_locked_list = <<>> /\ to_frag = <<>>
      /\ fragment_data = NoBuffer /\ Ready = {}
  BY <1>1 DEF Init, Ready
<1>8. ASSUME NEW b, b # NoBuffer
      PROVE  Deflating(b, "to") = 0 /\ Deflating(b, "from") = 0
  <2>1. /\ {d \in FragDeflators : frag_deflator[d].to = b} = {}
        /\ {d \in FragDeflators : frag_deflator[d].from = b} = {}
    BY <1>8 DEF Init, IdleDeflator
  <2>2. QED BY <2>1, FS_EmptySet DEF Deflating
<1>9. WriterUsed
  <2>1. ASSUME NEW b \in Buffers
        PROVE  writer_buffer.used[b] = 0 /\ Owned(b) = 0 /\ One(main.fetch.compressed = b) = 0
    <3>1. b # NoBuffer
      OBVIOUS
    <3>2. Deflating(b, "to") = 0 /\ CountIn(<<>>, {b}) = 0 /\ CountIn(<<>>, PendingIn(b)) = 0
      BY <1>8, <3>1, CountEmpty
    <3>3. QED BY <1>1, <1>2, <1>7, <3>1, <3>2 DEF Owned, One, NoFetch
  <2>2. QED BY <2>1 DEF WriterUsed
<1>10. FragUsed
  <2>1. ASSUME NEW b \in FragmentBuffers
        PROVE  /\ fragment_buffer.used[b] = 0 /\ One(fragment_data = b) = 0
               /\ One(main.fetch.buffer = b) = 0 /\ Deflating(b, "from") = 0
               /\ CountIn(to_frag, FilledFrom(b)) = 0
    <3>1. b # NoBuffer
      OBVIOUS
    <3>2. Deflating(b, "from") = 0 /\ CountIn(<<>>, FilledFrom(b)) = 0
      BY <1>8, <3>1, CountEmpty
    <3>3. QED BY <1>1, <1>2, <1>7, <3>1, <3>2 DEF One, NoFetch
  <2>2. QED BY <2>1 DEF FragUsed
<1>11. QED BY <1>1, <1>3, <1>4, <1>5, <1>6, <1>9, <1>10 DEF UseInv, Typed, CachesKept

LEMMA UseTyped == UseInv => TypeOK
<1> SUFFICES ASSUME UseInv PROVE TypeOK
  OBVIOUS
<1>1. /\ main.pc \in Places /\ bytes \in 0 .. MaxBytes /\ fragments \in 0 .. MaxFragments
      /\ fragment_data \in FragmentBuffers \cup {NoBuffer}
  <2>1. main.pc \in Places /\ fragments \in Nat /\ fragments <= MaxFragments
    BY DEF UseInv, Typed, MainTyped, Mains, OutputTyped, MainShape
  <2>2. fragments \in 0 .. MaxFragments
    BY <2>1
  <2>3. QED BY <2>1, <2>2 DEF UseInv, Typed, OutputTyped
<1>2. Range(to_writer) \subseteq Buffers
  BY DEF Range, UseInv, Typed, QueuesTyped
<1>3. ASSUME NEW b \in Buffers PROVE writer_buffer.used[b] \in 0 .. 2
  <2>1. /\ writer_buffer.used[b] = Owned(b) + One(main.fetch.compressed = b)
        /\ Owned(b) <= 1 /\ writer_buffer.used[b] \in Nat
    BY WriterSum DEF UseInv, WriterUsed
  <2>2. PICK o \in Nat : o = Owned(b)
    BY WriterSum DEF Owned, One
  <2>3. One(main.fetch.compressed = b) \in 0 .. 1
    BY DEF One
  <2>4. QED BY <2>1, <2>2, <2>3
<1>4. ASSUME NEW b \in FragmentBuffers PROVE fragment_buffer.used[b] \in 0 .. 2
  BY FragSum
<1>5. DOMAIN writer_buffer.used = Buffers /\ DOMAIN fragment_buffer.used = FragmentBuffers
  BY CachesAre DEF UseInv, Typed
<1>6. \A c \in {writer_buffer, fragment_buffer} : \A b \in DOMAIN c.used : c.used[b] \in 0 .. 2
  BY <1>3, <1>4, <1>5
<1>7. QED BY <1>1, <1>2, <1>6 DEF TypeOK, Places

LEMMA UseExact == UseInv => UsedExact
<1> SUFFICES ASSUME UseInv PROVE UsedExact
  OBVIOUS
<1>1. WellFormed(writer_buffer) /\ WellFormed(fragment_buffer)
  BY DEF UseInv, Typed, CachesKept, CacheKept
<1>2. ASSUME NEW b, NEW s PROVE Times(b, s) = CountIn(s, {b})
  BY DEF Times, CountIn
<1>3. ASSUME NEW b \in Buffers
      PROVE  CountIn(frag_locked_list, PendingIn(b))
               = Cardinality({i \in DOMAIN frag_locked_list : frag_locked_list[i].buffer = b})
  <2>1. \A i \in DOMAIN frag_locked_list : frag_locked_list[i] \in Pending
    BY DEF UseInv, Typed, QueuesTyped
  <2>2. {i \in DOMAIN frag_locked_list : frag_locked_list[i] \in PendingIn(b)}
          = {i \in DOMAIN frag_locked_list : frag_locked_list[i].buffer = b}
    BY <2>1 DEF PendingIn
  <2>3. QED BY <2>2 DEF CountIn
<1>4. ASSUME NEW b \in FragmentBuffers
      PROVE  CountIn(to_frag, FilledFrom(b))
               = Cardinality({i \in DOMAIN to_frag : to_frag[i].from = b})
  <2>1. \A i \in DOMAIN to_frag : to_frag[i] \in Filled
    BY DEF UseInv, Typed, QueuesTyped
  <2>2. {i \in DOMAIN to_frag : to_frag[i] \in FilledFrom(b)}
          = {i \in DOMAIN to_frag : to_frag[i].from = b}
    BY <2>1 DEF FilledFrom
  <2>3. QED BY <2>2 DEF CountIn
<1>5. ASSUME NEW b \in Buffers
      PROVE  writer_buffer.used[b] =
               Times(b, to_writer) + Times(b, main.held) + One(b \in Ready)
               + Cardinality({i \in DOMAIN frag_locked_list : frag_locked_list[i].buffer = b})
               + Deflating(b, "to") + One(main.fetch.compressed = b)
  BY <1>2, <1>3 DEF UseInv, WriterUsed, Owned
<1>6. ASSUME NEW b \in FragmentBuffers
      PROVE  fragment_buffer.used[b] =
               One(fragment_data = b) + One(main.fetch.buffer = b) + Deflating(b, "from")
               + Cardinality({i \in DOMAIN to_frag : to_frag[i].from = b})
  BY <1>4 DEF UseInv, FragUsed
<1>7. QED BY <1>1, <1>5, <1>6 DEF UsedExact

(* Every variable has its type, and no cache_block_put takes a use count   *)
(* below zero or leaves a buffer with more than two users.                 *)
THEOREM CachesTyped == Spec => []TypeOK
<1>1. Spec => []UseInv
  BY UseInit, UseStep, PTL DEF Spec
<1>2. QED BY <1>1, UseTyped, PTL

(* The use counts are exact in every reachable state: a buffer is used by  *)
(* those that have it, queues, threads and main, and by nobody else.       *)
THEOREM UsesCounted == Spec => []UsedExact
<1>1. Spec => []UseInv
  BY UseInit, UseStep, PTL DEF Spec
<1>2. QED BY <1>1, UseExact, PTL

-----------------------------------------------------------------------------
(* Where each fragment is: waiting to be compressed, being compressed, in  *)
(* frag_locked_list, or in the fragment table.                             *)
FilledAs(f) == {p \in Filled : p.frag = f}
PendingAs(f) == {p \in Pending : p.frag = f}
Staged ==
  \A f \in Frags : CountIn(to_frag, FilledAs(f)) + Deflating(f, "frag")
                   + CountIn(frag_locked_list, PendingAs(f)) + One(f \in Placed)
                   = One(f < fragments)

(* Where it is, its buffer is hashed under it.                             *)
FillHashed ==
  /\ \A p \in Range(to_frag) : fragment_buffer.index[p.from] = p.frag
  /\ fragment_data # NoBuffer => fragment_buffer.index[fragment_data] = fragments
  /\ \A i \in DOMAIN files : \/ files[i].frag = NoFragment
                             \/ files[i].frag < fragments
                             \/ files[i].frag = fragments /\ fragment_data # NoBuffer
FragHashed ==
  /\ \A d \in FragDeflators : frag_deflator[d] # IdleDeflator =>
       writer_buffer.index[frag_deflator[d].to] = FragIndex + frag_deflator[d].frag
  /\ \A p \in Range(frag_locked_list) : writer_buffer.index[p.buffer] = FragIndex + p.frag

(* No two writer buffers are hashed under one fragment, and what is in the *)
(* one that is, is that fragment.                                          *)
FragData ==
  \A b \in Buffers, f \in Frags : writer_buffer.index[b] = FragIndex + f =>
    /\ data[b].owner = FragOf(f) /\ data[b].size > 0 /\ f < fragments
    /\ \A p \in Range(to_frag) : p.frag # f
    /\ f \in Placed => data[b] = fragment_table[f]
    /\ \A c \in Buffers : writer_buffer.index[c] = FragIndex + f => c = b
FetchIs ==
  /\ main.fetch.compressed # NoBuffer =>
       /\ main.fetch.frag \in Frags
       /\ writer_buffer.index[main.fetch.compressed] = FragIndex + main.fetch.frag
  /\ main.pc \in {"get", "read"} /\ main.fetch.compressed = NoBuffer =>
       /\ main.fetch.frag \in Placed
       /\ \A b \in Buffers : writer_buffer.index[b] # FragIndex + main.fetch.frag

(* Where the blocks on record, the fragments and the file main writes are. *)
End(e) == e.pos + e.size
Apart(e, x) == End(e) <= x.pos \/ End(x) <= e.pos
Old(e) == \/ \E i \in DOMAIN files : e \in Range(files[i].list)
          \/ \E f \in Placed : e = fragment_table[f]
Placing == main.pc \in {"file", "compare", "get", "read"} /\ main.mode # "fragment"
Layout ==
  /\ \A e \in Extents : Old(e) \/ e \in Range(main.list) => e.size > 0 /\ End(e) <= bytes
  /\ \A e, x \in Range(main.list) : e # x => Apart(e, x)
  /\ Placing => /\ fragments_locked /\ main.start <= bytes
                /\ \A e \in Extents : Old(e) => End(e) <= main.start
                /\ \A e \in Range(main.list) : main.start <= e.pos
HeldIs ==
  /\ main.held # <<>> =>
       \A i \in DOMAIN files : \A e \in Range(files[i].list) : End(e) <= main.start
  /\ \A h \in Range(main.held) : /\ main.start <= data[h].pos
                                 /\ writer_buffer.index[h] = data[h].pos
                                 /\ Placing => data[h] \in Range(main.list)
  /\ \A i, j \in DOMAIN main.held : i < j => End(data[main.held[i]]) <= data[main.held[j]].pos

(* What is to be found under index i is e: on disk, or coming, and then    *)
(* whatever else is hashed there is reused before it.                      *)
Written(e) == OnDisk(e) /\ \A b \in Range(to_writer) : Apart(e, data[b])
Queued(e, b) ==
  \E k \in DOMAIN to_writer :
    /\ to_writer[k] = b
    /\ \A j \in DOMAIN to_writer : k < j => Apart(e, data[to_writer[j]])
Coming(e, b) == /\ data[b] = e
                /\ b \in Range(main.held) \/ Queued(e, b) \/ Written(e)
Before(o, b) ==
  \/ Ahead(writer_buffer.free, o, b)
  \/ Ahead(to_writer, o, b) /\ b \in Range(to_writer) \cup Range(main.held)
Safe(e, i) ==
  /\ Found(writer_buffer, i) = NoBuffer => Written(e)
  /\ \A b \in Buffers : Found(writer_buffer, i) = b =>
       /\ Coming(e, b)
       /\ \A o \in Buffers : writer_buffer.index[o] = i /\ o # b => Before(o, b)
LiveAt(e, i) == \/ e \in Recorded /\ i = e.pos
                \/ \E f \in Placed : e = fragment_table[f] /\ i = FragIndex + f
AllSafe == \A e \in Extents, i \in Indexes : LiveAt(e, i) => Safe(e, i)

PackInv == Staged /\ FillHashed /\ FragHashed /\ FragData /\ FetchIs
LayoutInv == Layout /\ HeldIs
FoundInv == UseInv /\ PackInv /\ LayoutInv /\ AllSafe

-----------------------------------------------------------------------------
(* What becomes of the caches.  A step that neither gets a buffer of the   *)
(* writer cache nor rehashes one leaves it what is hashed where, moves at  *)
(* most x in the free list, which is what is found under its index, and    *)
(* adds to the end of that list.                                           *)
Keeping ==
  \/ Write \/ (\E d \in FragDeflators : SettleFragment(d))
  \/ (\E d \in FragDeflators : AddPendingFragment(d))
  \/ StartFile \/ FileRead \/ ReadError \/ Truncate \/ UnlockOne \/ UnlockDone
  \/ WriteFileFrag \/ CompareBlock \/ GetFragment \/ GetFragmentBuffer
  \/ ReadFragment \/ Duplicate \/ NotDuplicate \/ WriteFragment \/ Fill
  \/ UNCHANGED vars
KeptBut(x) ==
  /\ writer_buffer'.index = writer_buffer.index
  /\ \A i \in Indexes : Found(writer_buffer', i) = Found(writer_buffer, i)
  /\ \/ x = NoBuffer
     \/ \E i \in Indexes : /\ x = Found(writer_buffer, i) /\ x \in Buffers
                           /\ writer_buffer.index[x] = i
  /\ Extends(RemoveFirst(writer_buffer.free, x), writer_buffer'.free)

LEMMA NothingTaken ==
  ASSUME UseInv
  PROVE  RemoveFirst(writer_buffer.free, NoBuffer) = writer_buffer.free
<1>1. writer_buffer.free \in Seq(Buffers)
  BY DEF UseInv, Typed, CachesKept, CacheKept, CacheTyped
<1>2. NoBuffer \notin Range(writer_buffer.free)
  BY <1>1 DEF Range
<1>3. QED BY <1>1, <1>2, RemoveFirstNone

LEMMA KeptSame ==
  ASSUME UseInv, writer_buffer'.index = writer_buffer.index,
         writer_buffer'.chain = writer_buffer.chain,
         Extends(writer_buffer.free, writer_buffer'.free)
  PROVE  KeptBut(NoBuffer)
<1>1. \A i \in Indexes : Found(writer_buffer', i) = Found(writer_buffer, i)
  BY DEF Found
<1>2. QED BY <1>1, NothingTaken DEF KeptBut

LEMMA KeptUnchanged ==
  ASSUME UseInv, UNCHANGED writer_buffer
  PROVE  KeptBut(NoBuffer)
<1>1. writer_buffer.free \in Seq(Buffers)
  BY DEF UseInv, Typed, CachesKept, CacheKept, CacheTyped
<1>2. Extends(writer_buffer.free, writer_buffer.free)
  BY <1>1 DEF Extends
<1>3. QED BY <1>2, KeptSame

LEMMA KeptPut ==
  ASSUME UseInv, NEW a \in Buffers, writer_buffer' = Put(writer_buffer, a)
  PROVE  KeptBut(NoBuffer)
<1>1. PICK c : c = writer_buffer
  OBVIOUS
<1>2. CacheTyped(c, Buffers, Indexes)
  BY <1>1 DEF UseInv, Typed, CachesKept, CacheKept
<1>3. Put(c, a).chain = c.chain /\ Extends(c.free, Put(c, a).free)
  BY <1>2, PutExtends
<1>4. Put(c, a).index = c.index
  BY <1>2 DEF Put, CacheTyped
<1>5. QED BY <1>1, <1>3, <1>4, KeptSame

(* cache_lookup of what is found under index i.                            *)
LEMMA KeptLookup ==
  ASSUME UseInv, NEW i \in Indexes, NEW x, x = Found(writer_buffer, i), x # NoBuffer,
         writer_buffer' = Lookup(writer_buffer, x)
         \/ writer_buffer' = Put(Lookup(writer_buffer, x), x)
  PROVE  KeptBut(x)
<1>1. PICK c : c = writer_buffer
  OBVIOUS
<1>2. CacheKept(c, Buffers, Indexes)
  BY <1>1 DEF UseInv, Typed, CachesKept
<1>3. x \in Buffers /\ c.index[x] = i /\ c.index[x] # NoIndex
  <2>1. Found(c, i) # NoBuffer => Found(c, i) \in Buffers /\ c.index[Found(c, i)] = i
    BY <1>2, FoundIs
  <2>2. QED BY <1>1, <2>1, IndexesAre
<1>4. PICK d : d = Lookup(c, x)
  OBVIOUS
<1>5. /\ CacheKept(d, Buffers, Indexes) /\ d.index = c.index
      /\ d.chain = c.chain /\ d.free = RemoveFirst(c.free, x)
  <2>0. x \in Buffers
    BY <1>3
  <2>a. c.index[x] # NoIndex
    BY <1>3
  <2>1. /\ CacheKept(Lookup(c, x), Buffers, Indexes)
        /\ Lookup(c, x).used = [c.used EXCEPT ![x] = @ + 1]
        /\ Lookup(c, x).index = c.index
    BY <1>2, <2>0, <2>a, LookupKept
  <2>2. Lookup(c, x).chain = c.chain /\ Lookup(c, x).free = RemoveFirst(c.free, x)
    BY <1>2, <1>3, LookupFound
  <2>3. QED BY <1>4, <2>1, <2>2
<1>6. CacheTyped(d, Buffers, Indexes) /\ d.free \in Seq(Buffers)
  BY <1>5 DEF CacheKept, CacheTyped
<1>7. /\ Put(d, x).chain = d.chain /\ Extends(d.free, Put(d, x).free)
      /\ Put(d, x).index = d.index
  <2>1. CacheTyped(d, Buffers, Indexes)
    BY <1>6
  <2>2. Put(d, x).chain = d.chain /\ Extends(d.free, Put(d, x).free)
    BY <1>3, <2>1, PutExtends
  <2>3. Put(d, x).index = d.index
    BY <2>1 DEF Put, CacheTyped
  <2>4. QED BY <2>2, <2>3
<1>8. Extends(d.free, d.free)
  BY <1>6 DEF Extends
<1>9. /\ writer_buffer'.chain = c.chain /\ writer_buffer'.index = c.index
      /\ Extends(RemoveFirst(c.free, x), writer_buffer'.free)
  BY <1>1, <1>4, <1>5, <1>7, <1>8
<1>10. \A j \in Indexes : Found(writer_buffer', j) = Found(writer_buffer, j)
  BY <1>1, <1>9 DEF Found
<1>11. QED BY <1>1, <1>3, <1>9, <1>10 DEF KeptBut

LEMMA WriterKept ==
  ASSUME UseInv, Keeping
  PROVE  \E x : KeptBut(x)
<1>1. CASE Write
  <2>1. Head(to_writer) \in Buffers
    BY <1>1, TailIs DEF UseInv, Typed, QueuesTyped, Write
  <2>2. QED BY <1>1, <2>1, KeptPut DEF Write
<1>2. CASE UnlockDone
  <2>1. /\ main.pc = "unlock" /\ main \in Mains /\ main.fetch = NoFetch
        /\ main.held # <<>> => main.next = "idle"
    BY <1>2 DEF UnlockDone, UseInv, Typed, MainTyped, MainShape
  <2>2. main'.held = <<>> /\ main'.fetch = NoFetch
    BY <1>2, <2>1 DEF UnlockDone, Idle, Mains
  <2>3. /\ writer_buffer' = PutAll(writer_buffer, main.held)
        /\ UNCHANGED <<to_writer, frag_locked_list, frag_deflator>>
    BY <1>2 DEF UnlockDone, others, packVars
  <2>4. /\ writer_buffer'.index = writer_buffer.index
        /\ writer_buffer'.chain = writer_buffer.chain
        /\ Extends(writer_buffer.free, writer_buffer'.free)
    BY <2>1, <2>2, <2>3, HeldPut
  <2>5. QED BY <2>4, KeptSame
<1>3. CASE Duplicate
  <2>1. CASE main.mode # "dup"
    <3>1. UNCHANGED writer_buffer
      BY <1>3, <2>1 DEF Duplicate
    <3>2. QED BY <3>1, KeptUnchanged
  <2>2. CASE main.mode = "dup"
    <3>1. main \in Mains
      BY DEF UseInv, Typed, MainTyped
    <3>2. /\ writer_buffer' = PutAll(writer_buffer, main.held)
          /\ main'.held = <<>> /\ main'.fetch = main.fetch
          /\ UNCHANGED <<to_writer, frag_locked_list, frag_deflator>>
      BY <1>3, <2>2, <3>1 DEF Duplicate, GiveBackHeld, others, packVars, lockVars, Mains
    <3>3. /\ writer_buffer'.index = writer_buffer.index
          /\ writer_buffer'.chain = writer_buffer.chain
          /\ Extends(writer_buffer.free, writer_buffer'.free)
      BY <3>2, HeldPut
    <3>4. QED BY <3>3, KeptSame
  <2>3. QED BY <2>1, <2>2
<1>4. CASE CompareBlock
  <2>1. PICK i \in Candidates : \E e \in Range(main.list) \cup Range(files[i].list) :
          LET b == Found(writer_buffer, e.pos)
          IN /\ b # NoBuffer
             /\ writer_buffer' = Put(Lookup(writer_buffer, b), b)
    BY <1>4 DEF CompareBlock
  <2>2. PICK e \in Range(main.list) \cup Range(files[i].list) :
          LET b == Found(writer_buffer, e.pos)
          IN /\ b # NoBuffer
             /\ writer_buffer' = Put(Lookup(writer_buffer, b), b)
    BY <2>1
  <2>3. e.pos \in Indexes
    <3>1. main.list \in Seq(Extents) /\ files \in Seq(Files) /\ i \in DOMAIN files
      BY MainFields DEF UseInv, Typed, OutputTyped, Candidates
    <3>2. files[i] \in Files
      BY <3>1
    <3>3. files[i].list \in Seq(Extents)
      BY <3>2 DEF Files
    <3>4. e \in Extents
      BY <3>1, <3>3 DEF Range
    <3>5. e.pos \in 0 .. MaxBytes
      BY <3>4 DEF Extents
    <3>6. QED BY <3>5, IndexesAre
  <2>4. PICK j \in Indexes : j = e.pos
    BY <2>3
  <2>5. PICK x : x = Found(writer_buffer, j)
    OBVIOUS
  <2>6. x # NoBuffer /\ writer_buffer' = Put(Lookup(writer_buffer, x), x)
    BY <2>2, <2>4, <2>5
  <2>7. QED BY <2>5, <2>6, KeptLookup
<1>5. CASE GetFragment
  <2>1. PICK i \in Candidates :
         LET f == files[i].frag
             c == Found(writer_buffer, FragIndex + f)
         IN /\ f # NoFragment
            /\ \/ UNCHANGED writer_buffer
               \/ c # NoBuffer /\ writer_buffer' = Lookup(writer_buffer, c)
    BY <1>5 DEF GetFragment
  <2>2. FragIndex + files[i].frag \in Indexes
    BY <2>1, CandidateFrag DEF UseInv
  <2>3. PICK j \in Indexes : j = FragIndex + files[i].frag
    BY <2>2
  <2>4. PICK x : x = Found(writer_buffer, j)
    OBVIOUS
  <2>5. \/ UNCHANGED writer_buffer
        \/ x # NoBuffer /\ writer_buffer' = Lookup(writer_buffer, x)
    BY <2>1, <2>3, <2>4
  <2>6. QED BY <2>4, <2>5, KeptLookup, KeptUnchanged
<1>6. CASE ReadFragment
  <2>1. main.fetch.compressed \in Buffers \cup {NoBuffer}
    BY MainFields DEF UseInv, Typed
  <2>2. PICK e : e = main.fetch.compressed
    OBVIOUS
  <2>3. UNCHANGED writer_buffer \/ (e # NoBuffer /\ writer_buffer' = Put(writer_buffer, e))
    BY <1>6, <2>2 DEF ReadFragment
  <2>4. QED BY <2>1, <2>2, <2>3, KeptPut, KeptUnchanged
<1>7. CASE \/ (\E d \in FragDeflators : SettleFragment(d))
           \/ (\E d \in FragDeflators : AddPendingFragment(d))
           \/ StartFile \/ FileRead \/ ReadError \/ Truncate \/ UnlockOne
           \/ WriteFileFrag \/ GetFragmentBuffer
           \/ NotDuplicate \/ WriteFragment \/ Fill \/ UNCHANGED vars
  <2>1. UNCHANGED writer_buffer
    BY <1>7 DEF SettleFragment, AddPendingFragment, StartFile, FileRead, ReadError, Truncate,
         UnlockOne, WriteFileFrag, GetFragmentBuffer, NotDuplicate, WriteFragment, Fill, vars
  <2>2. QED BY <2>1, KeptUnchanged
<1>8. QED BY <1>1, <1>2, <1>3, <1>4, <1>5, <1>6, <1>7 DEF Keeping

-----------------------------------------------------------------------------
(* Who has a buffer of the writer cache.                                   *)
InLocked(b) == \E p \in Range(frag_locked_list) : p.buffer = b
InDeflator(b) == \E d \in FragDeflators : frag_deflator[d].to = b

LEMMA HasIs ==
  ASSUME UseInv, NEW b \in Buffers
  PROVE  /\ CountIn(to_writer, {b}) = 0 <=> b \notin Range(to_writer)
         /\ CountIn(main.held, {b}) = 0 <=> b \notin Range(main.held)
         /\ CountIn(frag_locked_list, PendingIn(b)) = 0 <=> ~InLocked(b)
         /\ Deflating(b, "to") = 0 <=> ~InDeflator(b)
<1>1. /\ to_writer \in Seq(Buffers) /\ main.held \in Seq(Buffers)
      /\ frag_locked_list \in Seq(Pending)
  BY MainFields DEF UseInv, Typed, QueuesTyped
<1>2. /\ CountIn(to_writer, {b}) = 0 <=> \A x \in Range(to_writer) : x \notin {b}
      /\ CountIn(main.held, {b}) = 0 <=> \A x \in Range(main.held) : x \notin {b}
      /\ CountIn(frag_locked_list, PendingIn(b)) = 0
           <=> \A x \in Range(frag_locked_list) : x \notin PendingIn(b)
  BY <1>1, CountNone
<1>3. \A x \in Range(frag_locked_list) : x \in Pending
  BY <1>1 DEF Range
<1>4. Deflating(b, "to") = 0 <=> ~InDeflator(b)
  <2> DEFINE D == {d \in FragDeflators : frag_deflator[d].to = b}
  <2>1. IsFiniteSet(D)
    BY FS_Subset
  <2>2. D = {} <=> ~InDeflator(b)
    BY DEF InDeflator
  <2>3. Deflating(b, "to") = Cardinality(D)
    BY DEF Deflating
  <2> HIDE DEF D
  <2>4. QED BY <2>1, <2>2, <2>3, FS_EmptySet
<1>5. QED BY <1>2, <1>3, <1>4 DEF InLocked, PendingIn

LEMMA OneHas ==
  ASSUME UseInv, NEW b \in Buffers
  PROVE  /\ b \in Range(to_writer) =>
              /\ writer_buffer.used[b] # 0 /\ b \notin Range(main.held) /\ b \notin Ready
              /\ ~InLocked(b) /\ ~InDeflator(b)
              /\ main.fetch.compressed # b => writer_buffer.used[b] = 1
         /\ b \in Range(main.held) =>
              writer_buffer.used[b] # 0 /\ b \notin Ready /\ ~InLocked(b) /\ ~InDeflator(b)
         /\ b \in Ready => writer_buffer.used[b] # 0 /\ ~InLocked(b) /\ ~InDeflator(b)
         /\ InLocked(b) => writer_buffer.used[b] # 0 /\ ~InDeflator(b)
         /\ InDeflator(b) => writer_buffer.used[b] # 0
         /\ main.fetch.compressed = b => writer_buffer.used[b] # 0
         /\ writer_buffer.used[b] # 0 =>
              \/ b \in Range(to_writer) \/ b \in Range(main.held) \/ b \in Ready
              \/ InLocked(b) \/ InDeflator(b) \/ main.fetch.compressed = b
<1>1. PICK n \in Nat : n = CountIn(to_writer, {b})
  BY WriterSum
<1>2. PICK k \in Nat : k = CountIn(main.held, {b})
  BY WriterSum
<1>3. PICK l \in Nat : l = CountIn(frag_locked_list, PendingIn(b))
  BY WriterSum
<1>4. PICK m \in Nat : m = Deflating(b, "to")
  BY WriterSum
<1>5. PICK r \in Nat : r = IF b \in Ready THEN 1 ELSE 0
  OBVIOUS
<1>6. PICK c \in Nat : c = IF main.fetch.compressed = b THEN 1 ELSE 0
  OBVIOUS
<1>7. writer_buffer.used[b] = n + k + r + l + m + c /\ n + k + r + l + m <= 1
  BY <1>1, <1>2, <1>3, <1>4, <1>5, <1>6, WriterSum
<1>8. /\ n = 0 <=> b \notin Range(to_writer)
      /\ k = 0 <=> b \notin Range(main.held)
      /\ l = 0 <=> ~InLocked(b)
      /\ m = 0 <=> ~InDeflator(b)
  BY <1>1, <1>2, <1>3, <1>4, HasIs
<1>9. QED BY <1>5, <1>6, <1>7, <1>8

(* Each of them has it once.                                               *)
LEMMA HasOnce ==
  ASSUME UseInv, NEW b \in Buffers
  PROVE  /\ \A i, j \in DOMAIN to_writer : to_writer[i] = b /\ to_writer[j] = b => i = j
         /\ \A i, j \in DOMAIN main.held : main.held[i] = b /\ main.held[j] = b => i = j
<1>1. to_writer \in Seq(Buffers) /\ main.held \in Seq(Buffers)
  BY MainFields DEF UseInv, Typed, QueuesTyped
<1>2. CountIn(to_writer, {b}) <= 1 /\ CountIn(main.held, {b}) <= 1
  <2>1. PICK n \in Nat : n = CountIn(to_writer, {b})
    BY WriterSum
  <2>2. PICK k \in Nat : k = CountIn(main.held, {b})
    BY WriterSum
  <2>3. PICK l \in Nat : l = CountIn(frag_locked_list, PendingIn(b))
    BY WriterSum
  <2>4. PICK m \in Nat : m = Deflating(b, "to")
    BY WriterSum
  <2>5. n + k + (IF b \in Ready THEN 1 ELSE 0) + l + m <= 1
    BY <2>1, <2>2, <2>3, <2>4, WriterSum
  <2>6. n <= 1 /\ k <= 1
    BY <2>5
  <2>7. QED BY <2>1, <2>2, <2>6
<1>3. ASSUME NEW i \in DOMAIN to_writer, NEW j \in DOMAIN to_writer,
             to_writer[i] = b, to_writer[j] = b
      PROVE  i = j
  BY <1>1, <1>2, <1>3, CountOnce
<1>4. ASSUME NEW i \in DOMAIN main.held, NEW j \in DOMAIN main.held,
             main.held[i] = b, main.held[j] = b
      PROVE  i = j
  BY <1>1, <1>2, <1>4, CountOnce
<1>5. QED BY <1>3, <1>4

(* The free list.                                                          *)
LEMMA FreeIs ==
  ASSUME UseInv
  PROVE  /\ writer_buffer.free \in Seq(Buffers) /\ IsInjective(writer_buffer.free)
         /\ Range(writer_buffer.free) = {b \in Buffers : /\ writer_buffer.used[b] = 0
                                                         /\ writer_buffer.index[b] # NoIndex}
<1>1. /\ CacheKept(writer_buffer, Buffers, Indexes)
      /\ DOMAIN writer_buffer.used = Buffers
  BY CachesAre DEF UseInv, Typed
<1>2. QED BY <1>1, TwoHalves DEF CacheKept, CacheTyped, FreeKept

(* What is got is the head of the free list, or hashed nowhere.            *)
LEMMA GotFirst ==
  ASSUME UseInv, NEW a \in Gettable(writer_buffer, first_freelist)
  PROVE  /\ a \in Buffers /\ writer_buffer.used[a] = 0
         /\ writer_buffer.index[a] # NoIndex =>
              writer_buffer.free # <<>> /\ a = Head(writer_buffer.free)
<1>1. a \in Buffers /\ writer_buffer.used[a] = 0
  BY BufferGot DEF UseInv
<1>2. QED BY <1>1 DEF Gettable, Allocated

LEMMA FoundHere ==
  ASSUME UseInv, NEW i \in Indexes
  PROVE  /\ Found(writer_buffer, i) # NoBuffer =>
              /\ Found(writer_buffer, i) \in Buffers
              /\ writer_buffer.index[Found(writer_buffer, i)] = i
         /\ Found(writer_buffer, i) = NoBuffer => \A b \in Buffers : writer_buffer.index[b] # i
<1>1. CacheKept(writer_buffer, Buffers, Indexes)
  BY DEF UseInv, Typed, CachesKept
<1>2. QED BY <1>1, FoundIs

-----------------------------------------------------------------------------
(* The stages of a fragment.                                               *)
InFill(f) == \E p \in Range(to_frag) : p.frag = f
InWork(f) == \E d \in FragDeflators : frag_deflator[d].frag = f
InPending(f) == \E p \in Range(frag_locked_list) : p.frag = f

LEMMA StageCounts ==
  ASSUME UseInv, NEW f \in Frags
  PROVE  /\ CountIn(to_frag, FilledAs(f)) \in Nat
         /\ CountIn(frag_locked_list, PendingAs(f)) \in Nat
         /\ Deflating(f, "frag") \in Nat
         /\ CountIn(to_frag, FilledAs(f)) = 0 <=> ~InFill(f)
         /\ CountIn(frag_locked_list, PendingAs(f)) = 0 <=> ~InPending(f)
         /\ Deflating(f, "frag") = 0 <=> ~InWork(f)
<1>1. to_frag \in Seq(Filled) /\ frag_locked_list \in Seq(Pending)
  BY DEF UseInv, Typed, QueuesTyped
<1>2. /\ CountIn(to_frag, FilledAs(f)) \in Nat
      /\ CountIn(frag_locked_list, PendingAs(f)) \in Nat
  BY <1>1, CountFinite
<1>3. /\ CountIn(to_frag, FilledAs(f)) = 0
           <=> \A x \in Range(to_frag) : x \notin FilledAs(f)
      /\ CountIn(frag_locked_list, PendingAs(f)) = 0
           <=> \A x \in Range(frag_locked_list) : x \notin PendingAs(f)
  BY <1>1, CountNone
<1>4. /\ \A x \in Range(to_frag) : x \in Filled
      /\ \A x \in Range(frag_locked_list) : x \in Pending
  BY <1>1 DEF Range
<1>5. Deflating(f, "frag") \in Nat /\ (Deflating(f, "frag") = 0 <=> ~InWork(f))
  <2> DEFINE D == {d \in FragDeflators : frag_deflator[d].frag = f}
  <2>1. IsFiniteSet(D)
    BY FS_Subset
  <2>2. D = {} <=> ~InWork(f)
    BY DEF InWork
  <2>3. Deflating(f, "frag") = Cardinality(D)
    BY DEF Deflating
  <2> HIDE DEF D
  <2>4. QED BY <2>1, <2>2, <2>3, FS_EmptySet, FS_CardinalityType
<1>6. QED BY <1>2, <1>3, <1>4, <1>5 DEF InFill, InPending, FilledAs, PendingAs

LEMMA StagedSum ==
  ASSUME Staged, NEW f \in Frags
  PROVE  CountIn(to_frag, FilledAs(f)) + Deflating(f, "frag")
         + CountIn(frag_locked_list, PendingAs(f)) + (IF f \in Placed THEN 1 ELSE 0)
         = IF f < fragments THEN 1 ELSE 0
BY DEF Staged, One

(* A fragment is in one stage, if it is filled.                            *)
LEMMA OneStage ==
  ASSUME UseInv, Staged, NEW f \in Frags
  PROVE  /\ InFill(f) => /\ f < fragments /\ f \notin Placed /\ ~InWork(f) /\ ~InPending(f)
                         /\ CountIn(to_frag, FilledAs(f)) = 1
         /\ InWork(f) => f < fragments /\ f \notin Placed /\ ~InPending(f)
         /\ InPending(f) => f < fragments /\ f \notin Placed
         /\ f \in Placed => f < fragments
         /\ f < fragments => InFill(f) \/ InWork(f) \/ InPending(f) \/ f \in Placed
<1>1. PICK n \in Nat : n = CountIn(to_frag, FilledAs(f))
  BY StageCounts
<1>2. PICK k \in Nat : k = Deflating(f, "frag")
  BY StageCounts
<1>3. PICK l \in Nat : l = CountIn(frag_locked_list, PendingAs(f))
  BY StageCounts
<1>4. PICK p \in Nat : p = IF f \in Placed THEN 1 ELSE 0
  OBVIOUS
<1>5. PICK s \in {0, 1} : s = IF f < fragments THEN 1 ELSE 0
  OBVIOUS
<1>6. n + k + l + p = s
  BY <1>1, <1>2, <1>3, <1>4, <1>5, StagedSum
<1>7. /\ n = 0 <=> ~InFill(f)
      /\ k = 0 <=> ~InWork(f)
      /\ l = 0 <=> ~InPending(f)
  BY <1>1, <1>2, <1>3, StageCounts
<1>8. QED BY <1>1, <1>4, <1>5, <1>6, <1>7

(* What frag_deflators work on, when one of them starts or ends.           *)
LEMMA WorkChanges ==
  ASSUME NEW d \in FragDeflators, NEW f,
         \A e \in FragDeflators : e # d => frag_deflator'[e].frag = frag_deflator[e].frag
  PROVE  Deflating(f, "frag")' = Deflating(f, "frag")
              - (IF frag_deflator[d].frag = f THEN 1 ELSE 0)
              + (IF frag_deflator'[d].frag = f THEN 1 ELSE 0)
<1> DEFINE T == {e \in FragDeflators : frag_deflator[e].frag = f}
<1>1. Deflating(f, "frag") = Cardinality(T) /\ Deflating(f, "frag")' = Cardinality(T')
  BY DEF Deflating
<1>2. /\ T \ {d} = T' \ {d}
      /\ d \in T <=> frag_deflator[d].frag = f
      /\ d \in T' <=> frag_deflator'[d].frag = f
  OBVIOUS
<1>3. IsFiniteSet(T) /\ IsFiniteSet(T')
  BY FS_Subset
<1> HIDE DEF T
<1>4. ASSUME NEW S, IsFiniteSet(S)
      PROVE  Cardinality(S) = Cardinality(S \ {d}) + (IF d \in S THEN 1 ELSE 0)
             /\ Cardinality(S) \in Nat /\ Cardinality(S \ {d}) \in Nat
  <2>1. /\ IsFiniteSet(S \ {d})
        /\ Cardinality(S \ {d}) = IF d \in S THEN Cardinality(S) - 1 ELSE Cardinality(S)
    BY <1>4, FS_RemoveElement
  <2>2. Cardinality(S) \in Nat /\ Cardinality(S \ {d}) \in Nat
    BY <1>4, <2>1, FS_CardinalityType
  <2>3. QED BY <2>1, <2>2
<1>5. /\ Cardinality(T) = Cardinality(T \ {d}) + (IF d \in T THEN 1 ELSE 0)
      /\ Cardinality(T') = Cardinality(T \ {d}) + (IF d \in T' THEN 1 ELSE 0)
      /\ Cardinality(T) \in Nat /\ Cardinality(T \ {d}) \in Nat
  BY <1>2, <1>3, <1>4
<1>6. QED BY <1>1, <1>2, <1>5

(* A fragment gets its place and its entry in the table.                   *)
LEMMA FragmentPlaced ==
  ASSUME UseInv, FragData, NEW f \in Frags, NEW b \in Buffers,
         writer_buffer.index[b] = FragIndex + f, PlaceFragment(f, b)
  PROVE  \E e \in Extents :
           /\ e.owner = FragOf(f) /\ e.pos = bytes /\ e.size = data[b].size /\ e.size > 0
           /\ e # NoEntry /\ bytes' = End(e) /\ bytes' \in 0 .. MaxBytes /\ bytes \in Nat
           /\ data' = [data EXCEPT ![b] = e]
           /\ fragment_table' = [fragment_table EXCEPT ![f] = e]
           /\ Placed' = Placed \cup {f}
           /\ to_writer' = Append(to_writer, b)
<1>1. /\ data[b].owner = FragOf(f) /\ data[b].size > 0
  BY DEF FragData
<1>2. /\ data \in [Buffers -> Extents] /\ data[b] \in Extents /\ bytes \in 0 .. MaxBytes
      /\ fragment_table \in [Frags -> Extents \cup {NoEntry}]
  BY DEF UseInv, Typed, OutputTyped
<1>3. PICK x \in Extents : x = data[b]
  BY <1>2
<1>4. PICK e : e = [x EXCEPT !.pos = bytes]
  OBVIOUS
<1>5. /\ e \in Extents /\ e.owner = FragOf(f) /\ e.pos = bytes /\ e.size = x.size
      /\ e.size \in Nat /\ e.size > 0 /\ bytes \in Nat
      /\ e = [owner |-> FragOf(f), pos |-> bytes, size |-> e.size]
  BY <1>1, <1>2, <1>3, <1>4 DEF Extents
<1>6. e # NoEntry
  <2>1. e \in [owner : {FragOf(g) : g \in Frags}, pos : Nat, size : Nat]
    BY <1>5
  <2>2. QED BY <2>1
<1>7. /\ data' = [data EXCEPT ![b] = e]
      /\ fragment_table' = [fragment_table EXCEPT ![f] = e]
      /\ to_writer' = Append(to_writer, b)
      /\ bytes' = bytes + x.size /\ bytes + x.size <= MaxBytes
  BY <1>3, <1>4 DEF PlaceFragment
<1>8. Placed' = Placed \cup {f}
  BY <1>2, <1>6, <1>7 DEF Placed
<1>9. bytes' = End(e) /\ bytes' \in 0 .. MaxBytes
  BY <1>2, <1>5, <1>7 DEF End
<1>10. QED BY <1>3, <1>5, <1>6, <1>7, <1>8, <1>9

(* What a frag_deflator, or the list of locked fragments, hands on.        *)
LEMMA WorkIs ==
  ASSUME UseInv, PackInv, NEW d \in FragDeflators, frag_deflator[d] # IdleDeflator
  PROVE  /\ frag_deflator[d].frag \in Frags /\ frag_deflator[d].to \in Buffers
         /\ writer_buffer.index[frag_deflator[d].to] = FragIndex + frag_deflator[d].frag
         /\ frag_deflator[d].frag \notin Placed
<1>1. frag_deflator[d].frag \in Frags /\ frag_deflator[d].to \in Buffers
  BY WorkingIs DEF UseInv, Typed
<1>2. InWork(frag_deflator[d].frag)
  BY DEF InWork
<1>3. PICK f \in Frags : f = frag_deflator[d].frag
  BY <1>1
<1>4. f \notin Placed
  BY <1>2, <1>3, OneStage DEF PackInv
<1>5. QED BY <1>1, <1>3, <1>4 DEF PackInv, FragHashed

LEMMA FirstLockedIs ==
  ASSUME UseInv, PackInv, frag_locked_list # <<>>
  PROVE  /\ Head(frag_locked_list).frag \in Frags /\ Head(frag_locked_list).buffer \in Buffers
         /\ Head(frag_locked_list) \in Range(frag_locked_list)
         /\ writer_buffer.index[Head(frag_locked_list).buffer]
              = FragIndex + Head(frag_locked_list).frag
         /\ Head(frag_locked_list).frag \notin Placed
         /\ Range(Tail(frag_locked_list)) \subseteq Range(frag_locked_list)
<1>1. /\ frag_locked_list \in Seq(Pending)
      /\ Head(frag_locked_list) \in Range(frag_locked_list)
      /\ Range(Tail(frag_locked_list)) \subseteq Range(frag_locked_list)
  BY TailIn DEF UseInv, Typed, QueuesTyped
<1>2. PICK p : p = Head(frag_locked_list)
  OBVIOUS
<1>3. p \in Pending /\ p \in Range(frag_locked_list)
  BY <1>1, <1>2 DEF Range
<1>4. p.frag \in Frags /\ p.buffer \in Buffers
  BY <1>3 DEF Pending
<1>5. PICK f \in Frags : f = p.frag
  BY <1>4
<1>6. InPending(f)
  BY <1>3, <1>5 DEF InPending
<1>7. f \notin Placed
  BY <1>6, OneStage DEF PackInv
<1>8. QED BY <1>1, <1>2, <1>3, <1>4, <1>5, <1>7 DEF PackInv, FragHashed

LEMMA FirstFillIs ==
  ASSUME UseInv, PackInv, to_frag # <<>>
  PROVE  /\ Head(to_frag).frag \in Frags /\ Head(to_frag).from \in FragmentBuffers
         /\ Head(to_frag) \in Range(to_frag)
         /\ InFill(Head(to_frag).frag) /\ Head(to_frag).frag < fragments
         /\ Head(to_frag).frag \notin Placed
         /\ Range(Tail(to_frag)) \subseteq Range(to_frag)
         /\ \A p \in Range(Tail(to_frag)) : p.frag # Head(to_frag).frag
<1>1. /\ to_frag \in Seq(Filled) /\ Tail(to_frag) \in Seq(Filled)
      /\ Head(to_frag) \in Range(to_frag)
      /\ Range(Tail(to_frag)) \subseteq Range(to_frag)
  BY TailIn, TailIs DEF UseInv, Typed, QueuesTyped
<1>2. PICK h : h = Head(to_frag)
  OBVIOUS
<1>3. h \in Filled /\ h \in Range(to_frag)
  BY <1>1, <1>2 DEF Range
<1>4. h.frag \in Frags /\ h.from \in FragmentBuffers
  BY <1>3 DEF Filled
<1>5. PICK f \in Frags : f = h.frag
  BY <1>4
<1>6. InFill(f)
  BY <1>3, <1>5 DEF InFill
<1>7. f \notin Placed /\ f < fragments /\ CountIn(to_frag, FilledAs(f)) = 1
  BY <1>6, OneStage DEF PackInv
<1>8. ASSUME NEW p \in Range(Tail(to_frag)) PROVE p.frag # f
  <2>1. CountIn(to_frag, FilledAs(f))
          = CountIn(Tail(to_frag), FilledAs(f)) + (IF Head(to_frag) \in FilledAs(f) THEN 1 ELSE 0)
    BY <1>1, CountTail DEF UseInv, Typed, QueuesTyped
  <2>2. Head(to_frag) \in FilledAs(f)
    BY <1>2, <1>3, <1>5 DEF FilledAs
  <2>3. CountIn(Tail(to_frag), FilledAs(f)) \in Nat
    BY <1>1, CountFinite
  <2>4. CountIn(Tail(to_frag), FilledAs(f)) = 0
    BY <1>7, <2>1, <2>2, <2>3
  <2>5. p \notin FilledAs(f)
    BY <1>1, <2>4, CountNone
  <2>6. p \in Filled
    BY <1>1 DEF Range
  <2>7. QED BY <2>5, <2>6 DEF FilledAs
<1>9. QED BY <1>1, <1>2, <1>3, <1>4, <1>5, <1>6, <1>7, <1>8

(* A fragment goes from one stage to the next.                             *)
LEMMA StagedSame ==
  ASSUME Staged, UNCHANGED <<to_frag, frag_locked_list, fragment_table, fragments>>,
         \A d \in FragDeflators : frag_deflator'[d].frag = frag_deflator[d].frag
  PROVE  Staged'
<1>1. ASSUME NEW f \in Frags PROVE Deflating(f, "frag")' = Deflating(f, "frag")
  BY DEF Deflating
<1>2. Placed' = Placed
  BY DEF Placed
<1>3. QED BY <1>1, <1>2 DEF Staged, One

LEMMA CompressStaged ==
  ASSUME UseInv, PackInv, NEW d \in FragDeflators, CompressFragment(d)
  PROVE  Staged'
<1>1. to_frag # <<>> /\ to_frag' = Tail(to_frag) /\ frag_deflator[d] = IdleDeflator
  BY DEF CompressFragment
<1>2. UNCHANGED <<frag_locked_list, fragment_table, fragments>>
  BY DEF CompressFragment, lockVars, packVars
<1>3. PICK w \in Frags : w = Head(to_frag).frag
  BY <1>1, FirstFillIs
<1>4. /\ \A e \in FragDeflators : e # d => frag_deflator'[e].frag = frag_deflator[e].frag
      /\ frag_deflator'[d].frag = w
  BY <1>3 DEF UseInv, Typed, QueuesTyped, CompressFragment
<1>5. frag_deflator[d].frag = NoFragment
  BY <1>1 DEF IdleDeflator
<1>6. ASSUME NEW f \in Frags
      PROVE  /\ CountIn(to_frag, FilledAs(f))
                  = CountIn(to_frag', FilledAs(f)) + (IF w = f THEN 1 ELSE 0)
             /\ CountIn(to_frag', FilledAs(f)) \in Nat
  <2>1. to_frag \in Seq(Filled) /\ Tail(to_frag) \in Seq(Filled) /\ Head(to_frag) \in Filled
    BY <1>1, TailIs DEF UseInv, Typed, QueuesTyped
  <2>2. CountIn(to_frag, FilledAs(f)) = CountIn(Tail(to_frag), FilledAs(f))
          + (IF Head(to_frag) \in FilledAs(f) THEN 1 ELSE 0)
    BY <1>1, <2>1, CountTail
  <2>3. Head(to_frag) \in FilledAs(f) <=> w = f
    BY <1>3, <2>1 DEF FilledAs
  <2>4. CountIn(Tail(to_frag), FilledAs(f)) \in Nat
    BY <2>1, CountFinite
  <2>5. QED BY <1>1, <2>2, <2>3, <2>4
<1>7. ASSUME NEW f \in Frags
      PROVE  Deflating(f, "frag")' = Deflating(f, "frag") + (IF w = f THEN 1 ELSE 0)
             /\ Deflating(f, "frag") \in Nat
  <2>1. Deflating(f, "frag")' = Deflating(f, "frag")
          - (IF frag_deflator[d].frag = f THEN 1 ELSE 0)
          + (IF frag_deflator'[d].frag = f THEN 1 ELSE 0)
    BY <1>4, WorkChanges
  <2>2. f # NoFragment
    BY IndexesAre
  <2>3. Deflating(f, "frag") \in Nat
    BY StageCounts
  <2>4. QED BY <1>4, <1>5, <2>1, <2>2, <2>3
<1>8. Placed' = Placed
  BY <1>2 DEF Placed
<1>9. ASSUME NEW f \in Frags
      PROVE  CountIn(to_frag', FilledAs(f)) + Deflating(f, "frag")'
             + CountIn(frag_locked_list, PendingAs(f)) + One(f \in Placed) = One(f < fragments)
  <2>1. PICK n \in Nat : n = CountIn(to_frag', FilledAs(f))
    BY <1>6
  <2>2. PICK k \in Nat : k = Deflating(f, "frag")
    BY <1>7
  <2>3. PICK l \in Nat : l = CountIn(frag_locked_list, PendingAs(f))
    BY StageCounts
  <2>4. PICK p \in Nat : p = One(f \in Placed)
    BY DEF One
  <2>5. PICK x \in Nat : x = IF w = f THEN 1 ELSE 0
    OBVIOUS
  <2>6. (n + x) + k + l + p = One(f < fragments)
    BY <1>6, <2>1, <2>2, <2>3, <2>4, <2>5 DEF PackInv, Staged
  <2>7. Deflating(f, "frag")' = k + x
    BY <1>7, <2>2, <2>5
  <2>8. QED BY <2>1, <2>3, <2>4, <2>6, <2>7
<1>10. QED BY <1>2, <1>8, <1>9 DEF Staged

(* What a frag_deflator is done with is counted once less.                 *)
LEMMA WorkDone ==
  ASSUME UseInv, NEW d \in FragDeflators, frag_deflator[d] # IdleDeflator,
         frag_deflator' = [frag_deflator EXCEPT ![d] = IdleDeflator], NEW f \in Frags
  PROVE  Deflating(f, "frag") = Deflating(f, "frag")'
                                + (IF frag_deflator[d].frag = f THEN 1 ELSE 0)
         /\ Deflating(f, "frag")' \in Nat
<1>1. /\ \A e \in FragDeflators : e # d => frag_deflator'[e].frag = frag_deflator[e].frag
      /\ frag_deflator'[d].frag = NoFragment
  BY DEF UseInv, Typed, QueuesTyped, IdleDeflator
<1>2. Deflating(f, "frag")' = Deflating(f, "frag")
        - (IF frag_deflator[d].frag = f THEN 1 ELSE 0)
        + (IF frag_deflator'[d].frag = f THEN 1 ELSE 0)
  BY <1>1, WorkChanges
<1>3. f # NoFragment
  BY IndexesAre
<1>4. Deflating(f, "frag") \in Nat
  BY StageCounts
<1>5. Deflating(f, "frag")' \in Nat
  <2>1. IsFiniteSet({e \in FragDeflators : frag_deflator'[e].frag = f})
    BY FS_Subset
  <2>2. QED BY <2>1, FS_CardinalityType DEF Deflating
<1>6. QED BY <1>1, <1>2, <1>3, <1>4, <1>5

LEMMA SettleStaged ==
  ASSUME UseInv, PackInv, NEW d \in FragDeflators, SettleFragment(d)
  PROVE  Staged'
<1>1. /\ frag_deflator[d].state = "settle" /\ frag_deflator[d] # IdleDeflator
      /\ UNCHANGED <<to_frag, frag_locked_list, fragments>>
  BY DEF SettleFragment, IdleDeflator, lockVars, packVars
<1>2. CASE fragments_locked
  <2>1. /\ frag_deflator' = [frag_deflator EXCEPT ![d].state = "pend"]
        /\ UNCHANGED fragment_table
    BY <1>2 DEF SettleFragment
  <2>2. PICK g : g = frag_deflator[d]
    OBVIOUS
  <2>3. g \in Working
    BY <1>1, <2>2, WorkingIs DEF UseInv, Typed
  <2>4. PICK h : h = [g EXCEPT !.state = "pend"]
    OBVIOUS
  <2>5. h.frag = g.frag /\ frag_deflator' = [frag_deflator EXCEPT ![d] = h]
    BY <2>1, <2>2, <2>3, <2>4 DEF Working
  <2>6. \A e \in FragDeflators : frag_deflator'[e].frag = frag_deflator[e].frag
    BY <2>2, <2>5 DEF UseInv, Typed, QueuesTyped
  <2>7. QED BY <1>1, <2>1, <2>6, StagedSame DEF PackInv
<1>3. CASE ~fragments_locked
  <2>1. PICK w \in Frags : w = frag_deflator[d].frag
    BY <1>1, WorkIs
  <2>2. PICK b \in Buffers : b = frag_deflator[d].to
    BY <1>1, WorkIs
  <2>3. writer_buffer.index[b] = FragIndex + w /\ w \notin Placed
    BY <1>1, <2>1, <2>2, WorkIs
  <2>4. /\ frag_deflator' = [frag_deflator EXCEPT ![d] = IdleDeflator]
        /\ PlaceFragment(w, b)
    BY <1>3, <2>1, <2>2 DEF SettleFragment
  <2>5. Placed' = Placed \cup {w}
    BY <2>3, <2>4, FragmentPlaced DEF PackInv
  <2>6. ASSUME NEW f \in Frags
        PROVE  CountIn(to_frag, FilledAs(f)) + Deflating(f, "frag")'
               + CountIn(frag_locked_list, PendingAs(f)) + One(f \in Placed')
               = One(f < fragments)
    <3>1. PICK n \in Nat : n = CountIn(to_frag, FilledAs(f))
      BY StageCounts
    <3>2. PICK k \in Nat : k = Deflating(f, "frag")'
      BY <1>1, <2>4, WorkDone
    <3>3. PICK l \in Nat : l = CountIn(frag_locked_list, PendingAs(f))
      BY StageCounts
    <3>4. PICK p \in Nat : p = One(f \in Placed)
      BY DEF One
    <3>5. PICK x \in Nat : x = IF w = f THEN 1 ELSE 0
      OBVIOUS
    <3>6. Deflating(f, "frag") = k + x
      BY <1>1, <2>1, <2>4, <3>2, <3>5, WorkDone
    <3>7. n + (k + x) + l + p = One(f < fragments)
      BY <3>1, <3>3, <3>4, <3>6 DEF PackInv, Staged
    <3>8. One(f \in Placed') = p + x
      BY <2>3, <2>5, <3>4, <3>5 DEF One
    <3>9. QED BY <3>1, <3>2, <3>3, <3>7, <3>8
  <2>7. QED BY <1>1, <2>6 DEF Staged
<1>4. QED BY <1>2, <1>3

LEMMA AddPendingStaged ==
  ASSUME UseInv, PackInv, NEW d \in FragDeflators, AddPendingFragment(d)
  PROVE  Staged'
<1>1. /\ frag_deflator[d].state = "pend" /\ frag_deflator[d] # IdleDeflator
      /\ UNCHANGED <<to_frag, fragments, fragment_table>>
      /\ frag_deflator' = [frag_deflator EXCEPT ![d] = IdleDeflator]
  BY DEF AddPendingFragment, IdleDeflator, packVars
<1>2. PICK w \in Frags : w = frag_deflator[d].frag
  BY <1>1, WorkIs
<1>3. PICK q \in Pending : q.frag = w /\ frag_locked_list' = Append(frag_locked_list, q)
  <2>1. PICK b \in Buffers : b = frag_deflator[d].to
    BY <1>1, WorkIs
  <2>2. PICK q : q = [frag |-> w, buffer |-> b]
    OBVIOUS
  <2>3. q \in Pending /\ q.frag = w
    BY <2>2 DEF Pending
  <2>4. frag_locked_list' = Append(frag_locked_list, q)
    BY <1>2, <2>1, <2>2 DEF AddPendingFragment
  <2>5. QED BY <2>3, <2>4
<1>4. Placed' = Placed
  BY <1>1 DEF Placed
<1>5. ASSUME NEW f \in Frags
      PROVE  CountIn(to_frag, FilledAs(f)) + Deflating(f, "frag")'
             + CountIn(frag_locked_list', PendingAs(f)) + One(f \in Placed)
             = One(f < fragments)
  <2>1. PICK n \in Nat : n = CountIn(to_frag, FilledAs(f))
    BY StageCounts
  <2>2. PICK k \in Nat : k = Deflating(f, "frag")'
    BY <1>1, WorkDone
  <2>3. PICK l \in Nat : l = CountIn(frag_locked_list, PendingAs(f))
    BY StageCounts
  <2>4. PICK p \in Nat : p = One(f \in Placed)
    BY DEF One
  <2>5. PICK x \in Nat : x = IF w = f THEN 1 ELSE 0
    OBVIOUS
  <2>6. Deflating(f, "frag") = k + x
    BY <1>1, <1>2, <2>2, <2>5, WorkDone
  <2>7. n + (k + x) + l + p = One(f < fragments)
    BY <2>1, <2>3, <2>4, <2>6 DEF PackInv, Staged
  <2>8. CountIn(frag_locked_list', PendingAs(f)) = l + x
    <3>1. frag_locked_list \in Seq(Pending)
      BY DEF UseInv, Typed, QueuesTyped
    <3>2. CountIn(Append(frag_locked_list, q), PendingAs(f))
            = CountIn(frag_locked_list, PendingAs(f)) + (IF q \in PendingAs(f) THEN 1 ELSE 0)
      BY <3>1, CountAppend
    <3>3. q \in PendingAs(f) <=> w = f
      BY <1>3 DEF PendingAs
    <3>4. QED BY <1>3, <2>3, <2>5, <3>2, <3>3
  <2>9. QED BY <2>1, <2>2, <2>4, <2>7, <2>8
<1>6. QED BY <1>1, <1>4, <1>5 DEF Staged

LEMMA UnlockOneStaged ==
  ASSUME UseInv, PackInv, UnlockOne
  PROVE  Staged'
<1>1. /\ frag_locked_list # <<>> /\ frag_locked_list' = Tail(frag_locked_list)
      /\ UNCHANGED <<to_frag, fragments, frag_deflator>>
  BY DEF UnlockOne, packVars
<1>2. PICK w \in Frags : w = Head(frag_locked_list).frag
  BY <1>1, FirstLockedIs
<1>3. PICK b \in Buffers : b = Head(frag_locked_list).buffer
  BY <1>1, FirstLockedIs
<1>4. writer_buffer.index[b] = FragIndex + w /\ w \notin Placed
  BY <1>1, <1>2, <1>3, FirstLockedIs
<1>5. PlaceFragment(w, b)
  BY <1>2, <1>3 DEF UnlockOne
<1>6. Placed' = Placed \cup {w}
  BY <1>4, <1>5, FragmentPlaced DEF PackInv
<1>7. ASSUME NEW f \in Frags
      PROVE  CountIn(to_frag, FilledAs(f)) + Deflating(f, "frag")
             + CountIn(frag_locked_list', PendingAs(f)) + One(f \in Placed')
             = One(f < fragments)
  <2>1. PICK n \in Nat : n = CountIn(to_frag, FilledAs(f))
    BY StageCounts
  <2>2. PICK k \in Nat : k = Deflating(f, "frag")
    BY StageCounts
  <2>3. PICK x \in Nat : x = IF w = f THEN 1 ELSE 0
    OBVIOUS
  <2>4. PICK l \in Nat : /\ l = CountIn(frag_locked_list', PendingAs(f))
                         /\ CountIn(frag_locked_list, PendingAs(f)) = l + x
    <3>1. /\ frag_locked_list \in Seq(Pending) /\ Tail(frag_locked_list) \in Seq(Pending)
          /\ Head(frag_locked_list) \in Pending
      BY <1>1, TailIs DEF UseInv, Typed, QueuesTyped
    <3>2. CountIn(frag_locked_list, PendingAs(f)) = CountIn(Tail(frag_locked_list), PendingAs(f))
            + (IF Head(frag_locked_list) \in PendingAs(f) THEN 1 ELSE 0)
      BY <1>1, <3>1, CountTail
    <3>3. Head(frag_locked_list) \in PendingAs(f) <=> w = f
      BY <1>2, <3>1 DEF PendingAs
    <3>4. CountIn(Tail(frag_locked_list), PendingAs(f)) \in Nat
      BY <3>1, CountFinite
    <3>5. QED BY <1>1, <2>3, <3>2, <3>3, <3>4
  <2>5. PICK p \in Nat : p = One(f \in Placed)
    BY DEF One
  <2>6. n + k + (l + x) + p = One(f < fragments)
    BY <2>1, <2>2, <2>4, <2>5 DEF PackInv, Staged
  <2>7. One(f \in Placed') = p + x
    BY <1>4, <1>6, <2>3, <2>5 DEF One
  <2>8. QED BY <2>1, <2>2, <2>4, <2>6, <2>7
<1>8. ASSUME NEW f \in Frags PROVE Deflating(f, "frag")' = Deflating(f, "frag")
  BY <1>1 DEF Deflating
<1>9. QED BY <1>1, <1>7, <1>8 DEF Staged

LEMMA WriteFragmentStaged ==
  ASSUME UseInv, PackInv, WriteFragment
  PROVE  Staged'
<1>1. /\ UNCHANGED <<frag_locked_list, frag_deflator, fragment_table>>
      /\ fragments' = fragments + 1 /\ fragment_data # NoBuffer
  BY DEF WriteFragment, lockVars
<1>2. fragments \in Frags /\ fragment_data \in FragmentBuffers /\ fragments \in Nat
  BY <1>1 DEF UseInv, MainShape, Typed, OutputTyped, Frags
<1>3. PICK q \in Filled : q.frag = fragments /\ to_frag' = Append(to_frag, q)
  <2>1. PICK q : q = [frag |-> fragments, from |-> fragment_data]
    OBVIOUS
  <2>2. q \in Filled /\ q.frag = fragments
    BY <1>2, <2>1 DEF Filled
  <2>3. to_frag' = Append(to_frag, q)
    BY <2>1 DEF WriteFragment
  <2>4. QED BY <2>2, <2>3
<1>4. Placed' = Placed
  BY <1>1 DEF Placed
<1>5. ASSUME NEW f \in Frags
      PROVE  CountIn(to_frag', FilledAs(f)) + Deflating(f, "frag")
             + CountIn(frag_locked_list, PendingAs(f)) + One(f \in Placed)
             = One(f < fragments + 1)
  <2>1. PICK n \in Nat : n = CountIn(to_frag, FilledAs(f))
    BY StageCounts
  <2>2. PICK k \in Nat : k = Deflating(f, "frag")
    BY StageCounts
  <2>3. PICK l \in Nat : l = CountIn(frag_locked_list, PendingAs(f))
    BY StageCounts
  <2>4. PICK p \in Nat : p = One(f \in Placed)
    BY DEF One
  <2>5. PICK x \in Nat : x = IF fragments = f THEN 1 ELSE 0
    OBVIOUS
  <2>6. n + k + l + p = One(f < fragments)
    BY <2>1, <2>2, <2>3, <2>4 DEF PackInv, Staged
  <2>7. CountIn(to_frag', FilledAs(f)) = n + x
    <3>1. to_frag \in Seq(Filled)
      BY DEF UseInv, Typed, QueuesTyped
    <3>2. CountIn(Append(to_frag, q), FilledAs(f))
            = CountIn(to_frag, FilledAs(f)) + (IF q \in FilledAs(f) THEN 1 ELSE 0)
      BY <3>1, CountAppend
    <3>3. q \in FilledAs(f) <=> fragments = f
      BY <1>3 DEF FilledAs
    <3>4. QED BY <1>3, <2>1, <2>5, <3>2, <3>3
  <2>8. One(f < fragments + 1) = One(f < fragments) + x
    <3>1. f \in Nat
      BY IndexesAre
    <3>2. QED BY <1>2, <2>5, <3>1 DEF One
  <2>9. One(f < fragments) \in Nat
    BY DEF One
  <2>10. QED BY <2>2, <2>3, <2>4, <2>6, <2>7, <2>8, <2>9, <2>1, <2>5
<1>6. ASSUME NEW f \in Frags PROVE Deflating(f, "frag")' = Deflating(f, "frag")
  BY <1>1 DEF Deflating
<1>7. QED BY <1>1, <1>4, <1>5, <1>6 DEF Staged

LEMMA StagedStep ==
  ASSUME UseInv, PackInv, [Next]_vars
  PROVE  Staged'
<1>1. ASSUME NEW d \in FragDeflators,
             CompressFragment(d) \/ SettleFragment(d) \/ AddPendingFragment(d)
      PROVE  Staged'
  BY <1>1, CompressStaged, SettleStaged, AddPendingStaged
<1>2. CASE UnlockOne \/ WriteFragment
  BY <1>2, UnlockOneStaged, WriteFragmentStaged
<1>3. CASE \/ Compress \/ Write \/ StartFile
           \/ (\E b \in Ready, size \in Sizes : PlaceBlock(b, size))
           \/ FileRead \/ ReadError \/ Truncate \/ UnlockDone \/ WriteFileFrag
           \/ CompareBlock \/ GetFragment \/ GetFragmentBuffer \/ ReadFragment
           \/ Duplicate \/ NotDuplicate \/ Fill \/ UNCHANGED vars
  <2>1. UNCHANGED <<to_frag, fragment_table, fragments, frag_deflator, frag_locked_list>>
    BY Zenon, <1>3 DEF Compress, Write, StartFile, PlaceBlock, FileRead, ReadError, GiveBack,
         Truncate, UnlockDone, WriteFileFrag, CompareBlock, GetFragment, GetFragmentBuffer,
         ReadFragment, Duplicate, GiveBackHeld, NotDuplicate, Fill, others, lockVars,
         packVars, vars
  <2>2. QED BY <2>1, StagedSame DEF PackInv
<1>4. QED BY <1>1, <1>2, <1>3, NextCases

(* A fragment buffer in use stays hashed where it is.                      *)
LEMMA FragIndexKept ==
  ASSUME UseInv, [Next]_vars, NEW b \in FragmentBuffers, fragment_buffer.used[b] # 0
  PROVE  fragment_buffer'.index[b] = fragment_buffer.index[b]
<1>1. /\ CacheTyped(fragment_buffer, FragmentBuffers, Frags)
      /\ fragment_buffer.index \in [FragmentBuffers -> Frags \cup {NoIndex}]
  BY CachesAre DEF UseInv, Typed, CachesKept, CacheKept
<1>2. ASSUME NEW a \in Gettable(fragment_buffer, first_freelist), NEW f \in Frags,
             fragment_buffer' = Get(fragment_buffer, a, f)
      PROVE  fragment_buffer'.index[b] = fragment_buffer.index[b]
  <2>1. a \in FragmentBuffers /\ fragment_buffer.used[a] = 0
    BY BufferGot DEF UseInv
  <2>2. fragment_buffer'.index = [fragment_buffer.index EXCEPT ![a] = f]
    BY <1>2, <2>1, FragGot
  <2>3. QED BY <1>1, <2>1, <2>2
<1>3. ASSUME NEW a, \/ fragment_buffer' = Put(fragment_buffer, a)
                    \/ fragment_buffer' = Put(Lookup(fragment_buffer, a), a)
      PROVE  fragment_buffer'.index = fragment_buffer.index
  BY <1>1, <1>3, IndexSame
<1>4. CASE GetFragmentBuffer
  <2>1. PICK f \in Frags : f = main.fetch.frag
    BY <1>4 DEF GetFragmentBuffer, UseInv, MainShape
  <2>2. PICK a \in Gettable(fragment_buffer, first_freelist) :
          fragment_buffer' = Get(fragment_buffer, a, f)
    BY <1>4, <2>1 DEF GetFragmentBuffer
  <2>3. QED BY <1>2, <2>2
<1>5. CASE Fill
  <2>1. CASE main.tail
    <3>1. fragments \in Frags
      BY <1>5, <2>1 DEF Fill, UseInv, Typed, OutputTyped, Frags
    <3>2. PICK a \in Gettable(fragment_buffer, first_freelist) :
            fragment_buffer' = Get(fragment_buffer, a, fragments)
      BY <1>5, <2>1 DEF Fill
    <3>3. QED BY <1>2, <3>1, <3>2
  <2>2. CASE ~main.tail
    BY <1>5, <2>2 DEF Fill
  <2>3. QED BY <2>1, <2>2
<1>6. CASE GetFragment
  <2>1. UNCHANGED fragment_buffer
        \/ \E a : fragment_buffer' = Put(Lookup(fragment_buffer, a), a)
    BY <1>6 DEF GetFragment
  <2>2. QED BY <1>3, <2>1
<1>7. CASE ReadFragment
  <2>1. UNCHANGED fragment_buffer \/ \E a : fragment_buffer' = Put(fragment_buffer, a)
    BY <1>7 DEF ReadFragment
  <2>2. QED BY <1>3, <2>1
<1>8. ASSUME NEW d \in FragDeflators, SettleFragment(d) \/ AddPendingFragment(d)
      PROVE  fragment_buffer'.index = fragment_buffer.index
  <2>1. UNCHANGED fragment_buffer \/ \E a : fragment_buffer' = Put(fragment_buffer, a)
    BY <1>8 DEF SettleFragment, AddPendingFragment
  <2>2. QED BY <1>3, <2>1
<1>9. CASE \/ Compress \/ Write \/ (\E d \in FragDeflators : CompressFragment(d))
           \/ StartFile \/ (\E a \in Ready, size \in Sizes : PlaceBlock(a, size))
           \/ FileRead \/ ReadError \/ Truncate \/ UnlockOne \/ UnlockDone \/ WriteFileFrag
           \/ CompareBlock \/ Duplicate \/ NotDuplicate \/ WriteFragment \/ UNCHANGED vars
  <2>1. UNCHANGED fragment_buffer
    BY Zenon, <1>9 DEF Compress, Write, CompressFragment, StartFile, PlaceBlock, FileRead,
         ReadError, GiveBack, Truncate, UnlockOne, UnlockDone, WriteFileFrag, CompareBlock,
         Duplicate, GiveBackHeld, NotDuplicate, WriteFragment, vars
  <2>2. QED BY <2>1
<1>10. QED BY <1>4, <1>5, <1>6, <1>7, <1>8, <1>9, NextCases

-----------------------------------------------------------------------------
(* The fragment buffers that hold fragments are in use.                    *)
LEMMA FillUsed ==
  ASSUME UseInv
  PROVE  /\ \A p \in Range(to_frag) : /\ p \in Filled /\ p.frag \in Frags
                                      /\ p.from \in FragmentBuffers
                                      /\ fragment_buffer.used[p.from] # 0
         /\ fragment_data # NoBuffer => /\ fragment_data \in FragmentBuffers
                                        /\ fragment_buffer.used[fragment_data] # 0
         /\ fragments \in Nat
<1>1. /\ to_frag \in Seq(Filled) /\ fragment_data \in FragmentBuffers \cup {NoBuffer}
      /\ fragments \in Nat
  BY DEF UseInv, Typed, QueuesTyped, OutputTyped
<1>2. ASSUME NEW p \in Range(to_frag)
      PROVE  /\ p \in Filled /\ p.frag \in Frags /\ p.from \in FragmentBuffers
             /\ fragment_buffer.used[p.from] # 0
  <2>1. p \in Filled
    BY <1>1 DEF Range
  <2>2. p.frag \in Frags /\ p.from \in FragmentBuffers
    BY <2>1 DEF Filled
  <2>3. PICK b \in FragmentBuffers : b = p.from
    BY <2>2
  <2>4. PICK n \in Nat : n = CountIn(to_frag, FilledFrom(b))
    BY FragSum
  <2>5. PICK k \in Nat : k = Deflating(b, "from")
    BY FragSum
  <2>6. fragment_buffer.used[b] = (IF fragment_data = b THEN 1 ELSE 0)
          + (IF main.fetch.buffer = b THEN 1 ELSE 0) + k + n
    BY <2>4, <2>5, FragSum
  <2>7. n # 0
    <3>1. p \in FilledFrom(b)
      BY <2>1, <2>3 DEF FilledFrom
    <3>2. QED BY <1>1, <2>4, <3>1, CountNone
  <2>8. fragment_buffer.used[b] # 0
    BY <2>6, <2>7
  <2>9. QED BY <2>1, <2>2, <2>3, <2>8
<1>3. ASSUME fragment_data # NoBuffer
      PROVE  fragment_data \in FragmentBuffers /\ fragment_buffer.used[fragment_data] # 0
  <2>1. PICK b \in FragmentBuffers : b = fragment_data
    BY <1>1, <1>3
  <2>2. PICK n \in Nat : n = CountIn(to_frag, FilledFrom(b))
    BY FragSum
  <2>3. PICK k \in Nat : k = Deflating(b, "from")
    BY FragSum
  <2>4. fragment_buffer.used[b] = 1 + (IF main.fetch.buffer = b THEN 1 ELSE 0) + k + n
    BY <2>1, <2>2, <2>3, FragSum
  <2>5. fragment_buffer.used[b] # 0
    BY <2>4
  <2>6. QED BY <2>1, <2>5
<1>4. QED BY <1>1, <1>2, <1>3

LEMMA FillHashedStep ==
  ASSUME UseInv, FillHashed, [Next]_vars
  PROVE  FillHashed'
<1>1. /\ \A p \in Range(to_frag) : fragment_buffer'.index[p.from] = p.frag
      /\ fragment_data # NoBuffer => fragment_buffer'.index[fragment_data] = fragments
  BY FillUsed, FragIndexKept DEF FillHashed
<1>2. CASE WriteFragment
  <2>1. /\ fragment_data # NoBuffer /\ fragment_data' = NoBuffer /\ UNCHANGED files
        /\ fragments' = fragments + 1
        /\ to_frag' = Append(to_frag, [frag |-> fragments, from |-> fragment_data])
    BY <1>2 DEF WriteFragment
  <2>2. PICK q : q = [frag |-> fragments, from |-> fragment_data]
    OBVIOUS
  <2>3. q \in Filled
    BY <2>1, <2>2 DEF UseInv, MainShape, Typed, OutputTyped, Filled, Frags
  <2>4. Range(to_frag') = Range(to_frag) \cup {q}
    BY <2>1, <2>2, <2>3, AppendOnce DEF UseInv, Typed, QueuesTyped
  <2>5. fragment_buffer'.index[q.from] = q.frag
    BY <1>1, <2>1, <2>2
  <2>6. \A p \in Range(to_frag') : fragment_buffer'.index[p.from] = p.frag
    BY <1>1, <2>4, <2>5
  <2>7. ASSUME NEW i \in DOMAIN files
        PROVE  files[i].frag = NoFragment \/ files[i].frag < fragments + 1
    <3>1. \/ files[i].frag = NoFragment \/ files[i].frag < fragments
          \/ files[i].frag = fragments
      BY DEF FillHashed
    <3>2. files[i].frag \in Frags \cup {NoFragment}
      <4>1. files[i] \in Files
        BY DEF UseInv, Typed, OutputTyped
      <4>2. QED BY <4>1 DEF Files
    <3>3. \A f \in Frags : f \in Nat
      BY IndexesAre
    <3>4. QED BY <3>1, <3>2, <3>3, FillUsed
  <2>8. QED BY <2>1, <2>6, <2>7 DEF FillHashed
<1>3. CASE Fill
  <2>1. PICK r : files' = Append(files, r) /\ r \in Files
                 /\ r.frag = IF main.tail THEN fragments ELSE NoFragment
    <3>1. main.tail => fragments \in Frags
      BY <1>3 DEF Fill, UseInv, Typed, OutputTyped, Frags
    <3>2. main.list \in Seq(Extents)
      BY MainFields DEF UseInv, Typed
    <3>3. PICK g : g = IF main.tail THEN fragments ELSE NoFragment
      OBVIOUS
    <3>4. PICK r : r = [list |-> main.list, frag |-> g]
      OBVIOUS
    <3>5. r \in Files /\ r.frag = g
      BY <3>1, <3>2, <3>3, <3>4 DEF Files
    <3>6. files' = Append(files, r)
      BY <1>3, <3>3, <3>4 DEF Fill
    <3>7. QED BY <3>3, <3>5, <3>6
  <2>2. /\ to_frag' = to_frag /\ fragments' = fragments
        /\ main.tail => fragment_data = NoBuffer /\ fragments < MaxFragments
        /\ ~main.tail => fragment_data' = fragment_data
    BY <1>3 DEF Fill
  <2>3. main.tail => fragment_data' # NoBuffer /\ fragment_buffer'.index[fragment_data'] = fragments
    <3>1. SUFFICES ASSUME main.tail
                   PROVE  /\ fragment_data' # NoBuffer
                          /\ fragment_buffer'.index[fragment_data'] = fragments
      OBVIOUS
    <3>2. PICK a \in Gettable(fragment_buffer, first_freelist) :
            /\ fragment_buffer' = Get(fragment_buffer, a, fragments)
            /\ fragment_data' = a
      BY <1>3, <3>1 DEF Fill
    <3>3. fragments \in Frags
      BY <2>2, <3>1 DEF UseInv, Typed, OutputTyped, Frags
    <3>4. a \in FragmentBuffers /\ fragment_buffer.used[a] = 0
      BY BufferGot DEF UseInv
    <3>5. fragment_buffer'.index = [fragment_buffer.index EXCEPT ![a] = fragments]
      BY <3>2, <3>3, <3>4, FragGot
    <3>6. fragment_buffer.index \in [FragmentBuffers -> Frags \cup {NoIndex}]
      BY CachesAre DEF UseInv, Typed
    <3>7. QED BY <3>2, <3>4, <3>5, <3>6
  <2>4. fragment_data' # NoBuffer => fragment_buffer'.index[fragment_data'] = fragments'
    BY <1>1, <2>2, <2>3
  <2>5. ASSUME NEW i \in DOMAIN files'
        PROVE  \/ files'[i].frag = NoFragment \/ files'[i].frag < fragments
               \/ files'[i].frag = fragments /\ fragment_data' # NoBuffer
    <3>1. /\ Len(files) \in Nat /\ DOMAIN files' = 1 .. Len(files) + 1
          /\ \A j \in 1 .. Len(files) : files'[j] = files[j]
          /\ files'[Len(files) + 1] = r
      BY <2>1 DEF UseInv, Typed, OutputTyped
    <3>2. CASE i = Len(files) + 1
      BY <2>1, <2>2, <2>3, <3>1, <3>2
    <3>3. CASE i # Len(files) + 1
      <4>1. i \in 1 .. Len(files) /\ DOMAIN files = 1 .. Len(files)
        BY <3>1, <3>3 DEF UseInv, Typed, OutputTyped
      <4>2. \/ files[i].frag = NoFragment \/ files[i].frag < fragments
            \/ files[i].frag = fragments /\ fragment_data # NoBuffer
        BY <4>1 DEF FillHashed
      <4>3. QED BY <2>2, <2>3, <3>1, <4>1, <4>2
    <3>4. QED BY <3>2, <3>3
  <2>6. QED BY <1>1, <2>2, <2>4, <2>5 DEF FillHashed
<1>4. CASE \E d \in FragDeflators : CompressFragment(d)
  <2>1. /\ to_frag # <<>> /\ to_frag' = Tail(to_frag)
        /\ UNCHANGED <<fragments, fragment_data, files>>
    BY <1>4 DEF CompressFragment, packVars
  <2>2. Range(to_frag') \subseteq Range(to_frag)
    BY <2>1, TailIn DEF UseInv, Typed, QueuesTyped
  <2>3. QED BY <1>1, <2>1, <2>2 DEF FillHashed
<1>5. CASE \/ Compress \/ Write
           \/ (\E d \in FragDeflators : SettleFragment(d) \/ AddPendingFragment(d))
           \/ StartFile \/ (\E a \in Ready, size \in Sizes : PlaceBlock(a, size))
           \/ FileRead \/ ReadError \/ Truncate \/ UnlockOne \/ UnlockDone \/ WriteFileFrag
           \/ CompareBlock \/ GetFragment \/ GetFragmentBuffer \/ ReadFragment
           \/ Duplicate \/ NotDuplicate \/ UNCHANGED vars
  <2>1. UNCHANGED <<to_frag, fragments, fragment_data, files>>
    BY Zenon, <1>5 DEF Compress, Write, SettleFragment, AddPendingFragment, StartFile, PlaceBlock,
         FileRead, ReadError, GiveBack, Truncate, UnlockOne, UnlockDone, WriteFileFrag,
         CompareBlock, GetFragment, GetFragmentBuffer, ReadFragment, Duplicate,
         GiveBackHeld, NotDuplicate, others, packVars, vars
  <2>2. QED BY <1>1, <2>1 DEF FillHashed
<1>6. QED BY <1>2, <1>3, <1>4, <1>5, NextCases

-----------------------------------------------------------------------------
(* A writer buffer somebody has stays hashed where it is, unless main gives *)
(* it its place.                                                           *)
LEMMA WriterCases ==
  ASSUME [Next]_vars
  PROVE  \/ Keeping \/ Compress \/ \E d \in FragDeflators : CompressFragment(d)
         \/ \E b \in Ready, size \in Sizes : PlaceBlock(b, size)
BY NextCases DEF Keeping

LEMMA CompressIs ==
  ASSUME UseInv, Compress
  PROVE  \E a \in Gettable(writer_buffer, first_freelist) :
           /\ a \in Buffers /\ writer_buffer.used[a] = 0
           /\ writer_buffer' = Get(writer_buffer, a, NoIndex)
           /\ writer_buffer'.index = [writer_buffer.index EXCEPT ![a] = NoIndex]
           /\ data' = [data EXCEPT ![a] = Nothing]
<1>1. PICK a \in Gettable(writer_buffer, first_freelist) :
        /\ writer_buffer' = Get(writer_buffer, a, NoIndex)
        /\ data' = [data EXCEPT ![a] = Nothing]
  BY DEF Compress
<1>2. a \in Buffers /\ writer_buffer.used[a] = 0
  BY BufferGot DEF UseInv
<1>3. writer_buffer'.index = [writer_buffer.index EXCEPT ![a] = NoIndex]
  BY <1>1, <1>2, WriterGot
<1>4. QED BY <1>1, <1>2, <1>3

LEMMA CompressFragmentIs ==
  ASSUME UseInv, PackInv, NEW d \in FragDeflators, CompressFragment(d)
  PROVE  \E a \in Gettable(writer_buffer, first_freelist), f \in Frags, e \in Extents :
           /\ a \in Buffers /\ writer_buffer.used[a] = 0
           /\ to_frag # <<>> /\ f = Head(to_frag).frag /\ FragIndex + f \in Indexes
           /\ writer_buffer' = Get(writer_buffer, a, FragIndex + f)
           /\ writer_buffer'.index = [writer_buffer.index EXCEPT ![a] = FragIndex + f]
           /\ e.owner = FragOf(f) /\ e.size > 0
           /\ data' = [data EXCEPT ![a] = e]
           /\ frag_deflator'[d].frag = f /\ frag_deflator'[d].to = a
           /\ \A g \in FragDeflators : g # d => frag_deflator'[g] = frag_deflator[g]
<1>1. to_frag # <<>>
  BY DEF CompressFragment
<1>2. PICK f \in Frags : f = Head(to_frag).frag
  BY <1>1, FirstFillIs
<1>3. PICK h : h = Head(to_frag).from
  OBVIOUS
<1>4. PICK a \in Gettable(writer_buffer, first_freelist), size \in Sizes :
        /\ writer_buffer' = Get(writer_buffer, a, FragIndex + f)
        /\ data' = [data EXCEPT ![a] = Extent(FragOf(f), 0, size)]
        /\ frag_deflator' = [frag_deflator EXCEPT ![d] =
             [state |-> "settle", frag |-> f, from |-> h, to |-> a, size |-> size]]
  BY <1>2, <1>3 DEF CompressFragment
<1>5. a \in Buffers /\ writer_buffer.used[a] = 0
  BY BufferGot DEF UseInv
<1>6. FragIndex + f \in Indexes
  BY IndexesAre
<1>7. writer_buffer'.index = [writer_buffer.index EXCEPT ![a] = FragIndex + f]
  BY <1>4, <1>5, <1>6, WriterGot
<1>8. PICK e : e = Extent(FragOf(f), 0, size)
  OBVIOUS
<1>9. e \in Extents /\ e.owner = FragOf(f) /\ e.size > 0
  <2>1. size \in Nat /\ size > 0
    BY <1>4
  <2>2. FragOf(f) \in Owners
    BY DEF Owners
  <2>3. QED BY <1>8, <2>1, <2>2 DEF Extent, Extents
<1>10. /\ frag_deflator'[d].frag = f /\ frag_deflator'[d].to = a
       /\ \A g \in FragDeflators : g # d => frag_deflator'[g] = frag_deflator[g]
  BY <1>4 DEF UseInv, Typed, QueuesTyped
<1>11. QED BY <1>1, <1>2, <1>4, <1>5, <1>6, <1>7, <1>8, <1>9, <1>10

LEMMA PlaceBlockIs ==
  ASSUME UseInv, NEW b \in Ready, NEW size \in Sizes, PlaceBlock(b, size)
  PROVE  \E e \in Extents, n \in {bytes} :
           /\ b \in Buffers /\ writer_buffer.used[b] # 0 /\ writer_buffer.index[b] = NoIndex
           /\ n \in Indexes /\ n \in 0 .. MaxBytes /\ bytes' = n + e.size
           /\ writer_buffer' = Rehash(writer_buffer, b, n)
           /\ writer_buffer'.index = [writer_buffer.index EXCEPT ![b] = n]
           /\ e = Extent(BlockOf(main.id, Len(main.list) + 1), bytes, size)
           /\ e.pos = n /\ e.size > 0 /\ e.size \in Nat
           /\ data' = [data EXCEPT ![b] = e]
           /\ main'.list = Append(main.list, e)
           /\ \/ main'.held = Append(main.held, b) /\ to_writer' = to_writer
              \/ main'.held = main.held /\ to_writer' = Append(to_writer, b)
           /\ main'.pc = main.pc /\ main'.mode = main.mode /\ main'.start = main.start
           /\ main'.fetch = main.fetch
           /\ main.pc = "file"
<1>1. bytes \in 0 .. MaxBytes /\ main \in Mains /\ main.list \in Seq(Extents) /\ main.id \in Nat
  BY MainFields DEF UseInv, Typed, OutputTyped, MainTyped
<1>2. PICK n \in {bytes} : n \in 0 .. MaxBytes /\ n \in Indexes
  BY <1>1, IndexesAre
<1>3. b \in Buffers /\ writer_buffer.used[b] # 0 /\ writer_buffer.index[b] = NoIndex
  BY CachesAre DEF UseInv, Typed, Ready
<1>4. PICK e : e = Extent(BlockOf(main.id, Len(main.list) + 1), bytes, size)
  OBVIOUS
<1>5. e \in Extents /\ e.pos = n /\ e.size > 0 /\ e.size \in Nat /\ e.size = size
  <2>1. size \in Nat /\ size > 0 /\ Len(main.list) + 1 \in Nat
    BY <1>1
  <2>2. BlockOf(main.id, Len(main.list) + 1) \in Owners
    BY <1>1, <2>1 DEF Owners
  <2>3. QED BY <1>2, <1>4, <2>1, <2>2 DEF Extent, Extents
<1>6. /\ data' = [data EXCEPT ![b] = e] /\ bytes' = n + e.size
      /\ writer_buffer' = Rehash(writer_buffer, b, n)
      /\ main.pc = "file"
  BY <1>2, <1>4, <1>5 DEF PlaceBlock
<1>7. writer_buffer'.index = [writer_buffer.index EXCEPT ![b] = n]
  <2>1. CacheKept(writer_buffer, Buffers, Indexes)
    BY DEF UseInv, Typed, CachesKept
  <2>2. NoIndex \notin Indexes
    BY IndexesAre
  <2>3. n \in Indexes
    BY <1>2
  <2>4. b \in Buffers
    BY <1>3
  <2>5. writer_buffer.used[b] # 0
    BY <1>3
  <2>6. /\ CacheKept(Rehash(writer_buffer, b, n), Buffers, Indexes)
        /\ Rehash(writer_buffer, b, n).used = writer_buffer.used
        /\ Rehash(writer_buffer, b, n).index = [writer_buffer.index EXCEPT ![b] = n]
    BY <2>1, <2>2, <2>3, <2>4, <2>5, RehashKept
  <2>7. QED BY <1>6, <2>6
<1>8. /\ main'.list = Append(main.list, e)
      /\ \/ main'.held = Append(main.held, b) /\ to_writer' = to_writer
         \/ main'.held = main.held /\ to_writer' = Append(to_writer, b)
      /\ main'.pc = main.pc /\ main'.mode = main.mode /\ main'.start = main.start
      /\ main'.fetch = main.fetch
  <2>1. PICK h \in BOOLEAN : h = (main.mode = "dup" /\ Len(main.list) + 1 > main.thresh)
    OBVIOUS
  <2>2. /\ main' = [main EXCEPT !.list = Append(@, e),
                                !.held = IF h THEN Append(@, b) ELSE @]
        /\ to_writer' = IF h THEN to_writer ELSE Append(to_writer, b)
    BY <1>4, <2>1 DEF PlaceBlock
  <2>3. QED BY <1>1, <2>2 DEF Mains
<1>9. QED BY <1>2, <1>3, <1>4, <1>5, <1>6, <1>7, <1>8

LEMMA KeepingIndex ==
  ASSUME UseInv, Keeping
  PROVE  writer_buffer'.index = writer_buffer.index
BY WriterKept DEF KeptBut

LEMMA WriterIndexKept ==
  ASSUME UseInv, PackInv, [Next]_vars, NEW b \in Buffers, writer_buffer.used[b] # 0, b \notin Ready
  PROVE  writer_buffer'.index[b] = writer_buffer.index[b]
<1>1. writer_buffer.index \in [Buffers -> Indexes \cup {NoIndex}]
  BY CachesAre DEF UseInv, Typed
<1>2. CASE Keeping
  BY <1>2, KeepingIndex
<1>3. CASE Compress
  BY <1>1, <1>3, CompressIs
<1>4. ASSUME NEW d \in FragDeflators, CompressFragment(d)
      PROVE  writer_buffer'.index[b] = writer_buffer.index[b]
  BY <1>1, <1>4, CompressFragmentIs
<1>5. ASSUME NEW a \in Ready, NEW size \in Sizes, PlaceBlock(a, size)
      PROVE  writer_buffer'.index[b] = writer_buffer.index[b]
  <2>1. PICK e \in Extents, n \in {bytes} :
          n \in Indexes /\ writer_buffer'.index = [writer_buffer.index EXCEPT ![a] = n]
    BY <1>5, PlaceBlockIs
  <2>2. QED BY <1>1, <1>5, <2>1
<1>6. QED BY <1>2, <1>3, <1>4, <1>5, WriterCases

LEMMA FragHashedStep ==
  ASSUME UseInv, PackInv, [Next]_vars
  PROVE  FragHashed'
<1>1. ASSUME NEW d \in FragDeflators, frag_deflator[d] # IdleDeflator
      PROVE  /\ frag_deflator[d].to \in Buffers
             /\ writer_buffer'.index[frag_deflator[d].to] = FragIndex + frag_deflator[d].frag
  <2>1. PICK b \in Buffers : b = frag_deflator[d].to
    BY <1>1, WorkIs
  <2>2. InDeflator(b)
    BY <2>1 DEF InDeflator
  <2>3. writer_buffer.used[b] # 0 /\ b \notin Ready
    BY <2>2, OneHas
  <2>4. writer_buffer'.index[b] = writer_buffer.index[b]
    BY <2>3, WriterIndexKept
  <2>5. QED BY <1>1, <2>1, <2>4, WorkIs
<1>2. ASSUME NEW p \in Range(frag_locked_list)
      PROVE  writer_buffer'.index[p.buffer] = FragIndex + p.frag
  <2>1. p \in Pending
    BY DEF UseInv, Typed, QueuesTyped, Range
  <2>2. PICK b \in Buffers : b = p.buffer
    BY <2>1 DEF Pending
  <2>3. InLocked(b)
    BY <2>2 DEF InLocked
  <2>4. writer_buffer.used[b] # 0 /\ b \notin Ready
    BY <2>3, OneHas
  <2>5. writer_buffer'.index[b] = writer_buffer.index[b]
    BY <2>4, WriterIndexKept
  <2>6. QED BY <2>2, <2>5 DEF PackInv, FragHashed
<1>3. ASSUME NEW d \in FragDeflators, CompressFragment(d) PROVE FragHashed'
  <2>1. PICK a \in Gettable(writer_buffer, first_freelist), f \in Frags :
          /\ a \in Buffers
          /\ writer_buffer'.index = [writer_buffer.index EXCEPT ![a] = FragIndex + f]
          /\ frag_deflator'[d].frag = f /\ frag_deflator'[d].to = a
          /\ \A g \in FragDeflators : g # d => frag_deflator'[g] = frag_deflator[g]
    BY <1>3, CompressFragmentIs
  <2>2. writer_buffer'.index[a] = FragIndex + f
    BY <2>1, CachesAre DEF UseInv, Typed
  <2>3. frag_locked_list' = frag_locked_list
    BY <1>3 DEF CompressFragment, lockVars
  <2>4. \A g \in FragDeflators : frag_deflator'[g] # IdleDeflator =>
          writer_buffer'.index[frag_deflator'[g].to] = FragIndex + frag_deflator'[g].frag
    BY <1>1, <2>1, <2>2
  <2>5. QED BY <1>2, <2>3, <2>4 DEF FragHashed
<1>4. ASSUME NEW d \in FragDeflators, SettleFragment(d) PROVE FragHashed'
  <2>1. /\ frag_locked_list' = frag_locked_list /\ frag_deflator[d] # IdleDeflator
        /\ \/ frag_deflator' = [frag_deflator EXCEPT ![d] = IdleDeflator]
           \/ frag_deflator' = [frag_deflator EXCEPT ![d].state = "pend"]
    BY <1>4 DEF SettleFragment, IdleDeflator, lockVars
  <2>2. \A g \in FragDeflators : g # d => frag_deflator'[g] = frag_deflator[g]
    BY <2>1 DEF UseInv, Typed, QueuesTyped
  <2>3. frag_deflator'[d] # IdleDeflator =>
          /\ frag_deflator'[d].to = frag_deflator[d].to
          /\ frag_deflator'[d].frag = frag_deflator[d].frag
    <3>1. PICK g : g = frag_deflator[d]
      OBVIOUS
    <3>2. g \in Working
      BY <2>1, <3>1, WorkingIs DEF UseInv, Typed
    <3>3. frag_deflator'[d] = IdleDeflator \/ frag_deflator'[d] = [g EXCEPT !.state = "pend"]
      BY <2>1, <3>1 DEF UseInv, Typed, QueuesTyped
    <3>4. QED BY <3>1, <3>2, <3>3 DEF Working
  <2>4. \A g \in FragDeflators : frag_deflator'[g] # IdleDeflator =>
          writer_buffer'.index[frag_deflator'[g].to] = FragIndex + frag_deflator'[g].frag
    BY <1>1, <2>1, <2>2, <2>3
  <2>5. QED BY <1>2, <2>1, <2>4 DEF FragHashed
<1>5. ASSUME NEW d \in FragDeflators, AddPendingFragment(d) PROVE FragHashed'
  <2>1. /\ frag_deflator[d] # IdleDeflator
        /\ frag_deflator' = [frag_deflator EXCEPT ![d] = IdleDeflator]
    BY <1>5 DEF AddPendingFragment, IdleDeflator
  <2>2. PICK q : q = [frag |-> frag_deflator[d].frag, buffer |-> frag_deflator[d].to]
    OBVIOUS
  <2>3. q \in Pending /\ frag_locked_list' = Append(frag_locked_list, q)
    BY <1>5, <2>1, <2>2, WorkIs DEF Pending, AddPendingFragment
  <2>4. Range(frag_locked_list') = Range(frag_locked_list) \cup {q}
    BY <2>3, AppendOnce DEF UseInv, Typed, QueuesTyped
  <2>5. writer_buffer'.index[q.buffer] = FragIndex + q.frag
    BY <1>1, <2>1, <2>2
  <2>6. \A g \in FragDeflators : frag_deflator'[g] # IdleDeflator =>
          frag_deflator'[g] = frag_deflator[g]
    BY <2>1 DEF UseInv, Typed, QueuesTyped
  <2>7. QED BY <1>1, <1>2, <2>4, <2>5, <2>6 DEF FragHashed
<1>6. CASE UnlockOne
  <2>1. /\ frag_locked_list # <<>> /\ frag_locked_list' = Tail(frag_locked_list)
        /\ frag_deflator' = frag_deflator
    BY <1>6 DEF UnlockOne
  <2>2. Range(frag_locked_list') \subseteq Range(frag_locked_list)
    BY <2>1, FirstLockedIs
  <2>3. QED BY <1>1, <1>2, <2>1, <2>2 DEF FragHashed
<1>7. CASE \/ Compress \/ Write \/ StartFile
           \/ (\E b \in Ready, size \in Sizes : PlaceBlock(b, size))
           \/ FileRead \/ ReadError \/ Truncate \/ UnlockDone \/ WriteFileFrag
           \/ CompareBlock \/ GetFragment \/ GetFragmentBuffer \/ ReadFragment
           \/ Duplicate \/ NotDuplicate \/ WriteFragment \/ Fill \/ UNCHANGED vars
  <2>1. UNCHANGED <<frag_deflator, frag_locked_list>>
    BY Zenon, <1>7 DEF Compress, Write, StartFile, PlaceBlock, FileRead, ReadError, GiveBack,
         Truncate, UnlockDone, WriteFileFrag, CompareBlock, GetFragment, GetFragmentBuffer,
         ReadFragment, Duplicate, GiveBackHeld, NotDuplicate, WriteFragment, Fill, others,
         lockVars, packVars, vars
  <2>2. QED BY <1>1, <1>2, <2>1 DEF FragHashed
<1>8. QED BY <1>3, <1>4, <1>5, <1>6, <1>7, NextCases

(* Indexes of fragments are those of no other fragment and of no block.    *)
LEMMA FragIndexes ==
  ASSUME NEW f \in Frags
  PROVE  /\ f \in Nat /\ FragIndex + f \in Indexes /\ FragIndex + f # NoIndex
         /\ \A n \in 0 .. MaxBytes : n # FragIndex + f
         /\ \A g \in Frags : FragIndex + f = FragIndex + g => f = g
<1>1. f \in Nat /\ FragIndex + f \in Indexes /\ NoIndex \notin Indexes
  BY IndexesAre
<1>2. \A g \in Frags : g \in Nat
  BY IndexesAre
<1>3. QED BY <1>1, <1>2

(* What is settled stays so.                                               *)
LEMMA PlacesIs ==
  ASSUME UseInv, PackInv,
         (\E d \in FragDeflators : SettleFragment(d) /\ ~fragments_locked) \/ UnlockOne
  PROVE  \E w \in Frags, b \in Buffers, e \in Extents :
           /\ writer_buffer.index[b] = FragIndex + w /\ w \notin Placed
           /\ b \notin Range(to_writer) /\ b \notin Range(main.held)
           /\ e.owner = FragOf(w) /\ e.pos = bytes /\ e.size = data[b].size /\ e.size > 0
           /\ e # NoEntry /\ bytes' = End(e) /\ bytes' \in 0 .. MaxBytes /\ bytes \in Nat
           /\ data' = [data EXCEPT ![b] = e]
           /\ fragment_table' = [fragment_table EXCEPT ![w] = e]
           /\ Placed' = Placed \cup {w}
           /\ to_writer' = Append(to_writer, b)
           /\ UNCHANGED <<writer_buffer, main, files, disk, fragments, to_frag,
                          fragments_locked>>
           /\ ~fragments_locked \/ main.pc = "unlock"
<1>1. ASSUME NEW d \in FragDeflators, SettleFragment(d), ~fragments_locked
      PROVE  \E w \in Frags, b \in Buffers :
               /\ writer_buffer.index[b] = FragIndex + w /\ w \notin Placed
               /\ InDeflator(b) \/ InLocked(b)
               /\ PlaceFragment(w, b)
               /\ UNCHANGED <<writer_buffer, main, files, disk, fragments, to_frag,
                              fragments_locked>>
               /\ ~fragments_locked \/ main.pc = "unlock"
  <2>1. frag_deflator[d] # IdleDeflator
    BY <1>1 DEF SettleFragment, IdleDeflator
  <2>2. PICK w \in Frags : w = frag_deflator[d].frag
    BY <2>1, WorkIs
  <2>3. PICK b \in Buffers : b = frag_deflator[d].to
    BY <2>1, WorkIs
  <2>4. writer_buffer.index[b] = FragIndex + w /\ w \notin Placed
    BY <2>1, <2>2, <2>3, WorkIs
  <2>5. InDeflator(b)
    BY <2>3 DEF InDeflator
  <2>6. PlaceFragment(w, b)
    BY <1>1, <2>2, <2>3 DEF SettleFragment
  <2>7. UNCHANGED <<writer_buffer, main, files, disk, fragments, to_frag, fragments_locked>>
    BY <1>1 DEF SettleFragment, packVars, lockVars
  <2>8. QED BY <1>1, <2>4, <2>5, <2>6, <2>7
<1>2. ASSUME UnlockOne
      PROVE  \E w \in Frags, b \in Buffers :
               /\ writer_buffer.index[b] = FragIndex + w /\ w \notin Placed
               /\ InDeflator(b) \/ InLocked(b)
               /\ PlaceFragment(w, b)
               /\ UNCHANGED <<writer_buffer, main, files, disk, fragments, to_frag,
                              fragments_locked>>
               /\ ~fragments_locked \/ main.pc = "unlock"
  <2>1. frag_locked_list # <<>> /\ main.pc = "unlock"
    BY <1>2 DEF UnlockOne
  <2>2. PICK w \in Frags : w = Head(frag_locked_list).frag
    BY <2>1, FirstLockedIs
  <2>3. PICK b \in Buffers : b = Head(frag_locked_list).buffer
    BY <2>1, FirstLockedIs
  <2>4. writer_buffer.index[b] = FragIndex + w /\ w \notin Placed
        /\ Head(frag_locked_list) \in Range(frag_locked_list)
    BY <2>1, <2>2, <2>3, FirstLockedIs
  <2>5. InLocked(b)
    BY <2>3, <2>4 DEF InLocked
  <2>6. PlaceFragment(w, b)
    BY <1>2, <2>2, <2>3 DEF UnlockOne
  <2>7. UNCHANGED <<writer_buffer, main, files, disk, fragments, to_frag, fragments_locked>>
    BY <1>2 DEF UnlockOne, packVars
  <2>8. QED BY <2>1, <2>4, <2>5, <2>6, <2>7
<1>3. PICK w \in Frags, b \in Buffers :
        /\ writer_buffer.index[b] = FragIndex + w /\ w \notin Placed
        /\ InDeflator(b) \/ InLocked(b)
        /\ PlaceFragment(w, b)
        /\ UNCHANGED <<writer_buffer, main, files, disk, fragments, to_frag,
                       fragments_locked>>
        /\ ~fragments_locked \/ main.pc = "unlock"
  BY <1>1, <1>2
<1>4. b \notin Range(to_writer) /\ b \notin Range(main.held)
  BY <1>3, OneHas
<1>5. PICK e \in Extents :
        /\ e.owner = FragOf(w) /\ e.pos = bytes /\ e.size = data[b].size /\ e.size > 0
        /\ e # NoEntry /\ bytes' = End(e) /\ bytes' \in 0 .. MaxBytes /\ bytes \in Nat
        /\ data' = [data EXCEPT ![b] = e]
        /\ fragment_table' = [fragment_table EXCEPT ![w] = e]
        /\ Placed' = Placed \cup {w}
        /\ to_writer' = Append(to_writer, b)
  BY <1>3, FragmentPlaced DEF PackInv
<1>6. QED BY <1>3, <1>4, <1>5

(* Every other step leaves the table and the output's end to main.         *)
LEMMA TableKept ==
  ASSUME [Next]_vars,
         ~((\E d \in FragDeflators : SettleFragment(d) /\ ~fragments_locked) \/ UnlockOne)
  PROVE  fragment_table' = fragment_table /\ Placed' = Placed
<1>1. CASE \E d \in FragDeflators : SettleFragment(d)
  BY <1>1 DEF SettleFragment, Placed
<1>2. CASE ~\E d \in FragDeflators : SettleFragment(d)
  <2>1. fragment_table' = fragment_table
    BY <1>2, NextCases DEF Compress, CompressFragment, AddPendingFragment, Write, StartFile,
         PlaceBlock, FileRead, ReadError, GiveBack, Truncate, UnlockDone, WriteFileFrag,
         CompareBlock, GetFragment, GetFragmentBuffer, ReadFragment, Duplicate,
         GiveBackHeld, NotDuplicate, WriteFragment, Fill, others, vars
  <2>2. QED BY <2>1 DEF Placed
<1>3. QED BY <1>1, <1>2

LEMMA PlacedGrows ==
  ASSUME UseInv, PackInv, [Next]_vars
  PROVE  Placed \subseteq Placed'
<1>1. CASE (\E d \in FragDeflators : SettleFragment(d) /\ ~fragments_locked) \/ UnlockOne
  BY <1>1, PlacesIs
<1>2. QED BY <1>1, TableKept

(* What is in the buffer hashed under a fragment.                          *)
LEMMA FragDataSame ==
  ASSUME FragData, writer_buffer'.index = writer_buffer.index,
         UNCHANGED <<data, fragments, to_frag, fragment_table>>
  PROVE  FragData'
<1>1. Placed' = Placed
  BY DEF Placed
<1>2. QED BY <1>1 DEF FragData

LEMMA FragDataStep ==
  ASSUME UseInv, PackInv, [Next]_vars
  PROVE  FragData'
<1>1. /\ writer_buffer.index \in [Buffers -> Indexes \cup {NoIndex}]
      /\ data \in [Buffers -> Extents] /\ to_frag \in Seq(Filled)
      /\ fragment_table \in [Frags -> Extents \cup {NoEntry}]
  BY CachesAre DEF UseInv, Typed, OutputTyped, QueuesTyped
<1>a. ASSUME NEW b \in Buffers, NEW f \in Frags, writer_buffer.index[b] = FragIndex + f
      PROVE  /\ data[b].owner = FragOf(f) /\ data[b].size > 0 /\ f < fragments
             /\ \A p \in Range(to_frag) : p.frag # f
             /\ f \in Placed => data[b] = fragment_table[f]
             /\ \A c \in Buffers : writer_buffer.index[c] = FragIndex + f => c = b
  BY <1>a DEF PackInv, FragData
<1>2. CASE Compress
  <2>1. PICK a \in Buffers : /\ writer_buffer'.index = [writer_buffer.index EXCEPT ![a] = NoIndex]
                             /\ data' = [data EXCEPT ![a] = Nothing]
    BY <1>2, CompressIs
  <2>2. UNCHANGED <<fragments, to_frag, fragment_table>>
    BY <1>2 DEF Compress, packVars
  <2>3. Placed' = Placed
    BY <2>2 DEF Placed
  <2>4. ASSUME NEW b \in Buffers, NEW f \in Frags, writer_buffer'.index[b] = FragIndex + f
        PROVE  /\ writer_buffer.index[b] = FragIndex + f /\ data'[b] = data[b]
    BY <1>1, <2>1, <2>4, FragIndexes
  <2>5. QED BY <1>a, <2>2, <2>3, <2>4 DEF FragData
<1>3. ASSUME NEW d \in FragDeflators, CompressFragment(d) PROVE FragData'
  <2>1. PICK a \in Gettable(writer_buffer, first_freelist), w \in Frags, e \in Extents :
          /\ a \in Buffers /\ to_frag # <<>> /\ w = Head(to_frag).frag
          /\ writer_buffer'.index = [writer_buffer.index EXCEPT ![a] = FragIndex + w]
          /\ e.owner = FragOf(w) /\ e.size > 0
          /\ data' = [data EXCEPT ![a] = e]
    BY <1>3, CompressFragmentIs
  <2>2. /\ w < fragments /\ w \notin Placed /\ InFill(w)
        /\ Range(to_frag') \subseteq Range(to_frag)
        /\ \A p \in Range(to_frag') : p.frag # w
    <3>1. to_frag' = Tail(to_frag)
      BY <1>3 DEF CompressFragment
    <3>2. QED BY <2>1, <3>1, FirstFillIs
  <2>3. UNCHANGED <<fragments, fragment_table>>
    BY <1>3 DEF CompressFragment, packVars
  <2>4. Placed' = Placed
    BY <2>3 DEF Placed
  <2>5. ASSUME NEW b \in Buffers, NEW f \in Frags, writer_buffer'.index[b] = FragIndex + f
        PROVE  \/ b = a /\ f = w /\ data'[b] = e
               \/ /\ f # w /\ b # a /\ writer_buffer.index[b] = FragIndex + f
                  /\ data'[b] = data[b]
    <3>1. CASE b = a
      <4>1. writer_buffer'.index[a] = FragIndex + w
        BY <1>1, <2>1
      <4>2. f = w
        BY <2>5, <3>1, <4>1, FragIndexes
      <4>3. QED BY <1>1, <2>1, <3>1, <4>2
    <3>2. CASE b # a
      <4>1. writer_buffer.index[b] = FragIndex + f /\ data'[b] = data[b]
        BY <1>1, <2>1, <2>5, <3>2
      <4>2. f # w
        BY <1>a, <2>2, <4>1 DEF InFill
      <4>3. QED BY <3>2, <4>1, <4>2
    <3>3. QED BY <3>1, <3>2
  <2>6. ASSUME NEW b \in Buffers, NEW f \in Frags, writer_buffer'.index[b] = FragIndex + f
        PROVE  /\ data'[b].owner = FragOf(f) /\ data'[b].size > 0 /\ f < fragments'
               /\ \A p \in Range(to_frag') : p.frag # f
               /\ f \in Placed' => data'[b] = fragment_table'[f]
               /\ \A c \in Buffers : writer_buffer'.index[c] = FragIndex + f => c = b
    <3>1. \A c \in Buffers : writer_buffer'.index[c] = FragIndex + f => c = b
      <4>1. ASSUME NEW c \in Buffers, writer_buffer'.index[c] = FragIndex + f PROVE c = b
        <5>1. \/ c = a /\ f = w
              \/ f # w /\ writer_buffer.index[c] = FragIndex + f
          BY <2>5, <4>1
        <5>2. \/ b = a /\ f = w
              \/ f # w /\ writer_buffer.index[b] = FragIndex + f
          BY <2>5, <2>6
        <5>3. QED BY <1>a, <5>1, <5>2
      <4>2. QED BY <4>1
    <3>2. CASE b = a /\ f = w /\ data'[b] = e
      BY <2>1, <2>2, <2>3, <2>4, <3>1, <3>2
    <3>3. CASE f # w /\ writer_buffer.index[b] = FragIndex + f /\ data'[b] = data[b]
      BY <1>a, <2>2, <2>3, <2>4, <3>1, <3>3
    <3>4. QED BY <2>5, <2>6, <3>2, <3>3
  <2>7. QED BY <2>6 DEF FragData
<1>4. CASE (\E d \in FragDeflators : SettleFragment(d) /\ ~fragments_locked) \/ UnlockOne
  <2>1. PICK w \in Frags, a \in Buffers, e \in Extents :
          /\ writer_buffer.index[a] = FragIndex + w
          /\ e.owner = FragOf(w) /\ e.size > 0
          /\ data' = [data EXCEPT ![a] = e]
          /\ fragment_table' = [fragment_table EXCEPT ![w] = e]
          /\ Placed' = Placed \cup {w}
          /\ UNCHANGED <<writer_buffer, fragments, to_frag>>
    BY <1>4, PlacesIs
  <2>2. ASSUME NEW b \in Buffers, NEW f \in Frags, writer_buffer.index[b] = FragIndex + f
        PROVE  /\ data'[b].owner = FragOf(f) /\ data'[b].size > 0
               /\ f \in Placed' => data'[b] = fragment_table'[f]
    <3>1. CASE b = a
      <4>1. f = w
        BY <2>1, <2>2, <3>1, FragIndexes
      <4>2. data'[b] = e /\ fragment_table'[f] = e
        BY <1>1, <2>1, <3>1, <4>1
      <4>3. QED BY <2>1, <4>1, <4>2
    <3>2. CASE b # a
      <4>1. f # w
        BY <1>a, <2>1, <2>2, <3>2
      <4>2. data'[b] = data[b] /\ fragment_table'[f] = fragment_table[f]
        BY <1>1, <2>1, <3>2, <4>1
      <4>3. QED BY <1>a, <2>1, <2>2, <4>1, <4>2
    <3>3. QED BY <3>1, <3>2
  <2>3. QED BY <1>a, <2>1, <2>2 DEF FragData
<1>5. ASSUME NEW a \in Ready, NEW size \in Sizes, PlaceBlock(a, size) PROVE FragData'
  <2>1. PICK e \in Extents, n \in {bytes} :
          /\ a \in Buffers /\ n \in 0 .. MaxBytes
          /\ writer_buffer'.index = [writer_buffer.index EXCEPT ![a] = n]
          /\ data' = [data EXCEPT ![a] = e]
    BY <1>5, PlaceBlockIs
  <2>2. UNCHANGED <<fragments, to_frag, fragment_table>>
    BY <1>5 DEF PlaceBlock, others, packVars
  <2>3. Placed' = Placed
    BY <2>2 DEF Placed
  <2>4. ASSUME NEW b \in Buffers, NEW f \in Frags, writer_buffer'.index[b] = FragIndex + f
        PROVE  /\ writer_buffer.index[b] = FragIndex + f /\ data'[b] = data[b]
    BY <1>1, <2>1, <2>4, FragIndexes
  <2>5. QED BY <1>a, <2>2, <2>3, <2>4 DEF FragData
<1>6. CASE WriteFragment
  <2>1. /\ UNCHANGED <<writer_buffer, data, fragment_table>>
        /\ fragments' = fragments + 1 /\ fragment_data # NoBuffer
        /\ to_frag' = Append(to_frag, [frag |-> fragments, from |-> fragment_data])
    BY <1>6 DEF WriteFragment
  <2>2. Placed' = Placed
    BY <2>1 DEF Placed
  <2>3. PICK q : q = [frag |-> fragments, from |-> fragment_data]
    OBVIOUS
  <2>4. q \in Filled /\ q.frag = fragments /\ fragments \in Nat
    BY <2>1, <2>3 DEF UseInv, MainShape, Typed, OutputTyped, Filled, Frags
  <2>5. Range(to_frag') = Range(to_frag) \cup {q}
    BY <1>1, <2>1, <2>3, <2>4, AppendOnce
  <2>6. ASSUME NEW f \in Frags, f < fragments PROVE f < fragments + 1 /\ f # q.frag
    BY <2>4, <2>6, FragIndexes
  <2>7. QED BY <1>a, <2>1, <2>2, <2>5, <2>6 DEF FragData
<1>7. CASE Keeping /\ ~((\E d \in FragDeflators : SettleFragment(d) /\ ~fragments_locked)
                        \/ UnlockOne \/ WriteFragment)
  <2>1. writer_buffer'.index = writer_buffer.index
    BY <1>7, KeepingIndex
  <2>2. UNCHANGED <<data, fragments, to_frag, fragment_table>>
    BY Zenon, <1>7 DEF Keeping, Write, SettleFragment, AddPendingFragment, StartFile, FileRead,
         ReadError, GiveBack, Truncate, UnlockDone, WriteFileFrag, CompareBlock, GetFragment,
         GetFragmentBuffer, ReadFragment, Duplicate, GiveBackHeld, NotDuplicate, Fill,
         others, packVars, vars
  <2>3. QED BY <2>1, <2>2, FragDataSame DEF PackInv
<1>8. QED BY <1>2, <1>3, <1>4, <1>5, <1>6, <1>7, WriterCases

-----------------------------------------------------------------------------
(* The fragment main fetches.                                              *)
LEMMA FetchSame ==
  ASSUME UseInv, PackInv, [Next]_vars,
         main'.fetch.frag = main.fetch.frag, main'.fetch.compressed = main.fetch.compressed,
         main'.pc \in {"get", "read"} => main.pc \in {"get", "read"}
  PROVE  FetchIs'
<1>1. /\ writer_buffer.index \in [Buffers -> Indexes \cup {NoIndex}]
      /\ main.fetch.compressed \in Buffers \cup {NoBuffer}
  BY CachesAre, MainFields DEF UseInv, Typed
<1>2. ASSUME main.fetch.compressed # NoBuffer
      PROVE  /\ main.fetch.frag \in Frags
             /\ writer_buffer'.index[main.fetch.compressed] = FragIndex + main.fetch.frag
  <2>1. PICK c \in Buffers : c = main.fetch.compressed
    BY <1>1, <1>2
  <2>2. main.fetch.frag \in Frags /\ writer_buffer.index[c] = FragIndex + main.fetch.frag
    BY <1>2, <2>1 DEF PackInv, FetchIs
  <2>3. writer_buffer.index[c] # NoIndex
    BY <2>2, FragIndexes
  <2>4. writer_buffer.used[c] # 0 /\ c \notin Ready
    BY <2>1, <2>3, OneHas DEF Ready
  <2>5. writer_buffer'.index[c] = writer_buffer.index[c]
    BY <2>4, WriterIndexKept
  <2>6. QED BY <2>1, <2>2, <2>5
<1>3. ASSUME main.pc \in {"get", "read"}, main.fetch.compressed = NoBuffer
      PROVE  /\ main.fetch.frag \in Placed'
             /\ \A b \in Buffers : writer_buffer'.index[b] # FragIndex + main.fetch.frag
  <2>1. PICK f \in Placed : f = main.fetch.frag
    BY <1>3 DEF PackInv, FetchIs
  <2>2. \A b \in Buffers : writer_buffer.index[b] # FragIndex + f
    BY <1>3, <2>1 DEF PackInv, FetchIs
  <2>3. f \in Frags /\ f \in Placed'
    BY <2>1, PlacedGrows DEF Placed
  <2>4. CASE Keeping
    BY <2>1, <2>2, <2>3, <2>4, KeepingIndex
  <2>5. CASE Compress
    <3>1. PICK a \in Buffers : writer_buffer'.index = [writer_buffer.index EXCEPT ![a] = NoIndex]
      BY <2>5, CompressIs
    <3>2. NoIndex # FragIndex + f
      BY <2>3, FragIndexes
    <3>3. QED BY <1>1, <2>1, <2>2, <2>3, <3>1, <3>2
  <2>6. ASSUME NEW d \in FragDeflators, CompressFragment(d)
        PROVE  \A b \in Buffers : writer_buffer'.index[b] # FragIndex + f
    <3>1. PICK a \in Gettable(writer_buffer, first_freelist), w \in Frags, e \in Extents :
            /\ a \in Buffers /\ to_frag # <<>> /\ w = Head(to_frag).frag
            /\ writer_buffer'.index = [writer_buffer.index EXCEPT ![a] = FragIndex + w]
      BY <2>6, CompressFragmentIs
    <3>2. w \notin Placed
      BY <3>1, FirstFillIs
    <3>3. FragIndex + w # FragIndex + f
      BY <2>1, <2>3, <3>2, FragIndexes
    <3>4. QED BY <1>1, <2>2, <3>1, <3>3
  <2>7. ASSUME NEW a \in Ready, NEW size \in Sizes, PlaceBlock(a, size)
        PROVE  \A b \in Buffers : writer_buffer'.index[b] # FragIndex + f
    <3>1. PICK e \in Extents, n \in {bytes} :
            /\ a \in Buffers /\ n \in 0 .. MaxBytes
            /\ writer_buffer'.index = [writer_buffer.index EXCEPT ![a] = n]
      BY <2>7, PlaceBlockIs
    <3>2. n # FragIndex + f
      BY <2>3, <3>1, FragIndexes
    <3>3. QED BY <1>1, <2>2, <3>1, <3>2
  <2>8. QED BY <2>1, <2>3, <2>4, <2>5, <2>6, <2>7, WriterCases
<1>4. QED BY <1>2, <1>3 DEF FetchIs

LEMMA NoFetchIs ==
  ASSUME main'.fetch.compressed = NoBuffer, main'.pc \notin {"get", "read"}
  PROVE  FetchIs'
BY DEF FetchIs

(* get_fragment finds the fragment in one of the caches, unless it has its *)
(* place.                                                                  *)
LEMMA GetFragmentFetch ==
  ASSUME UseInv, PackInv, GetFragment
  PROVE  FetchIs'
<1>1. PICK i \in Candidates :
       LET f == files[i].frag
           b == Found(fragment_buffer, f)
           c == Found(writer_buffer, FragIndex + f)
       IN /\ f # NoFragment
          /\ IF b # NoBuffer
             THEN UNCHANGED <<main, writer_buffer>>
             ELSE main' = [main EXCEPT !.pc = "get", !.fetch =
                       [frag |-> f, compressed |-> c, buffer |-> NoBuffer]]
  BY DEF GetFragment
<1>2. PICK f \in Frags : f = files[i].frag
  BY <1>1, CandidateFrag DEF UseInv
<1>3. PICK b, c : b = Found(fragment_buffer, f) /\ c = Found(writer_buffer, FragIndex + f)
  OBVIOUS
<1>4. [Next]_vars
  BY DEF Next
<1>5. CASE b # NoBuffer
  <2>1. UNCHANGED main
    BY <1>1, <1>2, <1>3, <1>5
  <2>2. QED BY <1>4, <2>1, FetchSame
<1>6. CASE b = NoBuffer
  <2>1. main' = [main EXCEPT !.pc = "get", !.fetch =
                   [frag |-> f, compressed |-> c, buffer |-> NoBuffer]]
    BY <1>1, <1>2, <1>3, <1>6
  <2>2. main'.pc = "get" /\ main'.fetch.frag = f /\ main'.fetch.compressed = c
    <3>1. main \in Mains
      BY DEF UseInv, Typed, MainTyped
    <3>2. PICK g : g = [frag |-> f, compressed |-> c, buffer |-> NoBuffer]
      OBVIOUS
    <3>3. main' = [main EXCEPT !.pc = "get", !.fetch = g]
      BY <2>1, <3>2
    <3>4. main'.pc = "get" /\ main'.fetch = g
      BY <3>1, <3>3 DEF Mains
    <3>5. QED BY <3>2, <3>4
  <2>3. writer_buffer'.index = writer_buffer.index /\ Placed \subseteq Placed'
    BY <1>4, KeepingIndex, PlacedGrows DEF Keeping
  <2>4. FragIndex + f \in Indexes
    BY FragIndexes
  <2>5. CASE c # NoBuffer
    <3>1. c \in Buffers /\ writer_buffer.index[c] = FragIndex + f
      BY <1>3, <2>4, <2>5, FoundHere
    <3>2. QED BY <2>2, <2>3, <2>5, <3>1 DEF FetchIs
  <2>6. CASE c = NoBuffer
    <3>1. \A x \in Buffers : writer_buffer.index[x] # FragIndex + f
      BY <1>3, <2>4, <2>6, FoundHere
    <3>2. \A x \in FragmentBuffers : fragment_buffer.index[x] # f
      <4>1. CacheKept(fragment_buffer, FragmentBuffers, Frags)
        BY DEF UseInv, Typed, CachesKept
      <4>2. NoBuffer \notin FragmentBuffers
        OBVIOUS
      <4>3. /\ Found(fragment_buffer, f) # NoBuffer =>
                 /\ Found(fragment_buffer, f) \in FragmentBuffers
                 /\ fragment_buffer.index[Found(fragment_buffer, f)] = f
            /\ Found(fragment_buffer, f) = NoBuffer =>
                 \A x \in FragmentBuffers : fragment_buffer.index[x] # f
        BY <4>1, <4>2, FoundIs
      <4>4. QED BY <1>3, <1>6, <4>3
    <3>3. ~InFill(f)
      BY <3>2, FillUsed DEF InFill, PackInv, FillHashed
    <3>4. f < fragments
      <4>1. i \in DOMAIN files
        BY DEF Candidates
      <4>2. \/ f = NoFragment \/ f < fragments
            \/ f = fragments /\ fragment_data # NoBuffer
        BY <1>2, <4>1 DEF PackInv, FillHashed
      <4>3. ~(f = fragments /\ fragment_data # NoBuffer)
        BY <3>2, FillUsed DEF PackInv, FillHashed
      <4>4. QED BY <4>2, <4>3, IndexesAre
    <3>5. ~InWork(f)
      <4>1. ASSUME NEW d \in FragDeflators, frag_deflator[d].frag = f PROVE FALSE
        <5>1. frag_deflator[d] # IdleDeflator
          BY <4>1, IndexesAre DEF IdleDeflator
        <5>2. /\ frag_deflator[d].to \in Buffers
              /\ writer_buffer.index[frag_deflator[d].to] = FragIndex + f
          BY <4>1, <5>1, WorkIs
        <5>3. QED BY <3>1, <5>2
      <4>2. QED BY <4>1 DEF InWork
    <3>6. ~InPending(f)
      <4>1. ASSUME NEW p \in Range(frag_locked_list), p.frag = f PROVE FALSE
        <5>1. p \in Pending
          BY DEF UseInv, Typed, QueuesTyped, Range
        <5>2. p.buffer \in Buffers
          BY <5>1 DEF Pending
        <5>3. writer_buffer.index[p.buffer] = FragIndex + f
          BY <4>1 DEF PackInv, FragHashed
        <5>4. QED BY <3>1, <5>2, <5>3
      <4>2. QED BY <4>1 DEF InPending
    <3>7. f \in Placed
      BY <3>3, <3>4, <3>5, <3>6, OneStage DEF PackInv
    <3>8. QED BY <2>2, <2>3, <2>6, <3>1, <3>7 DEF FetchIs
  <2>7. QED BY <2>5, <2>6
<1>7. QED BY <1>5, <1>6

LEMMA FetchIsStep ==
  ASSUME UseInv, PackInv, [Next]_vars
  PROVE  FetchIs'
<1>1. main \in Mains /\ main.fetch \in Fetches
  BY MainFields DEF UseInv, Typed, MainTyped
<1>2. \A n : Idle(n).fetch.compressed = NoBuffer /\ Idle(n).pc = "idle"
  BY DEF Idle, NoFetch
<1>3. CASE GetFragment
  BY <1>3, GetFragmentFetch
<1>4. CASE GetFragmentBuffer
  <2>1. PICK b : main' = [main EXCEPT !.pc = "read", !.fetch.buffer = b]
    BY <1>4 DEF GetFragmentBuffer
  <2>2. main'.fetch.frag = main.fetch.frag /\ main'.fetch.compressed = main.fetch.compressed
    BY <1>1, <2>1 DEF Mains, Fetches
  <2>3. main.pc = "get"
    BY <1>4 DEF GetFragmentBuffer
  <2>4. QED BY <2>2, <2>3, FetchSame
<1>5. CASE ReadFragment
  <2>1. \/ main' = [main EXCEPT !.pc = "compare", !.fetch = NoFetch]
        \/ main' = [main EXCEPT !.pc = "exited"]
    BY <1>5 DEF ReadFragment
  <2>2. CASE main' = [main EXCEPT !.pc = "compare", !.fetch = NoFetch]
    <3>1. main'.pc = "compare" /\ main'.fetch.compressed = NoBuffer
      BY <1>1, <2>2 DEF Mains, NoFetch
    <3>2. QED BY <3>1, NoFetchIs
  <2>3. CASE main' = [main EXCEPT !.pc = "exited"]
    <3>1. main'.pc = "exited" /\ main'.fetch = main.fetch
      BY <1>1, <2>3 DEF Mains
    <3>2. QED BY <3>1, FetchSame
  <2>4. QED BY <2>1, <2>2, <2>3
<1>6. CASE StartFile \/ WriteFileFrag
  <2>1. main'.fetch = NoFetch /\ main'.pc \in {"file", "compare"}
    BY <1>6 DEF StartFile, WriteFileFrag, Idle
  <2>2. QED BY <2>1, NoFetchIs DEF NoFetch
<1>7. CASE UnlockDone
  <2>1. main' = [main EXCEPT !.pc = "fill"] \/ main' = Idle(main.id)
    BY <1>7 DEF UnlockDone
  <2>2. CASE main' = [main EXCEPT !.pc = "fill"]
    <3>1. main'.pc = "fill" /\ main'.fetch = main.fetch
      BY <1>1, <2>2 DEF Mains
    <3>2. QED BY <3>1, FetchSame
  <2>3. QED BY <1>2, <2>1, <2>2, NoFetchIs
<1>8. CASE Duplicate
  <2>1. \/ /\ main'.fetch = main.fetch /\ main'.pc \in {"flush", "unlock"}
        \/ main' = Idle(main.id)
    BY <1>1, <1>8 DEF Duplicate, GiveBackHeld, Mains
  <2>2. QED BY <1>2, <2>1, NoFetchIs, FetchSame
<1>9. CASE Fill
  <2>1. \/ main' = [main EXCEPT !.pc = "unlock", !.next = "idle"]
        \/ main' = Idle(main.id)
    BY <1>9 DEF Fill
  <2>2. CASE main' = [main EXCEPT !.pc = "unlock", !.next = "idle"]
    <3>1. main'.pc = "unlock" /\ main'.fetch = main.fetch
      BY <1>1, <2>2 DEF Mains
    <3>2. QED BY <3>1, FetchSame
  <2>3. QED BY <1>2, <2>1, <2>2, NoFetchIs
<1>10. ASSUME NEW b \in Ready, NEW size \in Sizes, PlaceBlock(b, size) PROVE FetchIs'
  <2>1. main'.fetch = main.fetch /\ main'.pc = main.pc
    BY <1>10, PlaceBlockIs
  <2>2. QED BY <2>1, FetchSame
<1>11. CASE FileRead \/ ReadError \/ Truncate \/ NotDuplicate
  <2>1. main'.fetch = main.fetch /\ main'.pc \notin {"get", "read"}
    BY <1>1, <1>11 DEF FileRead, ReadError, GiveBack, Truncate, NotDuplicate, Mains
  <2>2. QED BY <2>1, FetchSame
<1>12. CASE \/ Compress \/ Write \/ UnlockOne \/ CompareBlock \/ WriteFragment
            \/ (\E d \in FragDeflators :
                  CompressFragment(d) \/ SettleFragment(d) \/ AddPendingFragment(d))
            \/ UNCHANGED vars
  <2>1. main' = main
    BY <1>12 DEF Compress, Write, UnlockOne, CompareBlock, WriteFragment, CompressFragment,
         SettleFragment, AddPendingFragment, vars
  <2>2. QED BY <2>1, FetchSame
<1>13. QED BY <1>3, <1>4, <1>5, <1>6, <1>7, <1>8, <1>9, <1>10, <1>11, <1>12, NextCases

LEMMA PackStep ==
  ASSUME UseInv, PackInv, [Next]_vars
  PROVE  PackInv'
<1>1. Staged'
  BY StagedStep
<1>2. FillHashed'
  BY FillHashedStep DEF PackInv
<1>3. QED BY <1>1, <1>2, FragHashedStep, FragDataStep, FetchIsStep DEF PackInv

-----------------------------------------------------------------------------
(* While main looks at what it has, the file it has stays.                  *)
LEMMA MainKeeps ==
  ASSUME main \in Mains,
         FileRead \/ Truncate \/ GetFragment \/ GetFragmentBuffer \/ ReadFragment
  PROVE  /\ main'.list = main.list /\ main'.start = main.start /\ main'.mode = main.mode
         /\ main'.held = main.held /\ files' = files
         /\ main'.pc \in {"file", "compare", "get", "read"}
              => main.pc \in {"file", "compare", "get", "read"}
<1>1. CASE FileRead
  BY <1>1 DEF FileRead, Mains
<1>2. CASE Truncate
  BY <1>2 DEF Truncate, Mains
<1>3. CASE GetFragment
  BY <1>3 DEF GetFragment, Mains
<1>4. CASE GetFragmentBuffer
  BY <1>4 DEF GetFragmentBuffer, Mains
<1>5. CASE ReadFragment
  BY <1>5 DEF ReadFragment, Mains
<1>6. QED BY <1>1, <1>2, <1>3, <1>4, <1>5

(* The output: what is laid out does not move.                             *)
LEMMA LayoutKept ==
  ASSUME Layout, UNCHANGED <<bytes, files, fragment_table>>,
         Range(main'.list) \subseteq Range(main.list),
         Placing' => Placing /\ main'.start = main.start /\ fragments_locked' = fragments_locked
  PROVE  Layout'
<1>1. Placed' = Placed
  BY DEF Placed
<1>2. \A e \in Extents : Old(e)' <=> Old(e)
  BY <1>1 DEF Old
<1>3. \A e \in Extents : Old(e)' \/ e \in Range(main'.list) => e.size > 0 /\ End(e) <= bytes'
  BY <1>2 DEF Layout
<1>4. \A e, x \in Range(main'.list) : e # x => Apart(e, x)
  BY DEF Layout
<1>5. Placing' => /\ fragments_locked' /\ main'.start <= bytes'
                  /\ \A e \in Extents : Old(e)' => End(e) <= main'.start
                  /\ \A e \in Range(main'.list) : main'.start <= e.pos
  BY <1>2 DEF Layout
<1>6. QED BY <1>3, <1>4, <1>5 DEF Layout

LEMMA ExtentEnds ==
  ASSUME NEW e \in Extents
  PROVE  /\ e.pos \in 0 .. MaxBytes /\ e.pos \in Nat /\ e.size \in Nat /\ End(e) = e.pos + e.size
         /\ End(e) \in Nat
BY DEF Extents, End

LEMMA PlacesLayout ==
  ASSUME UseInv, PackInv, Layout,
         (\E d \in FragDeflators : SettleFragment(d) /\ ~fragments_locked) \/ UnlockOne
  PROVE  Layout'
<1>1. PICK w \in Frags, b \in Buffers, e \in Extents :
        /\ e.pos = bytes /\ e.size > 0 /\ bytes' = End(e)
        /\ fragment_table' = [fragment_table EXCEPT ![w] = e]
        /\ Placed' = Placed \cup {w}
        /\ UNCHANGED <<main, files, fragments_locked>>
        /\ ~fragments_locked \/ main.pc = "unlock"
  BY PlacesIs
<1>2. ~Placing /\ ~Placing'
  BY <1>1 DEF Layout, Placing
<1>3. /\ fragment_table \in [Frags -> Extents \cup {NoEntry}] /\ bytes \in 0 .. MaxBytes
  BY DEF UseInv, Typed, OutputTyped
<1>4. ASSUME NEW x \in Extents, Old(x)' PROVE Old(x) \/ x = e
  BY <1>1, <1>3, <1>4 DEF Old, Placed
<1>5. bytes <= bytes' /\ End(e) <= bytes' /\ bytes \in Nat /\ bytes' \in Nat
  BY <1>1, <1>3, ExtentEnds
<1>6. ASSUME NEW x \in Extents, Old(x)' \/ x \in Range(main'.list)
      PROVE  x.size > 0 /\ End(x) <= bytes'
  <2>1. CASE x = e
    BY <1>1, <1>5, <2>1
  <2>2. CASE Old(x) \/ x \in Range(main.list)
    <3>1. x.size > 0 /\ End(x) <= bytes
      BY <2>2 DEF Layout
    <3>2. QED BY <1>5, <3>1, ExtentEnds
  <2>3. QED BY <1>1, <1>4, <1>6, <2>1, <2>2
<1>7. \A x, y \in Range(main'.list) : x # y => Apart(x, y)
  BY <1>1 DEF Layout
<1>8. QED BY <1>2, <1>6, <1>7 DEF Layout

LEMMA StartFileLayout ==
  ASSUME UseInv, Layout, StartFile
  PROVE  Layout'
<1>1. /\ main'.list = <<>> /\ main'.start = bytes /\ fragments_locked' = TRUE
      /\ UNCHANGED <<bytes, files, fragment_table>>
  BY DEF StartFile, Idle, others
<1>2. Placed' = Placed
  BY <1>1 DEF Placed
<1>3. \A e \in Extents : Old(e)' <=> Old(e)
  BY <1>1, <1>2 DEF Old
<1>4. Range(main'.list) = {}
  BY <1>1, EmptyList
<1>5. bytes \in Nat
  BY DEF UseInv, Typed, OutputTyped
<1>6. QED BY <1>1, <1>3, <1>4, <1>5 DEF Layout

LEMMA PlaceBlockLayout ==
  ASSUME UseInv, Layout, NEW b \in Ready, NEW size \in Sizes, PlaceBlock(b, size)
  PROVE  Layout'
<1>0. b \in Ready /\ size \in Sizes /\ PlaceBlock(b, size)
  OBVIOUS
<1>1. PICK e \in Extents, n \in {bytes} :
        /\ n \in Indexes /\ n \in 0 .. MaxBytes /\ bytes' = n + e.size
        /\ e.pos = n /\ e.size > 0 /\ e.size \in Nat
        /\ main'.list = Append(main.list, e)
  BY <1>0, PlaceBlockIs
<1>a. /\ main'.pc = main.pc /\ main'.mode = main.mode /\ main'.start = main.start
      /\ main.pc = "file"
  BY <1>0, PlaceBlockIs
<1>2. UNCHANGED <<files, fragment_table, fragments_locked>>
  BY DEF PlaceBlock, others, lockVars
<1>3. main.list \in Seq(Extents) /\ main.start \in Nat /\ main.mode # "fragment"
  BY <1>a, MainFields DEF UseInv, Typed, MainShape
<1>4. Range(main'.list) = Range(main.list) \cup {e}
  BY <1>1, <1>3, AppendOnce
<1>5. Placing /\ Placing'
  BY <1>a, <1>3 DEF Placing
<1>6. Placed' = Placed
  BY <1>2 DEF Placed
<1>7. \A x \in Extents : Old(x)' <=> Old(x)
  BY <1>2, <1>6 DEF Old
<1>8. n = bytes /\ bytes \in Nat /\ End(e) = bytes' /\ bytes <= bytes' /\ bytes' \in Nat
  BY <1>1 DEF End
<1>9. \A x \in Range(main.list) : x \in Extents
  BY <1>3 DEF Range
<1>10. ASSUME NEW x \in Extents, Old(x)' \/ x \in Range(main'.list)
       PROVE  x.size > 0 /\ End(x) <= bytes'
  <2>1. CASE x = e
    BY <1>1, <1>8, <2>1
  <2>2. CASE Old(x) \/ x \in Range(main.list)
    <3>1. x.size > 0 /\ End(x) <= bytes
      BY <2>2 DEF Layout
    <3>2. QED BY <1>8, <3>1, ExtentEnds
  <2>3. QED BY <1>4, <1>7, <1>10, <2>1, <2>2
<1>11. ASSUME NEW x \in Range(main.list)
       PROVE  Apart(x, e) /\ Apart(e, x)
  <2>1. End(x) <= bytes
    BY <1>9 DEF Layout
  <2>2. QED BY <1>1, <1>8, <2>1 DEF Apart
<1>12. \A x, y \in Range(main'.list) : x # y => Apart(x, y)
  BY <1>4, <1>11 DEF Layout
<1>13. /\ fragments_locked' /\ main'.start <= bytes'
       /\ \A x \in Extents : Old(x)' => End(x) <= main'.start
       /\ \A x \in Range(main'.list) : main'.start <= x.pos
  <2>1. /\ fragments_locked /\ main.start <= bytes
        /\ \A x \in Extents : Old(x) => End(x) <= main.start
        /\ \A x \in Range(main.list) : main.start <= x.pos
    BY <1>5 DEF Layout
  <2>2. main'.start <= bytes'
    BY <1>1, <1>a, <1>3, <1>8, <2>1
  <2>3. main.start <= e.pos
    BY <1>1, <1>8, <2>1
  <2>4. QED BY <1>1, <1>a, <1>2, <1>4, <1>7, <2>1, <2>2, <2>3
<1>14. QED BY <1>10, <1>12, <1>13 DEF Layout

(* The space of a dropped file is that behind everything on record.        *)
LEMMA GivenBackLayout ==
  ASSUME Layout, Placing, bytes' = main.start, UNCHANGED <<files, fragment_table>>,
         main'.list = <<>>, main'.pc \in {"flush", "unlock", "idle"}
  PROVE  Layout'
<1>1. Placed' = Placed
  BY DEF Placed
<1>2. \A e \in Extents : Old(e)' <=> Old(e)
  BY <1>1 DEF Old
<1>3. Range(main'.list) = {}
  BY EmptyList
<1>4. ~Placing'
  BY DEF Placing
<1>5. QED BY <1>2, <1>3, <1>4 DEF Layout

LEMMA FillLayout ==
  ASSUME UseInv, Layout, Fill
  PROVE  Layout'
<1>1. main \in Mains /\ main.list \in Seq(Extents)
  BY MainFields DEF UseInv, Typed, MainTyped
<1>2. /\ UNCHANGED <<bytes, fragment_table>>
      /\ main'.list = main.list \/ main'.list = <<>>
      /\ main'.pc \in {"unlock", "idle"}
  BY <1>1 DEF Fill, Idle, Mains
<1>3. PICK r : files' = Append(files, r) /\ r.list = main.list
  <2>1. PICK r : r = [list |-> main.list, frag |-> IF main.tail THEN fragments ELSE NoFragment]
    OBVIOUS
  <2>2. QED BY <2>1 DEF Fill
<1>4. ASSUME NEW i \in DOMAIN files', NEW e \in Range(files'[i].list)
      PROVE  e \in Range(main.list) \/ \E j \in DOMAIN files : e \in Range(files[j].list)
  BY <1>3, <1>4 DEF UseInv, Typed, OutputTyped
<1>5. Placed' = Placed
  BY <1>2 DEF Placed
<1>6. ASSUME NEW e \in Extents, Old(e)' PROVE Old(e) \/ e \in Range(main.list)
  BY <1>2, <1>4, <1>5, <1>6 DEF Old
<1>7. Range(main'.list) \subseteq Range(main.list)
  BY <1>2, EmptyList
<1>8. ~Placing'
  BY <1>2 DEF Placing
<1>9. QED BY <1>2, <1>6, <1>7, <1>8 DEF Layout

LEMMA LayoutStep ==
  ASSUME UseInv, PackInv, Layout, [Next]_vars
  PROVE  Layout'
<1>1. main \in Mains
  BY DEF UseInv, Typed, MainTyped
<1>2. CASE (\E d \in FragDeflators : SettleFragment(d) /\ ~fragments_locked) \/ UnlockOne
  BY <1>2, PlacesLayout
<1>3. CASE StartFile
  BY <1>3, StartFileLayout
<1>4. ASSUME NEW b \in Ready, NEW size \in Sizes, PlaceBlock(b, size) PROVE Layout'
  BY <1>4, PlaceBlockLayout
<1>5. CASE ReadError
  <2>1. Placing
    BY <1>5 DEF ReadError, UseInv, MainShape, Placing
  <2>2. /\ bytes' = main.start /\ UNCHANGED <<files, fragment_table>>
        /\ main'.list = <<>> /\ main'.pc \in {"flush", "unlock"}
    BY <1>1, <1>5 DEF ReadError, GiveBack, others, Mains
  <2>3. QED BY <2>1, <2>2, GivenBackLayout
<1>6. CASE Duplicate /\ main.mode = "dup"
  <2>1. Placing
    BY <1>6 DEF Duplicate, Placing
  <2>2. /\ bytes' = main.start /\ UNCHANGED <<files, fragment_table>>
        /\ main'.list = <<>> /\ main'.pc \in {"flush", "unlock"}
    BY <1>1, <1>6 DEF Duplicate, GiveBackHeld, others, Mains
  <2>3. QED BY <2>1, <2>2, GivenBackLayout
<1>7. CASE Fill
  BY <1>7, FillLayout
<1>8. CASE Compress \/ Write \/ WriteFragment \/ CompareBlock \/ UNCHANGED vars
  <2>1. UNCHANGED <<bytes, files, fragment_table, main, fragments_locked>>
    BY <1>8 DEF Compress, Write, WriteFragment, CompareBlock, others, lockVars, vars
  <2>2. QED BY <2>1, LayoutKept DEF Placing
<1>9. ASSUME NEW d \in FragDeflators,
             \/ CompressFragment(d) \/ AddPendingFragment(d)
             \/ SettleFragment(d) /\ fragments_locked
      PROVE  Layout'
  <2>1. UNCHANGED <<bytes, files, fragment_table, main, fragments_locked>>
    BY <1>9 DEF CompressFragment, AddPendingFragment, SettleFragment, lockVars
  <2>2. QED BY <2>1, LayoutKept DEF Placing
<1>10. CASE \/ FileRead \/ Truncate \/ GetFragment \/ GetFragmentBuffer \/ ReadFragment
            \/ NotDuplicate
  <2>1. UNCHANGED <<bytes, files, fragment_table, fragments_locked>>
    BY <1>10 DEF FileRead, Truncate, GetFragment, GetFragmentBuffer, ReadFragment,
         NotDuplicate, others, lockVars
  <2>2. CASE NotDuplicate
    <3>1. main'.list = main.list /\ main'.pc = "fill"
      BY <1>1, <2>2 DEF NotDuplicate, Mains
    <3>2. ~Placing'
      BY <3>1 DEF Placing
    <3>3. QED BY <2>1, <3>1, <3>2, LayoutKept
  <2>3. CASE ~NotDuplicate
    <3>1. main'.list = main.list /\ main'.start = main.start /\ main'.mode = main.mode
      BY <1>1, <1>10, <2>3, MainKeeps
    <3>2. main'.pc \in {"file", "compare", "get", "read"}
            => main.pc \in {"file", "compare", "get", "read"}
      BY <1>1, <1>10, <2>3, MainKeeps
    <3>3. Placing' => Placing
      BY <3>1, <3>2 DEF Placing
    <3>4. QED BY <2>1, <3>1, <3>3, LayoutKept
  <2>4. QED BY <2>2, <2>3
<1>11. CASE UnlockDone \/ (Duplicate /\ main.mode # "dup")
  <2>1. UNCHANGED <<bytes, files, fragment_table>>
    BY <1>11 DEF UnlockDone, Duplicate, others
  <2>2. /\ main'.list = main.list \/ main'.list = <<>>
        /\ main'.pc \in {"fill", "idle"}
    BY <1>1, <1>11 DEF UnlockDone, Duplicate, Idle, Mains
  <2>3. Range(main'.list) \subseteq Range(main.list) /\ ~Placing'
    BY <2>2, EmptyList DEF Placing
  <2>4. QED BY <2>1, <2>3, LayoutKept
<1>12. CASE WriteFileFrag
  <2>1. UNCHANGED <<bytes, files, fragment_table>>
    BY <1>12 DEF WriteFileFrag, others
  <2>2. main'.list = <<>> /\ main'.mode = "fragment"
    BY <1>12 DEF WriteFileFrag, Idle
  <2>3. Range(main'.list) \subseteq Range(main.list) /\ ~Placing'
    BY <2>2, EmptyList DEF Placing
  <2>4. QED BY <2>1, <2>3, LayoutKept
<1>13. QED BY <1>2, <1>3, <1>4, <1>5, <1>6, <1>7, <1>8, <1>9, <1>10, <1>11, <1>12, NextCases

-----------------------------------------------------------------------------
(* What a buffer holds changes only when it is got or placed.              *)
DataKeeping ==
  \/ Write \/ (\E d \in FragDeflators : SettleFragment(d) /\ fragments_locked)
  \/ (\E d \in FragDeflators : AddPendingFragment(d))
  \/ StartFile \/ FileRead \/ ReadError \/ Truncate \/ UnlockDone
  \/ WriteFileFrag \/ CompareBlock \/ GetFragment \/ GetFragmentBuffer
  \/ ReadFragment \/ Duplicate \/ NotDuplicate \/ WriteFragment \/ Fill
  \/ UNCHANGED vars
PlacesFragment == (\E d \in FragDeflators : SettleFragment(d) /\ ~fragments_locked) \/ UnlockOne

LEMMA DataCases ==
  ASSUME [Next]_vars
  PROVE  \/ DataKeeping \/ Compress \/ (\E d \in FragDeflators : CompressFragment(d))
         \/ (\E b \in Ready, size \in Sizes : PlaceBlock(b, size)) \/ PlacesFragment
BY NextCases DEF DataKeeping, PlacesFragment

LEMMA DataKept ==
  ASSUME DataKeeping
  PROVE  data' = data /\ bytes' \in {bytes, main.start} /\ fragment_table' = fragment_table
BY Zenon DEF DataKeeping, Write, SettleFragment, AddPendingFragment, StartFile, FileRead,
     ReadError, GiveBack, Truncate, UnlockDone, WriteFileFrag, CompareBlock, GetFragment,
     GetFragmentBuffer, ReadFragment, Duplicate, GiveBackHeld, NotDuplicate, WriteFragment,
     Fill, others, vars

LEMMA HeldData ==
  ASSUME UseInv, PackInv, [Next]_vars, NEW h \in Range(main.held)
  PROVE  h \in Buffers /\ data'[h] = data[h] /\ writer_buffer'.index[h] = writer_buffer.index[h]
<1>1. h \in Buffers /\ data \in [Buffers -> Extents]
  BY MainFields DEF UseInv, Typed, OutputTyped, Range
<1>2. writer_buffer.used[h] # 0 /\ h \notin Ready
  BY <1>1, OneHas
<1>3. writer_buffer'.index[h] = writer_buffer.index[h]
  BY <1>1, <1>2, WriterIndexKept
<1>4. CASE DataKeeping
  BY <1>1, <1>3, <1>4, DataKept
<1>5. CASE Compress
  <2>1. PICK a \in Gettable(writer_buffer, first_freelist) :
          /\ a \in Buffers /\ writer_buffer.used[a] = 0
          /\ data' = [data EXCEPT ![a] = Nothing]
    BY <1>5, CompressIs
  <2>2. QED BY <1>1, <1>2, <1>3, <2>1
<1>6. ASSUME NEW d \in FragDeflators, CompressFragment(d) PROVE data'[h] = data[h]
  <2>1. PICK a \in Gettable(writer_buffer, first_freelist), f \in Frags, e \in Extents :
          /\ a \in Buffers /\ writer_buffer.used[a] = 0
          /\ data' = [data EXCEPT ![a] = e]
    BY <1>6, CompressFragmentIs
  <2>2. QED BY <1>1, <1>2, <2>1
<1>7. CASE PlacesFragment
  <2>1. PICK w \in Frags, b \in Buffers, e \in Extents :
          /\ b \notin Range(to_writer) /\ b \notin Range(main.held)
          /\ data' = [data EXCEPT ![b] = e]
    BY <1>7, PlacesIs DEF PlacesFragment
  <2>2. QED BY <1>1, <1>3, <2>1
<1>8. ASSUME NEW b \in Ready, NEW size \in Sizes, PlaceBlock(b, size) PROVE data'[h] = data[h]
  <2>1. PICK e \in Extents, n \in {bytes} :
          /\ b \in Buffers /\ n \in 0 .. MaxBytes
          /\ writer_buffer'.index = [writer_buffer.index EXCEPT ![b] = n]
          /\ data' = [data EXCEPT ![b] = e]
    BY <1>8, PlaceBlockIs
  <2>2. QED BY <1>1, <1>2, <2>1
<1>9. QED BY <1>1, <1>3, <1>4, <1>5, <1>6, <1>7, <1>8, DataCases

LEMMA HeldSame ==
  ASSUME UseInv, PackInv, HeldIs, [Next]_vars,
         UNCHANGED <<main.held, main.start, files>>,
         Placing' => Placing /\ Range(main.list) \subseteq Range(main'.list)
  PROVE  HeldIs'
<1>1. \A h \in Range(main.held) :
        data'[h] = data[h] /\ writer_buffer'.index[h] = writer_buffer.index[h]
  BY HeldData
<1>2. \A h \in Range(main'.held) : /\ main'.start <= data'[h].pos
                                   /\ writer_buffer'.index[h] = data'[h].pos
                                   /\ Placing' => data'[h] \in Range(main'.list)
  BY <1>1 DEF HeldIs
<1>3. \A i \in DOMAIN main.held : data'[main.held[i]] = data[main.held[i]]
  BY <1>1 DEF Range
<1>4. \A i, j \in DOMAIN main'.held :
        i < j => End(data'[main'.held[i]]) <= data'[main'.held[j]].pos
  BY <1>3 DEF HeldIs
<1>5. main'.held # <<>> =>
        \A i \in DOMAIN files' : \A e \in Range(files'[i].list) : End(e) <= main'.start
  BY DEF HeldIs
<1>6. QED BY <1>2, <1>4, <1>5 DEF HeldIs

LEMMA NoneHeld ==
  ASSUME main'.held = <<>>
  PROVE  HeldIs'
BY EmptyList DEF HeldIs

LEMMA PlaceBlockHeld ==
  ASSUME UseInv, PackInv, Layout, HeldIs, NEW b \in Ready, NEW size \in Sizes,
         PlaceBlock(b, size)
  PROVE  HeldIs'
<1>0. b \in Ready /\ size \in Sizes /\ PlaceBlock(b, size) /\ [Next]_vars
  BY DEF Next
<1>1. PICK e \in Extents, n \in {bytes} :
        /\ b \in Buffers /\ n \in Indexes /\ n \in 0 .. MaxBytes
        /\ writer_buffer'.index = [writer_buffer.index EXCEPT ![b] = n]
        /\ e.pos = n /\ e.size > 0 /\ e.size \in Nat
        /\ data' = [data EXCEPT ![b] = e]
        /\ main'.list = Append(main.list, e)
  BY <1>0, PlaceBlockIs
<1>2. /\ main'.pc = main.pc /\ main'.mode = main.mode /\ main'.start = main.start
      /\ main.pc = "file"
  BY <1>0, PlaceBlockIs
<1>3. \/ main'.held = Append(main.held, b)
      \/ main'.held = main.held
  BY <1>0, PlaceBlockIs
<1>4. main.list \in Seq(Extents) /\ main.held \in Seq(Buffers) /\ main.start \in Nat
  BY MainFields DEF UseInv, Typed
<1>5. Range(main'.list) = Range(main.list) \cup {e}
  BY <1>1, <1>4, AppendOnce
<1>6. Placing
  BY <1>2 DEF Placing, UseInv, MainShape
<1>7. files' = files
  BY DEF PlaceBlock
<1>8. CASE main'.held = main.held
  BY <1>0, <1>2, <1>5, <1>6, <1>7, <1>8, HeldSame
<1>9. CASE main'.held = Append(main.held, b)
  <2>1. /\ Range(main'.held) = Range(main.held) \cup {b}
        /\ main'.held \in Seq(Buffers) /\ Len(main'.held) = Len(main.held) + 1
        /\ \A i \in 1 .. Len(main.held) : main'.held[i] = main.held[i]
        /\ main'.held[Len(main.held) + 1] = b /\ Len(main.held) \in Nat
    <3>1. PICK s : s = main.held
      OBVIOUS
    <3>2. s \in Seq(Buffers) /\ b \in Buffers
      BY <1>1, <1>4, <3>1
    <3>3. Range(Append(s, b)) = Range(s) \cup {b}
      BY <3>2, AppendOnce
    <3>4. /\ Append(s, b) \in Seq(Buffers) /\ Len(Append(s, b)) = Len(s) + 1
          /\ \A i \in 1 .. Len(s) : Append(s, b)[i] = s[i]
          /\ Append(s, b)[Len(s) + 1] = b /\ Len(s) \in Nat
      BY <3>2, AppendIs
    <3>5. QED BY <1>9, <3>1, <3>3, <3>4
  <2>2. \A h \in Range(main.held) : /\ h \in Buffers /\ data'[h] = data[h]
                                    /\ writer_buffer'.index[h] = writer_buffer.index[h]
    BY <1>0, HeldData
  <2>3. data'[b] = e /\ writer_buffer'.index[b] = n
    BY <1>1, CachesAre DEF UseInv, Typed, OutputTyped
  <2>4. /\ main.start <= bytes /\ bytes \in Nat /\ \A x \in Extents : Old(x) => End(x) <= main.start
    BY <1>6 DEF Layout, UseInv, Typed, OutputTyped
  <2>5. \A i \in DOMAIN files : \A x \in Range(files[i].list) : End(x) <= main.start
    <3>1. ASSUME NEW i \in DOMAIN files, NEW x \in Range(files[i].list)
          PROVE  x \in Extents /\ Old(x)
      <4>1. files[i] \in Files
        BY DEF UseInv, Typed, OutputTyped
      <4>2. files[i].list \in Seq(Extents)
        BY <4>1 DEF Files
      <4>3. QED BY <3>1, <4>2 DEF Range, Old
    <3>2. QED BY <2>4, <3>1
  <2>6. ASSUME NEW h \in Range(main'.held)
        PROVE  /\ main'.start <= data'[h].pos /\ writer_buffer'.index[h] = data'[h].pos
               /\ Placing' => data'[h] \in Range(main'.list)
    <3>1. CASE h = b
      BY <1>1, <1>2, <1>5, <2>3, <2>4, <3>1
    <3>2. CASE h \in Range(main.held)
      BY <1>2, <1>5, <1>6, <2>2, <3>2 DEF HeldIs
    <3>3. QED BY <2>1, <2>6, <3>1, <3>2
  <2>7. ASSUME NEW i \in DOMAIN main'.held, NEW j \in DOMAIN main'.held, i < j
        PROVE  End(data'[main'.held[i]]) <= data'[main'.held[j]].pos
    <3>1. i \in 1 .. Len(main.held) /\ main'.held[i] = main.held[i]
      BY <2>1, <2>7
    <3>2. i \in DOMAIN main.held /\ main.held[i] \in Range(main.held)
      BY <1>4, <3>1 DEF Range
    <3>3. data'[main.held[i]] = data[main.held[i]]
      BY <2>2, <3>2
    <3>4. CASE j = Len(main.held) + 1
      <4>1. data[main.held[i]] \in Range(main.list)
        BY <1>6, <3>2 DEF HeldIs
      <4>2. End(data[main.held[i]]) <= bytes
        BY <1>4, <4>1 DEF Layout, Range
      <4>3. main'.held[j] = b /\ data'[b].pos = bytes
        BY <1>1, <2>1, <2>3, <3>4
      <4>4. QED BY <3>1, <3>3, <4>2, <4>3 DEF End
    <3>5. CASE j # Len(main.held) + 1
      <4>0. j \in 1 .. Len(main'.held)
        BY <2>1
      <4>a. j \in 1 .. Len(main.held)
        BY <2>1, <3>5, <4>0
      <4>1. j \in DOMAIN main.held /\ main'.held[j] = main.held[j]
        BY <1>4, <2>1, <4>a
      <4>2. data'[main.held[j]] = data[main.held[j]]
        BY <2>2, <4>1 DEF Range
      <4>3. End(data[main.held[i]]) <= data[main.held[j]].pos
        BY <2>7, <3>2, <4>1 DEF HeldIs
      <4>4. QED BY <3>1, <3>3, <4>1, <4>2, <4>3 DEF End
    <3>6. QED BY <3>4, <3>5
  <2>8. QED BY <1>2, <1>7, <2>5, <2>6, <2>7 DEF HeldIs
<1>10. QED BY <1>3, <1>8, <1>9

LEMMA HeldIsStep ==
  ASSUME UseInv, PackInv, Layout, HeldIs, [Next]_vars
  PROVE  HeldIs'
<1>1. main \in Mains
  BY DEF UseInv, Typed, MainTyped
<1>2. ASSUME NEW b \in Ready, NEW size \in Sizes, PlaceBlock(b, size) PROVE HeldIs'
  BY <1>2, PlaceBlockHeld
<1>3. CASE StartFile \/ WriteFileFrag
  BY <1>3, NoneHeld DEF StartFile, WriteFileFrag, Idle
<1>4. CASE UnlockDone
  <2>1. main.next = "fill" => main.held = <<>>
    BY <1>4 DEF UnlockDone, UseInv, MainShape
  <2>2. main'.held = <<>>
    BY <1>1, <1>4, <2>1 DEF UnlockDone, Idle, Mains
  <2>3. QED BY <2>2, NoneHeld
<1>5. CASE Duplicate
  <2>a. ASSUME main.mode = "dup" PROVE main'.held = <<>>
    BY <1>1, <1>5, <2>a DEF Duplicate, GiveBackHeld, Mains
  <2>b. ASSUME main.mode # "dup" PROVE main'.held = <<>>
    BY <1>5, <2>b DEF Duplicate, Idle
  <2>1. main'.held = <<>>
    BY <2>a, <2>b
  <2>2. QED BY <2>1, NoneHeld
<1>6. CASE NotDuplicate
  <2>1. main'.held = <<>>
    BY <1>1, <1>6 DEF NotDuplicate, Mains
  <2>2. QED BY <2>1, NoneHeld
<1>7. CASE Fill
  <2>1. main.held = <<>>
    BY <1>7 DEF Fill, UseInv, MainShape
  <2>2. main'.held = <<>>
    BY <1>1, <1>7, <2>1 DEF Fill, Idle, Mains
  <2>3. QED BY <2>2, NoneHeld
<1>8. CASE \/ Compress \/ Write \/ WriteFragment \/ CompareBlock \/ UnlockOne
           \/ (\E d \in FragDeflators : CompressFragment(d))
           \/ (\E d \in FragDeflators : SettleFragment(d))
           \/ (\E d \in FragDeflators : AddPendingFragment(d)) \/ UNCHANGED vars
  <2>1. main' = main /\ files' = files
    BY <1>8 DEF Compress, Write, WriteFragment, CompareBlock, UnlockOne, CompressFragment,
         SettleFragment, AddPendingFragment, others, vars
  <2>2. QED BY <2>1, HeldSame DEF Placing
<1>9. CASE FileRead \/ Truncate \/ GetFragment \/ GetFragmentBuffer \/ ReadFragment
  <2>1. files' = files
    BY <1>1, <1>9, MainKeeps
  <2>2. UNCHANGED <<main.list, main.start, main.mode, main.held>>
    BY <1>1, <1>9, MainKeeps
  <2>3. main'.pc \in {"file", "compare", "get", "read"}
          => main.pc \in {"file", "compare", "get", "read"}
    BY <1>1, <1>9, MainKeeps
  <2>4. QED BY <2>1, <2>2, <2>3, HeldSame DEF Placing
<1>10. CASE ReadError
  <2>1. /\ files' = files /\ UNCHANGED <<main.start, main.held>>
        /\ main'.pc \in {"flush", "unlock"}
    BY <1>1, <1>10 DEF ReadError, GiveBack, Mains
  <2>2. QED BY <2>1, HeldSame DEF Placing
<1>11. QED BY <1>2, <1>3, <1>4, <1>5, <1>6, <1>7, <1>8, <1>9, <1>10, NextCases

LEMMA LayoutInvStep ==
  ASSUME UseInv, PackInv, LayoutInv, [Next]_vars
  PROVE  LayoutInv'
BY LayoutStep, HeldIsStep DEF LayoutInv

-----------------------------------------------------------------------------
(* What is looked for is on record, in the output, and below its end.      *)
LEMMA LiveIs ==
  ASSUME UseInv, Layout, NEW e \in Extents, NEW i \in Indexes, LiveAt(e, i)
  PROVE  /\ Old(e) \/ e \in Range(main.list)
         /\ e.size > 0 /\ End(e) <= bytes
         /\ i \in 0 .. MaxBytes => i = e.pos
<1>1. Old(e) \/ e \in Range(main.list)
  BY DEF LiveAt, Recorded, Old
<1>2. i \in 0 .. MaxBytes => i = e.pos
  BY FragIndexes DEF LiveAt, Placed
<1>3. QED BY <1>1, <1>2 DEF Layout

LEMMA LiveFragment ==
  ASSUME NEW e \in Extents, NEW f \in Frags, LiveAt(e, FragIndex + f)
  PROVE  f \in Placed /\ e = fragment_table[f]
<1>1. e.pos \in 0 .. MaxBytes
  BY ExtentEnds
<1>2. e.pos # FragIndex + f
  BY <1>1, FragIndexes
<1>3. PICK g \in Placed : e = fragment_table[g] /\ FragIndex + f = FragIndex + g
  BY <1>2 DEF LiveAt
<1>4. g = f
  BY <1>3, FragIndexes DEF Placed
<1>5. QED BY <1>3, <1>4

(* What a step leaves of the order in which buffers are reused.            *)
LEMMA SafeKept ==
  ASSUME UseInv, UseInv', NEW e \in Extents, NEW i \in Indexes, Safe(e, i),
         Found(writer_buffer', i) = Found(writer_buffer, i),
         Extends(to_writer, to_writer'),
         \A j \in DOMAIN to_writer' : j > Len(to_writer) => Apart(e, data'[to_writer'[j]]),
         \A b \in Range(to_writer) : data'[b] = data[b],
         OnDisk(e) => OnDisk(e)',
         \A b \in Buffers : Found(writer_buffer, i) = b =>
           /\ data'[b] = data[b]
           /\ b \in Range(main.held) => b \in Range(main'.held) \/ Queued(e, b)'
           /\ \A o \in Buffers : writer_buffer'.index[o] = i /\ o # b =>
                /\ writer_buffer.index[o] = i
                /\ Ahead(writer_buffer.free, o, b) => Ahead(writer_buffer'.free, o, b)
  PROVE  Safe(e, i)'
<1>1. /\ to_writer \in Seq(Buffers) /\ to_writer' \in Seq(Buffers)
      /\ Len(to_writer) \in Nat /\ Len(to_writer') \in Nat
  BY DEF UseInv, Typed, QueuesTyped
<1>2. \A j \in DOMAIN to_writer :
        /\ j \in DOMAIN to_writer' /\ to_writer'[j] = to_writer[j]
        /\ data'[to_writer[j]] = data[to_writer[j]]
  BY <1>1 DEF Extends, Range
<1>3. Range(to_writer) \subseteq Range(to_writer')
  BY <1>2 DEF Range
<1>4. ASSUME Written(e) PROVE Written(e)'
  <2>1. ASSUME NEW j \in DOMAIN to_writer' PROVE Apart(e, data'[to_writer'[j]])
    <3>1. CASE j \in DOMAIN to_writer
      <4>1. Apart(e, data[to_writer[j]])
        BY <1>4, <3>1 DEF Written, Range
      <4>2. QED BY <1>2, <3>1, <4>1
    <3>2. CASE j \notin DOMAIN to_writer
      BY <1>1, <2>1, <3>2
    <3>3. QED BY <3>1, <3>2
  <2>2. \A b \in Range(to_writer') : Apart(e, data'[b])
    BY <2>1 DEF Range
  <2>3. OnDisk(e)'
    BY <1>4 DEF Written
  <2>4. QED BY <2>2, <2>3 DEF Written
<1>5. ASSUME NEW b \in Buffers, Queued(e, b) PROVE Queued(e, b)'
  <2>1. PICK k \in DOMAIN to_writer :
          /\ to_writer[k] = b
          /\ \A j \in DOMAIN to_writer : k < j => Apart(e, data[to_writer[j]])
    BY <1>5 DEF Queued
  <2>2. ASSUME NEW j \in DOMAIN to_writer', k < j PROVE Apart(e, data'[to_writer'[j]])
    <3>1. CASE j \in DOMAIN to_writer
      BY <1>2, <2>1, <2>2, <3>1
    <3>2. CASE j \notin DOMAIN to_writer
      BY <1>1, <2>2, <3>2
    <3>3. QED BY <3>1, <3>2
  <2>3. k \in DOMAIN to_writer' /\ to_writer'[k] = b
    BY <1>2, <2>1
  <2>4. QED BY <2>2, <2>3 DEF Queued
<1>6. ASSUME NEW b \in Buffers, Queued(e, b)' PROVE b \in Range(to_writer')
  BY <1>6 DEF Queued, Range
<1>7. ASSUME NEW b \in Buffers, Found(writer_buffer, i) = b
      PROVE  /\ Coming(e, b)'
             /\ \A o \in Buffers : writer_buffer'.index[o] = i /\ o # b => Before(o, b)'
  <2>1. /\ Coming(e, b)
        /\ \A o \in Buffers : writer_buffer.index[o] = i /\ o # b => Before(o, b)
    BY <1>7 DEF Safe
  <2>2. data'[b] = data[b]
    BY <1>7
  <2>3. Coming(e, b)'
    <3>1. data'[b] = e
      BY <2>1, <2>2 DEF Coming
    <3>2. b \in Range(main.held) \/ Queued(e, b) \/ Written(e)
      BY <2>1 DEF Coming
    <3>3. b \in Range(main'.held) \/ Queued(e, b)' \/ Written(e)'
      BY <1>4, <1>5, <1>7, <3>2
    <3>4. QED BY <3>1, <3>3 DEF Coming
  <2>4. ASSUME NEW o \in Buffers, writer_buffer'.index[o] = i, o # b PROVE Before(o, b)'
    <3>1. /\ writer_buffer.index[o] = i
          /\ Ahead(writer_buffer.free, o, b) => Ahead(writer_buffer'.free, o, b)
      BY <1>7, <2>4
    <3>2. Before(o, b)
      BY <2>1, <2>4, <3>1
    <3>3. CASE Ahead(writer_buffer.free, o, b)
      BY <3>1, <3>3 DEF Before
    <3>4. CASE Ahead(to_writer, o, b) /\ b \in Range(to_writer) \cup Range(main.held)
      <4>1. Ahead(to_writer', o, b)
        BY <1>1, <3>4, AheadExtended
      <4>2. b \in Range(to_writer') \cup Range(main'.held)
        BY <1>3, <1>6, <1>7, <3>4
      <4>3. QED BY <4>1, <4>2 DEF Before
    <3>5. QED BY <3>2, <3>3, <3>4 DEF Before
  <2>5. QED BY <2>3, <2>4
<1>8. Found(writer_buffer', i) = NoBuffer => Written(e)'
  BY <1>4 DEF Safe
<1>9. QED BY <1>7, <1>8 DEF Safe

(* A step that leaves alone what is hashed, looked up or not.              *)
LEMMA SafeLeft ==
  ASSUME UseInv, UseInv', NEW e \in Extents, NEW i \in Indexes, Safe(e, i),
         NEW x, KeptBut(x), UNCHANGED <<to_writer, data>>, OnDisk(e) => OnDisk(e)',
         \A b \in Buffers : Found(writer_buffer, i) = b /\ b \in Range(main.held)
                            => b \in Range(main'.held)
  PROVE  Safe(e, i)'
<1>1. /\ writer_buffer.free \in Seq(Buffers) /\ IsInjective(writer_buffer.free)
      /\ writer_buffer'.free \in Seq(Buffers)
  <2>1. writer_buffer.free \in Seq(Buffers) /\ IsInjective(writer_buffer.free)
    BY FreeIs
  <2>2. writer_buffer'.free \in Seq(Buffers)
    BY DEF UseInv, Typed, CachesKept, CacheKept, CacheTyped
  <2>3. QED BY <2>1, <2>2
<1>2. ASSUME NEW b \in Buffers, Found(writer_buffer, i) = b,
             NEW o \in Buffers, writer_buffer.index[o] = i, o # b,
             Ahead(writer_buffer.free, o, b)
      PROVE  Ahead(writer_buffer'.free, o, b)
  <2>1. o # x
    BY <1>2 DEF KeptBut
  <2>2. PICK s : s = RemoveFirst(writer_buffer.free, x)
    OBVIOUS
  <2>3. Ahead(s, o, b)
    BY <1>1, <1>2, <2>1, <2>2, AheadRemoved
  <2>4. s \in Seq(Buffers)
    BY <1>1, <2>2, RemoveFirstOnce
  <2>5. Extends(s, writer_buffer'.free)
    BY <2>2 DEF KeptBut
  <2>6. QED BY <1>1, <2>3, <2>4, <2>5, AheadExtended
<1>3. /\ writer_buffer'.index = writer_buffer.index
      /\ Found(writer_buffer', i) = Found(writer_buffer, i)
  BY DEF KeptBut
<1>4. Extends(to_writer, to_writer')
  BY DEF Extends, UseInv, Typed, QueuesTyped
<1>5. \A j \in DOMAIN to_writer' : ~(j > Len(to_writer))
  BY DEF UseInv, Typed, QueuesTyped
<1>6. \A b \in Buffers : Found(writer_buffer, i) = b =>
        /\ data'[b] = data[b]
        /\ b \in Range(main.held) => b \in Range(main'.held) \/ Queued(e, b)'
        /\ \A o \in Buffers : writer_buffer'.index[o] = i /\ o # b =>
             /\ writer_buffer.index[o] = i
             /\ Ahead(writer_buffer.free, o, b) => Ahead(writer_buffer'.free, o, b)
  BY <1>2, <1>3
<1>7. \A b \in Range(to_writer) : data'[b] = data[b]
  OBVIOUS
<1>8. \A j \in DOMAIN to_writer' : j > Len(to_writer) => Apart(e, data'[to_writer'[j]])
  BY <1>5
<1>9. QED BY <1>3, <1>4, <1>6, <1>7, <1>8, SafeKept

(* The buffers main drops are found by nobody.                             *)
LEMMA HeldNotRecorded ==
  ASSUME UseInv, LayoutInv, NEW b \in Range(main.held), NEW e \in Extents, NEW i \in Indexes,
         data[b] = e, writer_buffer.index[b] = i
  PROVE  /\ \A k \in DOMAIN files : e \in Range(files[k].list) => e.size = 0
         /\ \A f \in Frags : i # FragIndex + f
<1>1. /\ main.start <= e.pos /\ i = e.pos /\ main.start \in Nat
      /\ \A k \in DOMAIN files : \A x \in Range(files[k].list) : End(x) <= main.start
  BY MainFields DEF LayoutInv, HeldIs, Range, UseInv, Typed
<1>2. e.pos \in Nat /\ e.size \in Nat /\ End(e) = e.pos + e.size /\ e.pos \in 0 .. MaxBytes
  BY ExtentEnds
<1>3. \A f \in Frags : i # FragIndex + f
  BY <1>1, <1>2, FragIndexes
<1>4. QED BY <1>1, <1>2, <1>3

(* Main gives its space back, and with the list what it held.              *)
LEMMA DroppedSafe ==
  ASSUME FoundInv, UseInv', NEW x, KeptBut(x), UNCHANGED <<to_writer, data, disk>>,
         UNCHANGED <<files, fragment_table>>, main'.list = <<>>
  PROVE  AllSafe'
<1>1. UseInv /\ LayoutInv /\ Layout /\ AllSafe
  BY DEF FoundInv, LayoutInv
<1>2. Placed' = Placed
  BY DEF Placed
<1>3. Recorded' = UNION {Range(files[k].list) : k \in DOMAIN files}
  BY EmptyList DEF Recorded
<1>4. ASSUME NEW e \in Extents, NEW i \in Indexes, LiveAt(e, i)'
      PROVE  Safe(e, i)'
  <2>1. LiveAt(e, i)
    BY <1>2, <1>3, <1>4 DEF LiveAt, Recorded
  <2>2. Safe(e, i)
    BY <1>1, <2>1 DEF AllSafe
  <2>3. e.size > 0
    BY <1>1, <2>1, LiveIs
  <2>4. ASSUME NEW b \in Buffers, Found(writer_buffer, i) = b PROVE b \notin Range(main.held)
    <3>1. data[b] = e
      BY <2>2, <2>4 DEF Safe, Coming
    <3>2. writer_buffer.index[b] = i
      BY <1>1, <2>4, FoundHere
    <3>3. SUFFICES ASSUME b \in Range(main.held) PROVE FALSE
      OBVIOUS
    <3>4. /\ \A k \in DOMAIN files : e \in Range(files[k].list) => e.size = 0
          /\ \A f \in Frags : i # FragIndex + f
      BY <1>1, <3>1, <3>2, <3>3, HeldNotRecorded
    <3>5. e \notin Recorded'
      BY <1>3, <2>3, <3>4
    <3>6. PICK f \in Placed : i = FragIndex + f
      BY <1>2, <1>4, <3>5 DEF LiveAt
    <3>7. QED BY <3>4, <3>6 DEF Placed
  <2>5. OnDisk(e) => OnDisk(e)'
    BY DEF OnDisk
  <2>6. QED BY <1>1, <2>2, <2>4, <2>5, SafeLeft
<1>5. QED BY <1>4 DEF AllSafe

(* Main goes on, with what it holds.                                       *)
LEMMA GoingOnSafe ==
  ASSUME FoundInv, UseInv', NEW x, KeptBut(x), UNCHANGED <<to_writer, data, fragment_table>>,
         Recorded' \subseteq Recorded, main'.held = main.held,
         \A e \in Extents : End(e) <= bytes /\ OnDisk(e) => OnDisk(e)'
  PROVE  AllSafe'
<1>1. UseInv /\ Layout /\ AllSafe
  BY DEF FoundInv, LayoutInv
<1>2. Placed' = Placed
  BY DEF Placed
<1>3. ASSUME NEW e \in Extents, NEW i \in Indexes, LiveAt(e, i)'
      PROVE  Safe(e, i)'
  <2>1. LiveAt(e, i)
    BY <1>2, <1>3 DEF LiveAt
  <2>2. Safe(e, i)
    BY <1>1, <2>1 DEF AllSafe
  <2>3. End(e) <= bytes
    BY <1>1, <2>1, LiveIs
  <2>4. QED BY <1>1, <2>2, <2>3, SafeLeft
<1>4. QED BY <1>3 DEF AllSafe

LEMMA FillRecorded ==
  ASSUME UseInv, Fill
  PROVE  Recorded' \subseteq Recorded
<1>1. main \in Mains /\ main.list \in Seq(Extents)
  BY MainFields DEF UseInv, Typed, MainTyped
<1>2. main'.list = main.list \/ main'.list = <<>>
  BY <1>1 DEF Fill, Idle, Mains
<1>3. PICK r : files' = Append(files, r) /\ r.list = main.list
  <2>1. PICK r : r = [list |-> main.list, frag |-> IF main.tail THEN fragments ELSE NoFragment]
    OBVIOUS
  <2>2. QED BY <2>1 DEF Fill
<1>4. ASSUME NEW i \in DOMAIN files', NEW e \in Range(files'[i].list)
      PROVE  e \in Range(main.list) \/ \E j \in DOMAIN files : e \in Range(files[j].list)
  BY <1>3, <1>4 DEF UseInv, Typed, OutputTyped
<1>5. Range(main'.list) \subseteq Range(main.list)
  BY <1>2, EmptyList
<1>6. QED BY <1>4, <1>5 DEF Recorded

(* The steps that move no block.                                           *)
LEMMA KeepingSafe ==
  ASSUME FoundInv, UseInv',
         \/ (\E d \in FragDeflators : SettleFragment(d) /\ fragments_locked)
         \/ (\E d \in FragDeflators : AddPendingFragment(d))
         \/ StartFile \/ FileRead \/ ReadError \/ UnlockDone \/ Truncate
         \/ WriteFileFrag \/ CompareBlock \/ GetFragment \/ GetFragmentBuffer
         \/ ReadFragment \/ Duplicate \/ WriteFragment \/ Fill \/ UNCHANGED vars
  PROVE  AllSafe'
<1>1. UseInv /\ main \in Mains /\ MainShape
  BY DEF FoundInv, UseInv, Typed, MainTyped
<1>2. PICK x : KeptBut(x)
  BY <1>1, WriterKept DEF Keeping
<1>3. UNCHANGED <<to_writer, data, fragment_table>>
  BY Zenon DEF SettleFragment, AddPendingFragment, StartFile, FileRead, ReadError, GiveBack,
     Truncate, UnlockDone, WriteFileFrag, CompareBlock, GetFragment, GetFragmentBuffer,
     ReadFragment, Duplicate, GiveBackHeld, WriteFragment, Fill, others, vars
<1>4. CASE Truncate
  <2>1. /\ UNCHANGED <<files, main.list, main.held>>
        /\ disk' = [p \in DOMAIN disk |-> IF p <= bytes THEN disk[p] ELSE <<"nothing">>]
    BY <1>1, <1>4 DEF Truncate, Mains
  <2>2. ASSUME NEW e \in Extents, End(e) <= bytes, OnDisk(e) PROVE OnDisk(e)'
    <3>1. /\ DOMAIN disk = 1 .. MaxBytes /\ bytes \in 0 .. MaxBytes
          /\ e.pos \in Nat /\ e.size \in Nat /\ End(e) = e.pos + e.size
      BY <1>1, ExtentEnds DEF UseInv, Typed, OutputTyped
    <3>2. ASSUME NEW p \in e.pos + 1 .. e.pos + e.size PROVE disk'[p] = e.owner
      <4>1. p \in 1 .. MaxBytes /\ p <= bytes
        BY <2>2, <3>1
      <4>2. disk'[p] = disk[p]
        BY <2>1, <3>1, <4>1
      <4>3. QED BY <2>2, <4>2 DEF OnDisk
    <3>3. QED BY <3>2 DEF OnDisk
  <2>3. Recorded' \subseteq Recorded
    BY <2>1 DEF Recorded
  <2>4. QED BY <1>2, <1>3, <2>1, <2>2, <2>3, GoingOnSafe
<1>5. CASE UnlockDone /\ main.next # "fill"
  <2>1. UNCHANGED <<files, disk>> /\ main'.list = <<>>
    BY <1>5 DEF UnlockDone, Idle
  <2>2. QED BY <1>2, <1>3, <2>1, DroppedSafe
<1>6. CASE Duplicate
  <2>1. UNCHANGED <<files, disk>>
    BY <1>6 DEF Duplicate, GiveBackHeld
  <2>2. ASSUME main.mode = "dup" PROVE main'.list = <<>>
    BY <1>1, <1>6, <2>2 DEF Duplicate, GiveBackHeld, Mains
  <2>3. ASSUME main.mode # "dup" PROVE main'.list = <<>>
    BY <1>6, <2>3 DEF Duplicate, Idle
  <2>4. QED BY <1>2, <1>3, <2>1, <2>2, <2>3, DroppedSafe
<1>7. CASE ~Truncate /\ ~(UnlockDone /\ main.next # "fill") /\ ~Duplicate
  <2>1. disk' = disk
    BY Zenon, <1>7 DEF SettleFragment, AddPendingFragment, StartFile, FileRead, ReadError, GiveBack,
       UnlockDone, WriteFileFrag, CompareBlock, GetFragment, GetFragmentBuffer,
       ReadFragment, WriteFragment, Fill, vars
  <2>2. main'.held = main.held /\ Recorded' \subseteq Recorded
    <3>1. CASE StartFile \/ WriteFileFrag
      <4>1. main.held = <<>> /\ main'.held = <<>> /\ main'.list = <<>> /\ files' = files
        BY <1>1, <3>1 DEF StartFile, WriteFileFrag, Idle, MainShape
      <4>2. QED BY <4>1, EmptyList DEF Recorded
    <3>2. CASE UnlockDone /\ main.next = "fill"
      <4>1. main'.held = main.held /\ main'.list = main.list /\ files' = files
        BY <1>1, <3>2 DEF UnlockDone, Mains
      <4>2. QED BY <4>1 DEF Recorded
    <3>3. CASE Fill
      <4>1. main.held = <<>>
        BY <1>1, <3>3 DEF Fill, MainShape
      <4>2. main'.held = <<>>
        BY <1>1, <3>3, <4>1 DEF Fill, Idle, Mains
      <4>3. QED BY <1>1, <3>3, <4>1, <4>2, FillRecorded
    <3>4. CASE ReadError
      <4>1. main'.held = main.held /\ main'.list = <<>> /\ files' = files
        BY <1>1, <3>4 DEF ReadError, GiveBack, Mains
      <4>2. QED BY <4>1, EmptyList DEF Recorded
    <3>5. CASE FileRead \/ GetFragment \/ GetFragmentBuffer \/ ReadFragment
      <4>1. main'.held = main.held /\ main'.list = main.list /\ files' = files
        BY <1>1, <3>5, MainKeeps
      <4>2. QED BY <4>1 DEF Recorded
    <3>6. CASE \/ (\E d \in FragDeflators : SettleFragment(d) /\ fragments_locked)
               \/ (\E d \in FragDeflators : AddPendingFragment(d))
               \/ CompareBlock \/ WriteFragment \/ UNCHANGED vars
      <4>1. main' = main /\ files' = files
        BY <3>6 DEF SettleFragment, AddPendingFragment, CompareBlock, WriteFragment, others, vars
      <4>2. QED BY <4>1 DEF Recorded
    <3>7. QED BY <1>7, <3>1, <3>2, <3>3, <3>4, <3>5, <3>6
  <2>3. \A e \in Extents : OnDisk(e) => OnDisk(e)'
    BY <2>1 DEF OnDisk
  <2>4. QED BY <1>2, <1>3, <2>2, <2>3, GoingOnSafe
<1>8. QED BY <1>4, <1>5, <1>6, <1>7

(* The writer writes the first of its buffers, and puts it back behind all *)
(* others of the free list.                                                *)
LEMMA WritePut ==
  ASSUME FoundInv, Write, NEW h, h = Head(to_writer)
  PROVE  /\ h \in Buffers /\ h \in Range(to_writer) /\ to_writer' = Tail(to_writer)
         /\ KeptBut(NoBuffer) /\ writer_buffer' = Put(writer_buffer, h)
         /\ UNCHANGED <<main, files, data, fragment_table>>
         /\ \A b \in Buffers : /\ writer_buffer.index[b] = writer_buffer.index[h] /\ b # h
                               /\ writer_buffer.used[b] # 0
                               /\ writer_buffer.index[h] # NoIndex
                               => Ahead(writer_buffer'.free, h, b)
<1>1. UseInv
  BY DEF FoundInv
<1>2. to_writer \in Seq(Buffers) /\ to_writer # <<>>
  BY <1>1 DEF UseInv, Typed, QueuesTyped, Write
<1>3. h \in Buffers /\ h \in Range(to_writer)
  BY <1>2, TailIs, TailIn
<1>4. /\ to_writer' = Tail(to_writer) /\ writer_buffer' = Put(writer_buffer, h)
      /\ UNCHANGED <<main, files, data, fragment_table>>
  BY DEF Write
<1>5. KeptBut(NoBuffer)
  BY <1>1, <1>3, <1>4, KeptPut
<1>6. ASSUME NEW b \in Buffers, writer_buffer.index[b] = writer_buffer.index[h], b # h,
             writer_buffer.used[b] # 0, writer_buffer.index[h] # NoIndex
      PROVE  Ahead(writer_buffer'.free, h, b)
  <2>1. main.fetch.compressed # h
    <3>1. SUFFICES ASSUME main.fetch.compressed = h PROVE FALSE
      OBVIOUS
    <3>2. h # NoBuffer
      BY <1>3
    <3>3. PICK f \in Frags : writer_buffer.index[h] = FragIndex + f
      BY <3>1, <3>2 DEF FoundInv, PackInv, FetchIs
    <3>4. b = h
      BY <1>3, <1>6, <3>3 DEF FoundInv, PackInv, FragData
    <3>5. QED BY <1>6, <3>4
  <2>2. writer_buffer.used[h] = 1
    BY <1>1, <1>3, <2>1, OneHas
  <2>3. /\ writer_buffer.free \in Seq(Buffers) /\ b \notin Range(writer_buffer.free)
    BY <1>1, <1>6, FreeIs
  <2>4. writer_buffer'.free = Append(writer_buffer.free, h)
    <3>1. PICK c : c = writer_buffer
      OBVIOUS
    <3>2. CacheTyped(c, Buffers, Indexes)
      BY <1>1, <3>1 DEF UseInv, Typed, CachesKept, CacheKept
    <3>3. c.used[h] = 1 /\ c.index[h] # NoIndex
      BY <1>6, <2>2, <3>1
    <3>4. Put(c, h).free = Append(c.free, h)
      BY <3>2, <3>3 DEF Put, CacheTyped
    <3>5. QED BY <1>4, <3>1, <3>4
  <2>5. PICK s : s = Append(writer_buffer.free, h)
    OBVIOUS
  <2>6. s \in Seq(Buffers) /\ Range(s) = Range(writer_buffer.free) \cup {h}
    <3>1. PICK t : t = writer_buffer.free
      OBVIOUS
    <3>2. t \in Seq(Buffers)
      BY <2>3, <3>1
    <3>3. Append(t, h) \in Seq(Buffers)
      BY <1>3, <3>2, AppendIs
    <3>4. Range(Append(t, h)) = Range(t) \cup {h}
      BY <1>3, <3>2, AppendOnce
    <3>5. QED BY <2>5, <3>1, <3>3, <3>4
  <2>7. h \in Range(s) /\ b \notin Range(s)
    BY <1>6, <2>3, <2>6
  <2>8. Ahead(s, h, b)
    BY <2>6, <2>7, AheadAlone
  <2>9. QED BY <2>4, <2>5, <2>8
<1>7. QED BY <1>3, <1>4, <1>5, <1>6

LEMMA WriteSafe ==
  ASSUME FoundInv, UseInv', Write
  PROVE  AllSafe'
<1>1. UseInv /\ Layout /\ AllSafe
  BY DEF FoundInv, LayoutInv
<1>2. PICK h : h = Head(to_writer)
  OBVIOUS
<1>3. /\ h \in Buffers /\ h \in Range(to_writer) /\ to_writer' = Tail(to_writer)
      /\ KeptBut(NoBuffer)
      /\ UNCHANGED <<main, files, data, fragment_table>>
      /\ \A b \in Buffers : /\ writer_buffer.index[b] = writer_buffer.index[h] /\ b # h
                            /\ writer_buffer.used[b] # 0
                            /\ writer_buffer.index[h] # NoIndex
                            => Ahead(writer_buffer'.free, h, b)
  BY <1>2, WritePut
<1>4. /\ to_writer \in Seq(Buffers) /\ to_writer # <<>> /\ Len(to_writer) \in Nat
      /\ DOMAIN disk = 1 .. MaxBytes /\ bytes \in 0 .. MaxBytes /\ data \in [Buffers -> Extents]
  BY <1>1 DEF UseInv, Typed, QueuesTyped, OutputTyped, Write
<1>5. /\ Len(Tail(to_writer)) = Len(to_writer) - 1 /\ Tail(to_writer) \in Seq(Buffers)
      /\ h = to_writer[1]
      /\ \A i \in 1 .. Len(to_writer) - 1 : Tail(to_writer)[i] = to_writer[i + 1]
      /\ Range(Tail(to_writer)) \subseteq Range(to_writer)
      /\ \A x \in Range(to_writer) : x = h \/ x \in Range(Tail(to_writer))
  <2>1. /\ Tail(to_writer) \in Seq(Buffers) /\ Len(Tail(to_writer)) = Len(to_writer) - 1
        /\ Head(to_writer) \in Buffers /\ Head(to_writer) = to_writer[1]
        /\ \A i \in 1 .. Len(to_writer) - 1 : Tail(to_writer)[i] = to_writer[i + 1]
    BY <1>4, TailIs
  <2>2. /\ Range(Tail(to_writer)) \subseteq Range(to_writer)
        /\ \A x \in Range(to_writer) : x = Head(to_writer) \/ x \in Range(Tail(to_writer))
    BY <1>4, TailIn
  <2>3. QED BY <1>2, <2>1, <2>2
<1>6. Placed' = Placed /\ Recorded' = Recorded
  BY <1>3 DEF Placed, Recorded
<1>7. PICK d \in Extents : d = data[h]
  BY <1>3, <1>4
<1>8. disk' = [p \in DOMAIN disk |-> IF p > d.pos /\ p <= d.pos + d.size THEN d.owner ELSE disk[p]]
  BY <1>2, <1>7 DEF Write
<1>9. ASSUME NEW e \in Extents, NEW i \in Indexes, LiveAt(e, i)' PROVE Safe(e, i)'
  <2>1. LiveAt(e, i)
    BY <1>6, <1>3, <1>9 DEF LiveAt
  <2>2. Safe(e, i)
    BY <1>1, <2>1 DEF AllSafe
  <2>3. /\ e.pos \in Nat /\ e.size \in Nat /\ End(e) = e.pos + e.size
        /\ d.pos \in Nat /\ d.size \in Nat /\ End(d) = d.pos + d.size
    BY ExtentEnds
  <2>4. \A p \in e.pos + 1 .. e.pos + e.size : p \in DOMAIN disk /\ p \in Nat
    <3>1. End(e) <= bytes
      BY <1>1, <2>1, LiveIs
    <3>2. QED BY <1>4, <2>3, <3>1
  <2>5. ASSUME Written(e) PROVE Written(e)'
    <3>1. Apart(e, d)
      BY <1>3, <1>7, <2>5 DEF Written
    <3>2. ASSUME NEW p \in e.pos + 1 .. e.pos + e.size PROVE disk'[p] = e.owner
      <4>1. ~(p > d.pos /\ p <= d.pos + d.size)
        BY <2>3, <2>4, <3>1 DEF Apart
      <4>2. disk'[p] = disk[p]
        BY <1>8, <2>4, <4>1
      <4>3. QED BY <2>5, <4>2 DEF Written, OnDisk
    <3>3. \A b \in Range(to_writer') : Apart(e, data'[b])
      BY <1>3, <1>5, <2>5 DEF Written
    <3>4. QED BY <3>2, <3>3 DEF Written, OnDisk
  <2>6. Found(writer_buffer', i) = Found(writer_buffer, i)
        /\ writer_buffer'.index = writer_buffer.index
    BY <1>3 DEF KeptBut
  <2>7. ASSUME NEW b \in Buffers, Found(writer_buffer, i) = b
        PROVE  /\ Coming(e, b)'
               /\ \A o \in Buffers : writer_buffer.index[o] = i /\ o # b => Before(o, b)'
    <3>1. /\ Coming(e, b)
          /\ \A o \in Buffers : writer_buffer.index[o] = i /\ o # b => Before(o, b)
          /\ writer_buffer.index[b] = i
      BY <1>1, <2>2, <2>7, FoundHere DEF Safe
    <3>2. ASSUME Queued(e, b) PROVE Queued(e, b)' \/ Written(e)'
      <4>1. PICK k \in DOMAIN to_writer :
              /\ to_writer[k] = b
              /\ \A j \in DOMAIN to_writer : k < j => Apart(e, data[to_writer[j]])
        BY <3>2 DEF Queued
      <4>2. ASSUME NEW j \in DOMAIN to_writer'
            PROVE  /\ j \in Nat /\ j + 1 \in DOMAIN to_writer
                   /\ to_writer'[j] = to_writer[j + 1]
        <5>1. j \in 1 .. Len(to_writer) - 1
          BY <1>3, <1>4, <1>5, <4>2
        <5>2. QED BY <1>3, <1>4, <1>5, <5>1
      <4>3. CASE k = 1
        <5>1. d = e
          BY <1>5, <1>7, <3>1, <4>1, <4>3 DEF Coming
        <5>2. \A p \in e.pos + 1 .. e.pos + e.size : disk'[p] = e.owner
          BY <1>8, <2>3, <2>4, <5>1
        <5>3. \A j \in DOMAIN to_writer' : Apart(e, data'[to_writer'[j]])
          BY <1>3, <4>1, <4>2, <4>3
        <5>4. \A x \in Range(to_writer') : Apart(e, data'[x])
          BY <5>3 DEF Range
        <5>5. QED BY <5>2, <5>4 DEF Written, OnDisk
      <4>4. CASE k # 1
        <5>1. k \in 2 .. Len(to_writer)
          BY <1>4, <4>1, <4>4
        <5>2. /\ k - 1 \in 1 .. Len(to_writer) - 1 /\ k - 1 \in DOMAIN to_writer'
              /\ to_writer'[k - 1] = b
          <6>1. k - 1 \in 1 .. Len(to_writer) - 1 /\ (k - 1) + 1 = k
            BY <1>4, <5>1
          <6>2. Tail(to_writer)[k - 1] = to_writer[k]
            BY <1>5, <6>1
          <6>3. QED BY <1>3, <1>4, <1>5, <4>1, <6>1, <6>2
        <5>3. ASSUME NEW j \in DOMAIN to_writer', k - 1 < j PROVE Apart(e, data'[to_writer'[j]])
          BY <1>3, <4>1, <4>2, <5>1, <5>3
        <5>4. QED BY <5>2, <5>3 DEF Queued
      <4>5. QED BY <4>3, <4>4
    <3>3. Coming(e, b)'
      <4>1. data'[b] = e /\ main' = main
        BY <1>3, <3>1 DEF Coming
      <4>2. b \in Range(main.held) \/ Queued(e, b)' \/ Written(e)'
        BY <2>5, <3>1, <3>2 DEF Coming
      <4>3. QED BY <4>1, <4>2 DEF Coming
    <3>4. ASSUME NEW o \in Buffers, writer_buffer.index[o] = i, o # b PROVE Before(o, b)'
      <4>1. Before(o, b)
        BY <3>1, <3>4
      <4>2. CASE Ahead(writer_buffer.free, o, b)
        <5>1. writer_buffer.free \in Seq(Buffers)
          BY <1>1, FreeIs
        <5>2. writer_buffer'.free \in Seq(Buffers)
          BY DEF UseInv, Typed, CachesKept, CacheKept, CacheTyped
        <5>3. Extends(writer_buffer.free, writer_buffer'.free)
          BY <1>1, <1>3, NothingTaken DEF KeptBut
        <5>4. Ahead(writer_buffer'.free, o, b)
          BY <4>2, <5>1, <5>2, <5>3, AheadExtended
        <5>5. QED BY <5>4 DEF Before
      <4>3. CASE Ahead(to_writer, o, b) /\ b \in Range(to_writer) \cup Range(main.held)
        <5>1. b # h
          BY <1>2, <1>4, <4>3, AheadOfHead
        <5>2. b \in Range(to_writer') \cup Range(main'.held)
          BY <1>3, <1>5, <4>3, <5>1
        <5>3. CASE o # h
          <6>1. Ahead(Tail(to_writer), o, b)
            BY <1>2, <1>4, <4>3, <5>3, AheadInTail
          <6>2. Ahead(to_writer', o, b)
            BY <1>3, <6>1
          <6>3. QED BY <5>2, <6>2 DEF Before
        <5>4. CASE o = h
          <6>1. writer_buffer.used[b] # 0
            BY <1>1, <4>3, OneHas
          <6>2. i # NoIndex
            BY IndexesAre
          <6>3. Ahead(writer_buffer'.free, h, b)
            BY <1>3, <3>1, <3>4, <5>1, <5>4, <6>1, <6>2
          <6>4. QED BY <5>4, <6>3 DEF Before
        <5>5. QED BY <5>3, <5>4
      <4>4. QED BY <4>1, <4>2, <4>3 DEF Before
    <3>5. QED BY <3>3, <3>4
  <2>8. Found(writer_buffer', i) = NoBuffer => Written(e)'
    BY <2>2, <2>5, <2>6 DEF Safe
  <2>9. QED BY <2>6, <2>7, <2>8 DEF Safe
<1>10. QED BY <1>9 DEF AllSafe

(* Where main holds a block, that is what is found, and everything else on *)
(* record is apart from it.                                                *)
LEMMA HeldIsFound ==
  ASSUME FoundInv, Placing, NEW e \in Extents, NEW i \in Indexes, LiveAt(e, i),
         NEW h \in Range(main.held)
  PROVE  \/ data[h] = e /\ Found(writer_buffer, i) = h
         \/ data[h] # e /\ Apart(e, data[h])
<1>1. UseInv /\ Layout /\ HeldIs /\ AllSafe
  BY DEF FoundInv, LayoutInv
<1>2. h \in Buffers /\ data[h] \in Extents /\ main.start \in Nat
  BY <1>1, MainFields DEF UseInv, Typed, OutputTyped, Range
<1>3. PICK d \in Extents : d = data[h]
  BY <1>2
<1>4. d \in Range(main.list) /\ main.start <= d.pos /\ writer_buffer.index[h] = d.pos
  BY <1>1, <1>3 DEF HeldIs
<1>5. /\ Old(e) \/ e \in Range(main.list)
      /\ e.size > 0 /\ End(e) <= bytes
  BY <1>1, LiveIs
<1>6. /\ d.pos \in Nat /\ d.size \in Nat /\ End(d) = d.pos + d.size
      /\ e.pos \in Nat /\ e.size \in Nat /\ End(e) = e.pos + e.size
      /\ e.pos \in 0 .. MaxBytes
  BY ExtentEnds
<1>7. CASE Old(e)
  <2>1. End(e) <= main.start
    BY <1>1, <1>7 DEF Layout
  <2>2. End(e) <= d.pos
    BY <1>2, <1>4, <1>6, <2>1
  <2>3. d # e
    BY <1>5, <1>6, <2>2
  <2>4. QED BY <1>3, <2>2, <2>3 DEF Apart
<1>8. CASE ~Old(e) /\ d # e
  <2>1. Apart(e, d)
    BY <1>1, <1>4, <1>5, <1>8 DEF Layout
  <2>2. QED BY <1>3, <1>8, <2>1
<1>9. CASE ~Old(e) /\ d = e
  <2>1. i = e.pos
    BY <1>9 DEF LiveAt, Old
  <2>2. writer_buffer.index[h] = i
    BY <1>4, <1>9, <2>1
  <2>3. PICK b : b = Found(writer_buffer, i)
    OBVIOUS
  <2>4. b # NoBuffer /\ b \in Buffers
    BY <1>1, <1>2, <2>2, <2>3, FoundHere
  <2>5. ASSUME h # b PROVE FALSE
    <3>1. Before(h, b)
      BY <1>1, <1>2, <2>2, <2>3, <2>4, <2>5 DEF AllSafe, Safe
    <3>2. h \notin Range(writer_buffer.free) /\ h \notin Range(to_writer)
      BY <1>1, <1>2, FreeIs, OneHas
    <3>3. writer_buffer.free \in Seq(Buffers) /\ to_writer \in Seq(Buffers)
      BY <1>1, FreeIs DEF UseInv, Typed, QueuesTyped
    <3>4. Ahead(writer_buffer.free, h, b) => h \in Range(writer_buffer.free)
      BY <3>3, AheadIn
    <3>5. Ahead(to_writer, h, b) => h \in Range(to_writer)
      BY <3>3, AheadIn
    <3>6. QED BY <3>1, <3>2, <3>4, <3>5 DEF Before
  <2>6. QED BY <1>3, <1>9, <2>3, <2>5
<1>10. QED BY <1>7, <1>8, <1>9

(* No duplicate is found: what main held is written after all.             *)
LEMMA NotDuplicateSafe ==
  ASSUME FoundInv, UseInv', NotDuplicate
  PROVE  AllSafe'
<1>1. UseInv /\ Layout /\ HeldIs /\ AllSafe /\ main \in Mains /\ MainShape
  BY DEF FoundInv, LayoutInv, UseInv, Typed, MainTyped
<1>2. /\ UNCHANGED <<files, writer_buffer, data, disk, fragment_table>>
      /\ to_writer' = to_writer \o main.held /\ main.pc = "compare"
  BY DEF NotDuplicate, others
<1>3. main'.list = main.list /\ main'.held = <<>>
  BY <1>1 DEF NotDuplicate, Mains
<1>4. Recorded' = Recorded /\ Placed' = Placed
  BY <1>2, <1>3 DEF Recorded, Placed
<1>5. PICK s, t : s = to_writer /\ t = main.held
  OBVIOUS
<1>6. s \in Seq(Buffers) /\ t \in Seq(Buffers)
  BY <1>1, <1>5, MainFields DEF UseInv, Typed, QueuesTyped
<1>7. /\ s \o t \in Seq(Buffers) /\ Extends(s, s \o t)
      /\ Len(s \o t) = Len(s) + Len(t) /\ Len(s) \in Nat /\ Len(t) \in Nat
      /\ \A k \in 1 .. Len(t) : (s \o t)[Len(s) + k] = t[k]
      /\ \A k \in 1 .. Len(s) : (s \o t)[k] = s[k]
      /\ Range(s \o t) = Range(s) \cup Range(t)
  BY <1>6, ConcatIs
<1>8. PICK w : w = s \o t
  OBVIOUS
<1>9. to_writer' = w /\ DOMAIN w = 1 .. Len(s) + Len(t) /\ w \in Seq(Buffers)
  BY <1>2, <1>5, <1>7, <1>8
<1>10. ASSUME NEW j \in DOMAIN w, j > Len(s)
       PROVE  /\ j - Len(s) \in DOMAIN t /\ j - Len(s) \in Nat
              /\ w[j] = t[j - Len(s)] /\ w[j] \in Range(t)
  <2>1. j - Len(s) \in 1 .. Len(t) /\ Len(s) + (j - Len(s)) = j
    BY <1>7, <1>9, <1>10
  <2>2. w[j] = t[j - Len(s)]
    BY <1>7, <1>8, <2>1
  <2>3. j - Len(s) \in DOMAIN t
    BY <1>6, <2>1
  <2>4. QED BY <2>1, <2>2, <2>3 DEF Range
<1>11. Range(t) # {} => Placing
  <2>1. Range(t) # {} => t # <<>>
    BY EmptyList
  <2>2. QED BY <1>1, <1>2, <1>5, <2>1 DEF Placing, MainShape
<1>12. ASSUME NEW e \in Extents, NEW i \in Indexes, LiveAt(e, i)' PROVE Safe(e, i)'
  <2>1. LiveAt(e, i) /\ Safe(e, i)
    BY <1>1, <1>2, <1>4, <1>12 DEF LiveAt, AllSafe
  <2>2. ASSUME NEW h \in Range(t)
        PROVE  \/ data[h] = e /\ Found(writer_buffer, i) = h
               \/ data[h] # e /\ Apart(e, data[h])
    BY <1>5, <1>11, <2>1, <2>2, HeldIsFound
  <2>3. CASE \E h \in Range(t) : Found(writer_buffer, i) = h
    <3>1. PICK k \in DOMAIN t : Found(writer_buffer, i) = t[k]
      BY <2>3 DEF Range
    <3>2. PICK b \in Buffers : b = t[k] /\ b \in Range(t) /\ b = Found(writer_buffer, i)
      BY <1>6, <3>1 DEF Range
    <3>3. /\ data[b] = e
          /\ \A o \in Buffers : writer_buffer.index[o] = i /\ o # b => Before(o, b)
      BY <2>1, <3>2 DEF Safe, Coming
    <3>4. Len(s) + k \in DOMAIN w /\ w[Len(s) + k] = b /\ k \in Nat /\ k \in 1 .. Len(t)
      <4>1. k \in 1 .. Len(t)
        BY <1>6
      <4>2. Len(s) + k \in 1 .. Len(s) + Len(t) /\ k \in Nat
        BY <1>7, <4>1
      <4>3. QED BY <1>7, <1>8, <1>9, <3>2, <4>1, <4>2
    <3>5. ASSUME NEW j \in DOMAIN w, Len(s) + k < j PROVE Apart(e, data[w[j]])
      <4>1. j > Len(s) /\ k < j - Len(s)
        BY <1>7, <1>9, <3>4, <3>5
      <4>2. j - Len(s) \in DOMAIN t /\ w[j] = t[j - Len(s)]
        BY <1>10, <4>1
      <4>3. End(data[t[k]]) <= data[t[j - Len(s)]].pos
        BY <1>1, <1>5, <4>1, <4>2 DEF HeldIs
      <4>4. QED BY <3>2, <3>3, <4>2, <4>3 DEF Apart
    <3>6. Queued(e, b)'
      BY <1>2, <1>9, <3>4, <3>5 DEF Queued
    <3>7. Coming(e, b)'
      BY <1>2, <3>3, <3>6 DEF Coming
    <3>8. ASSUME NEW o \in Buffers, writer_buffer.index[o] = i, o # b PROVE Before(o, b)'
      <4>1. Before(o, b)
        BY <3>3, <3>8
      <4>2. ASSUME Ahead(s, o, b) PROVE Ahead(w, o, b)
        BY <1>6, <1>7, <1>8, <4>2, AheadExtended
      <4>3. b \in Range(to_writer')
        BY <1>7, <1>8, <1>9, <3>2
      <4>4. QED BY <1>2, <1>5, <1>9, <4>1, <4>2, <4>3 DEF Before
    <3>9. Found(writer_buffer', i) = b /\ b # NoBuffer /\ writer_buffer'.index = writer_buffer.index
      BY <1>2, <3>2
    <3>10. QED BY <3>7, <3>8, <3>9 DEF Safe
  <2>4. CASE ~\E h \in Range(t) : Found(writer_buffer, i) = h
    <3>1. \A h \in Range(t) : Apart(e, data[h])
      BY <2>2, <2>4
    <3>2. Extends(to_writer, to_writer')
      BY <1>5, <1>7, <1>8, <1>9
    <3>3. \A j \in DOMAIN to_writer' : j > Len(to_writer) => Apart(e, data'[to_writer'[j]])
      BY <1>2, <1>5, <1>9, <1>10, <3>1
    <3>4. \A b \in Range(to_writer) : data'[b] = data[b]
      BY <1>2
    <3>5. OnDisk(e) => OnDisk(e)'
      BY <1>2 DEF OnDisk
    <3>6. \A b \in Buffers : Found(writer_buffer, i) = b =>
            /\ data'[b] = data[b]
            /\ b \in Range(main.held) => b \in Range(main'.held) \/ Queued(e, b)'
            /\ \A o \in Buffers : writer_buffer'.index[o] = i /\ o # b =>
                 /\ writer_buffer.index[o] = i
                 /\ Ahead(writer_buffer.free, o, b) => Ahead(writer_buffer'.free, o, b)
      BY <1>2, <1>5, <2>4
    <3>7. Found(writer_buffer', i) = Found(writer_buffer, i)
      BY <1>2
    <3>8. QED BY <1>1, <2>1, <3>2, <3>3, <3>4, <3>5, <3>6, <3>7, SafeKept
  <2>5. QED BY <2>3, <2>4
<1>13. QED BY <1>12 DEF AllSafe

(* A buffer is got for another use: if a block was found in it, the block  *)
(* is written, and nothing else is hashed under its index.                 *)
LEMMA GotSafe ==
  ASSUME FoundInv, UseInv', NEW a \in Gettable(writer_buffer, first_freelist),
         NEW i0 \in Indexes \cup {NoIndex}, NEW e0,
         writer_buffer' = Get(writer_buffer, a, i0), data' = [data EXCEPT ![a] = e0],
         UNCHANGED <<main, files, to_writer, disk, fragment_table>>,
         \A e \in Extents : ~LiveAt(e, i0)
  PROVE  AllSafe'
<1>1. UseInv /\ AllSafe /\ data \in [Buffers -> Extents]
  BY DEF FoundInv, UseInv, Typed, OutputTyped
<1>2. /\ a \in Buffers /\ writer_buffer.used[a] = 0
      /\ writer_buffer.index[a] # NoIndex =>
           writer_buffer.free # <<>> /\ a = Head(writer_buffer.free)
  BY <1>1, GotFirst
<1>3. Placed' = Placed /\ Recorded' = Recorded
  BY DEF Placed, Recorded
<1>4. /\ to_writer \in Seq(Buffers)
      /\ a \notin Range(to_writer) /\ a \notin Range(main.held)
  BY <1>1, <1>2, OneHas DEF UseInv, Typed, QueuesTyped
<1>5. \A b \in Buffers : b # a => data'[b] = data[b]
  BY <1>1
<1>6. \A b \in Range(to_writer) : data'[b] = data[b]
  BY <1>4, <1>5 DEF Range
<1>7. writer_buffer.free \in Seq(Buffers) /\ IsInjective(writer_buffer.free)
  BY <1>1, FreeIs
<1>8. /\ writer_buffer'.free = RemoveFirst(writer_buffer.free, a)
      /\ \A j \in Indexes : j # i0 /\ Found(writer_buffer, j) # a
                            => Found(writer_buffer', j) = Found(writer_buffer, j)
      /\ writer_buffer'.index[a] = i0
      /\ \A b \in Buffers : b # a => writer_buffer'.index[b] = writer_buffer.index[b]
  <2>1. PICK c : c = writer_buffer
    OBVIOUS
  <2>2. CacheKept(c, Buffers, Indexes)
    BY <1>1, <2>1 DEF UseInv, Typed, CachesKept
  <2>a. NoIndex \notin Indexes
    BY IndexesAre
  <2>b. a \in Buffers
    BY <1>2
  <2>c. i0 \in Indexes \cup {NoIndex}
    OBVIOUS
  <2>d. Get(c, a, i0).free = RemoveFirst(c.free, a)
    BY <2>2, <2>a, <2>b, <2>c, GetFound
  <2>e. ASSUME NEW j \in Indexes, j # i0, Found(c, j) # a
        PROVE  Found(Get(c, a, i0), j) = Found(c, j)
    BY <2>2, <2>a, <2>b, <2>c, <2>e, GetFound
  <2>3. /\ Get(c, a, i0).free = RemoveFirst(c.free, a)
        /\ \A j \in Indexes : j # i0 /\ Found(c, j) # a => Found(Get(c, a, i0), j) = Found(c, j)
    BY <2>d, <2>e
  <2>4. /\ CacheKept(Get(c, a, i0), Buffers, Indexes)
        /\ Get(c, a, i0).used = [c.used EXCEPT ![a] = 1]
        /\ Get(c, a, i0).index = [c.index EXCEPT ![a] = i0]
    BY <2>2, <2>a, <2>b, <2>c, GetKept
  <2>5. c.index \in [Buffers -> Indexes \cup {NoIndex}]
    BY <2>2 DEF CacheKept, CacheTyped
  <2>6. QED BY <1>2, <2>1, <2>3, <2>4, <2>5
<1>9. ASSUME NEW e \in Extents, NEW i \in Indexes, LiveAt(e, i)' PROVE Safe(e, i)'
  <2>1. LiveAt(e, i) /\ Safe(e, i) /\ i # i0
    BY <1>1, <1>3, <1>9 DEF LiveAt, AllSafe
  <2>2. CASE Found(writer_buffer, i) = a
    <3>1. /\ Coming(e, a) /\ writer_buffer.index[a] = i
          /\ \A o \in Buffers : writer_buffer.index[o] = i /\ o # a => Before(o, a)
      BY <1>1, <1>2, <2>1, <2>2, FoundHere DEF Safe
    <3>2. ~Queued(e, a)
      BY <1>4 DEF Queued, Range
    <3>3. Written(e)
      BY <1>4, <3>1, <3>2 DEF Coming
    <3>4. Written(e)'
      BY <1>6, <3>3 DEF Written, OnDisk
    <3>5. a = Head(writer_buffer.free) /\ writer_buffer.free # <<>>
      BY <1>2, <3>1, IndexesAre
    <3>6. \A o \in Buffers : ~Before(o, a)
      BY <1>4, <1>7, <3>5, AheadOfHead DEF Before
    <3>7. \A o \in Buffers : writer_buffer'.index[o] # i
      BY <1>8, <2>1, <3>1, <3>6
    <3>8. Found(writer_buffer', i) # NoBuffer =>
            /\ Found(writer_buffer', i) \in Buffers
            /\ writer_buffer'.index[Found(writer_buffer', i)] = i
      <4>1. PICK c : c = writer_buffer'
        OBVIOUS
      <4>2. CacheKept(c, Buffers, Indexes)
        BY <4>1 DEF UseInv, Typed, CachesKept
      <4>3. Found(c, i) # NoBuffer => Found(c, i) \in Buffers /\ c.index[Found(c, i)] = i
        BY <4>2, FoundIs
      <4>4. QED BY <4>1, <4>3
    <3>9. Found(writer_buffer', i) = NoBuffer
      BY <3>7, <3>8
    <3>10. QED BY <3>4, <3>9 DEF Safe
  <2>3. CASE Found(writer_buffer, i) # a
    <3>1. Found(writer_buffer', i) = Found(writer_buffer, i)
      BY <1>8, <2>1, <2>3
    <3>2. Extends(to_writer, to_writer')
      BY <1>4 DEF Extends
    <3>3. \A j \in DOMAIN to_writer' : j > Len(to_writer) => Apart(e, data'[to_writer'[j]])
      BY <1>4
    <3>4. OnDisk(e) => OnDisk(e)'
      BY DEF OnDisk
    <3>5. ASSUME NEW b \in Buffers, Found(writer_buffer, i) = b
          PROVE  /\ data'[b] = data[b]
                 /\ b \in Range(main.held) => b \in Range(main'.held) \/ Queued(e, b)'
                 /\ \A o \in Buffers : writer_buffer'.index[o] = i /\ o # b =>
                      /\ writer_buffer.index[o] = i
                      /\ Ahead(writer_buffer.free, o, b) => Ahead(writer_buffer'.free, o, b)
      <4>1. ASSUME NEW o \in Buffers, writer_buffer'.index[o] = i, o # b
            PROVE  /\ writer_buffer.index[o] = i
                   /\ Ahead(writer_buffer.free, o, b) => Ahead(writer_buffer'.free, o, b)
        <5>1. o # a /\ writer_buffer.index[o] = i
          BY <1>8, <2>1, <4>1
        <5>2. ASSUME Ahead(writer_buffer.free, o, b) PROVE Ahead(writer_buffer'.free, o, b)
          <6>1. Ahead(RemoveFirst(writer_buffer.free, a), o, b)
            BY <1>7, <5>1, <5>2, AheadRemoved
          <6>2. QED BY <1>8, <6>1
        <5>3. QED BY <5>1, <5>2
      <4>2. data'[b] = data[b]
        BY <1>5, <2>3, <3>5
      <4>3. QED BY <4>1, <4>2
    <3>6. QED BY <1>1, <1>6, <2>1, <3>1, <3>2, <3>3, <3>4, <3>5, SafeKept
  <2>4. QED BY <2>2, <2>3
<1>10. QED BY <1>9 DEF AllSafe

LEMMA CompressSafe ==
  ASSUME FoundInv, UseInv', Compress
  PROVE  AllSafe'
<1>1. UseInv
  BY DEF FoundInv
<1>2. PICK a \in Gettable(writer_buffer, first_freelist) :
        /\ writer_buffer' = Get(writer_buffer, a, NoIndex)
        /\ data' = [data EXCEPT ![a] = Nothing]
  BY DEF Compress
<1>3. UNCHANGED <<main, files, to_writer, disk, fragment_table>>
  BY DEF Compress
<1>4. ASSUME NEW e \in Extents PROVE ~LiveAt(e, NoIndex)
  BY ExtentEnds, FragIndexes DEF LiveAt, Placed, NoIndex
<1>5. PICK i0 \in Indexes \cup {NoIndex} : i0 = NoIndex
  OBVIOUS
<1>6. QED BY <1>2, <1>3, <1>4, <1>5, GotSafe

LEMMA CompressFragmentSafe ==
  ASSUME FoundInv, UseInv', NEW d \in FragDeflators, CompressFragment(d)
  PROVE  AllSafe'
<1>1. UseInv /\ PackInv
  BY DEF FoundInv
<1>a. CompressFragment(d)
  OBVIOUS
<1>2. PICK a \in Gettable(writer_buffer, first_freelist), f \in Frags, e0 \in Extents :
        /\ a \in Buffers /\ writer_buffer.used[a] = 0
        /\ to_frag # <<>> /\ f = Head(to_frag).frag /\ FragIndex + f \in Indexes
        /\ writer_buffer' = Get(writer_buffer, a, FragIndex + f)
        /\ writer_buffer'.index = [writer_buffer.index EXCEPT ![a] = FragIndex + f]
        /\ e0.owner = FragOf(f) /\ e0.size > 0
        /\ data' = [data EXCEPT ![a] = e0]
  BY <1>1, <1>a, CompressFragmentIs
<1>3. UNCHANGED <<main, files, to_writer, disk, fragment_table>>
  BY DEF CompressFragment
<1>4. f \notin Placed
  BY <1>1, <1>2, FirstFillIs
<1>5. \A e \in Extents : ~LiveAt(e, FragIndex + f)
  BY <1>4, LiveFragment
<1>6. PICK i0 \in Indexes \cup {NoIndex} : i0 = FragIndex + f
  BY <1>2
<1>7. QED BY <1>2, <1>3, <1>5, <1>6, GotSafe

(* The buffers handed to the writer.                                       *)
LEMMA HandedOn ==
  ASSUME NEW s \in Seq(Buffers), NEW b \in Buffers, NEW w, w = Append(s, b)
  PROVE  /\ w \in Seq(Buffers) /\ Extends(s, w) /\ Len(s) \in Nat
         /\ DOMAIN w = 1 .. Len(s) + 1 /\ w[Len(s) + 1] = b
         /\ \A j \in DOMAIN w : j > Len(s) => j = Len(s) + 1
         /\ Range(w) = Range(s) \cup {b}
<1>1. /\ Append(s, b) \in Seq(Buffers) /\ Len(Append(s, b)) = Len(s) + 1
      /\ \A i \in 1 .. Len(s) : Append(s, b)[i] = s[i]
      /\ Append(s, b)[Len(s) + 1] = b
      /\ Len(s) \in Nat
  BY AppendIs
<1>2. Extends(s, Append(s, b))
  BY AppendExtends
<1>3. Range(Append(s, b)) = Range(s) \cup {b}
  BY AppendOnce
<1>4. DOMAIN w = 1 .. Len(s) + 1
  BY <1>1
<1>5. \A j \in DOMAIN w : j > Len(s) => j = Len(s) + 1
  BY <1>1, <1>4
<1>6. QED BY <1>1, <1>2, <1>3, <1>4, <1>5

LEMMA PlacesSafe ==
  ASSUME FoundInv, UseInv', PlacesFragment
  PROVE  AllSafe'
<1>1. UseInv /\ PackInv /\ Layout /\ AllSafe
  BY DEF FoundInv, LayoutInv
<1>2. PICK w \in Frags, b \in Buffers, e \in Extents :
        /\ writer_buffer.index[b] = FragIndex + w /\ w \notin Placed
        /\ b \notin Range(to_writer) /\ b \notin Range(main.held)
        /\ e.pos = bytes /\ e.size > 0
        /\ data' = [data EXCEPT ![b] = e]
        /\ fragment_table' = [fragment_table EXCEPT ![w] = e]
        /\ Placed' = Placed \cup {w}
        /\ to_writer' = Append(to_writer, b)
        /\ UNCHANGED <<writer_buffer, main, files, disk>>
  BY <1>1, PlacesIs DEF PlacesFragment
<1>3. /\ to_writer \in Seq(Buffers) /\ data \in [Buffers -> Extents]
      /\ fragment_table \in [Frags -> Extents \cup {NoEntry}] /\ bytes \in Nat
  BY <1>1 DEF UseInv, Typed, QueuesTyped, OutputTyped
<1>4. Recorded' = Recorded
  BY <1>2 DEF Recorded
<1>5. PICK t : t = to_writer'
  OBVIOUS
<1>6. /\ t \in Seq(Buffers) /\ Extends(to_writer, t) /\ Len(to_writer) \in Nat
      /\ DOMAIN t = 1 .. Len(to_writer) + 1 /\ t[Len(to_writer) + 1] = b
      /\ \A j \in DOMAIN t : j > Len(to_writer) => j = Len(to_writer) + 1
      /\ Range(t) = Range(to_writer) \cup {b}
  <2>1. to_writer \in Seq(Buffers) /\ t = Append(to_writer, b)
    BY <1>2, <1>3, <1>5
  <2>2. QED BY <2>1, HandedOn
<1>7. data'[b] = e /\ \A c \in Buffers : c # b => data'[c] = data[c]
  BY <1>2, <1>3
<1>8. ASSUME NEW x \in Extents, NEW i \in Indexes, LiveAt(x, i) PROVE Safe(x, i)'
  <2>1. Safe(x, i) /\ End(x) <= bytes
    BY <1>1, <1>8, LiveIs DEF AllSafe
  <2>2. Apart(x, e)
    BY <1>2, <2>1 DEF Apart
  <2>3. i # FragIndex + w
    <3>1. SUFFICES ASSUME i = FragIndex + w PROVE FALSE
      OBVIOUS
    <3>2. LiveAt(x, FragIndex + w)
      BY <1>8, <3>1
    <3>3. QED BY <1>2, <3>2, LiveFragment
  <2>4. Found(writer_buffer', i) = Found(writer_buffer, i)
    BY <1>2
  <2>5. Extends(to_writer, to_writer')
    BY <1>5, <1>6
  <2>6. \A j \in DOMAIN to_writer' : j > Len(to_writer) => Apart(x, data'[to_writer'[j]])
    BY <1>5, <1>6, <1>7, <2>2
  <2>7. \A c \in Range(to_writer) : data'[c] = data[c]
    BY <1>2, <1>3, <1>7 DEF Range
  <2>8. OnDisk(x) => OnDisk(x)'
    BY <1>2 DEF OnDisk
  <2>9. ASSUME NEW c \in Buffers, Found(writer_buffer, i) = c
        PROVE  /\ data'[c] = data[c]
               /\ c \in Range(main.held) => c \in Range(main'.held) \/ Queued(x, c)'
               /\ \A o \in Buffers : writer_buffer'.index[o] = i /\ o # c =>
                    /\ writer_buffer.index[o] = i
                    /\ Ahead(writer_buffer.free, o, c) => Ahead(writer_buffer'.free, o, c)
    <3>1. writer_buffer.index[c] = i
      BY <1>1, <2>9, FoundHere
    <3>2. c # b
      BY <1>2, <2>3, <3>1
    <3>3. QED BY <1>2, <1>7, <3>2
  <2>10. QED BY <1>1, <2>1, <2>4, <2>5, <2>6, <2>7, <2>8, <2>9, SafeKept
<1>9. ASSUME NEW i \in Indexes, i = FragIndex + w PROVE Safe(e, i)'
  <2>1. Found(writer_buffer, i) = b
    <3>1. PICK c : c = Found(writer_buffer, i)
      OBVIOUS
    <3>2. c # NoBuffer /\ c \in Buffers /\ writer_buffer.index[c] = i
      BY <1>1, <1>2, <1>9, <3>1, FoundHere
    <3>3. c = b
      BY <1>1, <1>2, <1>9, <3>2 DEF PackInv, FragData
    <3>4. QED BY <3>1, <3>3
  <2>2. \A o \in Buffers : writer_buffer.index[o] = i => o = b
    BY <1>1, <1>2, <1>9 DEF PackInv, FragData
  <2>3. Queued(e, b)'
    <3>1. Len(to_writer) + 1 \in DOMAIN t /\ \A j \in DOMAIN t : ~(Len(to_writer) + 1 < j)
      BY <1>6
    <3>2. QED BY <1>5, <1>6, <3>1 DEF Queued
  <2>4. Coming(e, b)'
    BY <1>7, <2>3 DEF Coming
  <2>5. Found(writer_buffer', i) = b /\ b # NoBuffer /\ writer_buffer' = writer_buffer
    BY <1>2, <2>1
  <2>6. QED BY <2>2, <2>4, <2>5 DEF Safe
<1>10. ASSUME NEW x \in Extents, NEW i \in Indexes, LiveAt(x, i)'
       PROVE  LiveAt(x, i) \/ (x = e /\ i = FragIndex + w)
  <2>1. CASE x \in Recorded /\ i = x.pos
    BY <2>1 DEF LiveAt
  <2>2. ASSUME NEW f \in Placed', x = fragment_table'[f], i = FragIndex + f
        PROVE  LiveAt(x, i) \/ (x = e /\ i = FragIndex + w)
    <3>1. CASE f = w
      BY <1>2, <1>3, <2>2, <3>1
    <3>2. CASE f # w
      <4>1. f \in Placed /\ f \in Frags
        BY <1>2, <3>2 DEF Placed
      <4>2. fragment_table'[f] = fragment_table[f]
        BY <1>2, <1>3, <3>2, <4>1
      <4>3. QED BY <2>2, <4>1, <4>2 DEF LiveAt
    <3>3. QED BY <3>1, <3>2
  <2>3. QED BY <1>4, <1>10, <2>1, <2>2 DEF LiveAt
<1>11. QED BY <1>8, <1>9, <1>10 DEF AllSafe

(* A block that is given the end of the output.  What is hashed there      *)
(* already is of a dropped file: it is free, or with the writer.           *)
LEMMA OnlyDropped ==
  ASSUME FoundInv, main.pc = "file", NEW o \in Buffers, writer_buffer.index[o] = bytes
  PROVE  o \in Range(writer_buffer.free) \/ o \in Range(to_writer)
<1>1. UseInv /\ PackInv /\ Layout /\ HeldIs /\ MainShape
  BY DEF FoundInv, LayoutInv, UseInv
<1>2. PICK n \in 0 .. MaxBytes : n = bytes
  BY <1>1 DEF UseInv, Typed, OutputTyped
<1>3. n \in Indexes /\ n # NoIndex /\ \A f \in Frags : n # FragIndex + f
  BY IndexesAre, FragIndexes
<1>4. writer_buffer.used[o] = 0 => o \in Range(writer_buffer.free)
  BY <1>1, <1>2, <1>3, FreeIs
<1>5. main.fetch.compressed # o
  <2>1. main.fetch = NoFetch
    BY <1>1 DEF MainShape
  <2>2. QED BY <2>1 DEF NoFetch
<1>6. o \notin Ready
  BY <1>2, <1>3 DEF Ready
<1>7. o \notin Range(main.held)
  <2>1. SUFFICES ASSUME o \in Range(main.held) PROVE FALSE
    OBVIOUS
  <2>2. Placing
    BY <1>1 DEF Placing, MainShape
  <2>3. PICK d \in Extents : d = data[o]
    BY <1>1 DEF UseInv, Typed, OutputTyped
  <2>4. d \in Range(main.list) /\ d.pos = n
    BY <1>1, <1>2, <2>1, <2>2, <2>3 DEF HeldIs
  <2>5. d.size > 0 /\ End(d) <= n
    BY <1>1, <1>2, <2>4 DEF Layout
  <2>6. QED BY <2>4, <2>5, ExtentEnds
<1>8. ~InLocked(o)
  <2>1. ASSUME NEW p \in Range(frag_locked_list), p.buffer = o PROVE FALSE
    <3>1. p \in Pending
      BY <1>1 DEF UseInv, Typed, QueuesTyped, Range
    <3>2. p.frag \in Frags
      BY <3>1 DEF Pending
    <3>3. writer_buffer.index[o] = FragIndex + p.frag
      BY <1>1, <2>1 DEF PackInv, FragHashed
    <3>4. QED BY <1>2, <1>3, <3>2, <3>3
  <2>2. QED BY <2>1 DEF InLocked
<1>9. ~InDeflator(o)
  <2>1. ASSUME NEW d \in FragDeflators, frag_deflator[d].to = o PROVE FALSE
    <3>1. frag_deflator[d] # IdleDeflator
      BY <2>1 DEF IdleDeflator
    <3>2. /\ frag_deflator[d].frag \in Frags
          /\ writer_buffer.index[frag_deflator[d].to] = FragIndex + frag_deflator[d].frag
      BY <1>1, <3>1, WorkIs
    <3>3. QED BY <1>2, <1>3, <2>1, <3>2
  <2>2. QED BY <2>1 DEF InDeflator
<1>10. QED BY <1>1, <1>4, <1>5, <1>6, <1>7, <1>8, <1>9, OneHas

LEMMA PlaceBlockSafe ==
  ASSUME FoundInv, UseInv', NEW b \in Ready, NEW size \in Sizes, PlaceBlock(b, size)
  PROVE  AllSafe'
<1>1. UseInv /\ Layout /\ AllSafe
  BY DEF FoundInv, LayoutInv
<1>a. b \in Ready /\ size \in Sizes /\ PlaceBlock(b, size)
  OBVIOUS
<1>2. PICK e \in Extents, n \in {bytes} :
        /\ b \in Buffers /\ n \in Indexes /\ n \in 0 .. MaxBytes
        /\ writer_buffer'.index = [writer_buffer.index EXCEPT ![b] = n]
        /\ e.pos = n /\ e.size > 0 /\ e.size \in Nat
        /\ data' = [data EXCEPT ![b] = e]
        /\ main'.list = Append(main.list, e)
  BY <1>1, <1>a, PlaceBlockIs
<1>3. /\ b \in Buffers /\ writer_buffer.used[b] # 0 /\ writer_buffer.index[b] = NoIndex
      /\ main.pc = "file" /\ writer_buffer' = Rehash(writer_buffer, b, bytes)
  BY <1>1, <1>a, CachesAre DEF UseInv, Typed, Ready, PlaceBlock
<1>4. \/ main'.held = Append(main.held, b) /\ to_writer' = to_writer
      \/ main'.held = main.held /\ to_writer' = Append(to_writer, b)
  BY <1>1, <1>a, PlaceBlockIs
<1>5. UNCHANGED <<files, disk, fragment_table>>
  BY DEF PlaceBlock, others
<1>6. /\ to_writer \in Seq(Buffers) /\ data \in [Buffers -> Extents]
      /\ main.list \in Seq(Extents) /\ main.held \in Seq(Buffers) /\ Len(to_writer) \in Nat
      /\ writer_buffer.index \in [Buffers -> Indexes \cup {NoIndex}]
  <2>1. /\ to_writer \in Seq(Buffers) /\ data \in [Buffers -> Extents]
        /\ main.list \in Seq(Extents) /\ main.held \in Seq(Buffers) /\ Len(to_writer) \in Nat
    BY <1>1, MainFields DEF UseInv, Typed, QueuesTyped, OutputTyped
  <2>2. writer_buffer.index \in [Buffers -> Indexes \cup {NoIndex}]
    BY <1>1, CachesAre DEF UseInv, Typed
  <2>3. QED BY <2>1, <2>2
<1>7. n \in Nat /\ n # NoIndex /\ n = bytes
  BY <1>2, IndexesAre
<1>8. Placed' = Placed /\ Recorded' = Recorded \cup {e}
  <2>1. Range(main'.list) = Range(main.list) \cup {e}
    BY <1>2, <1>6, AppendOnce
  <2>2. QED BY <1>5, <2>1 DEF Placed, Recorded
<1>9. /\ writer_buffer'.free = writer_buffer.free
      /\ Found(writer_buffer', n) = b
      /\ \A j \in Indexes : j # n /\ Found(writer_buffer, j) # b
                            => Found(writer_buffer', j) = Found(writer_buffer, j)
  <2>1. PICK c : c = writer_buffer
    OBVIOUS
  <2>2. CacheKept(c, Buffers, Indexes)
    BY <1>1, <2>1 DEF UseInv, Typed, CachesKept
  <2>3. NoIndex \notin Indexes
    BY IndexesAre
  <2>4. b \in Buffers
    BY <1>2
  <2>5. n \in Indexes
    BY <1>2
  <2>6. /\ Rehash(c, b, n).free = c.free
        /\ Found(Rehash(c, b, n), n) = b
    BY <2>2, <2>3, <2>4, <2>5, RehashFound
  <2>8. ASSUME NEW j \in Indexes, j # n, Found(c, j) # b
        PROVE  Found(Rehash(c, b, n), j) = Found(c, j)
    BY <2>2, <2>3, <2>4, <2>5, <2>8, RehashFound
  <2>9. QED BY <1>3, <1>7, <2>1, <2>6, <2>8
<1>10. data'[b] = e /\ \A c \in Buffers : c # b => data'[c] = data[c]
  BY <1>2, <1>6
<1>11. /\ Extends(to_writer, to_writer')
       /\ \A j \in DOMAIN to_writer' : j > Len(to_writer) => to_writer'[j] = b
       /\ Range(main.held) \subseteq Range(main'.held)
       /\ b \in Range(main'.held) \/ (b \in Range(to_writer') /\ Queued(e, b)')
  <2>1. CASE main'.held = Append(main.held, b) /\ to_writer' = to_writer
    <3>1. Range(main'.held) = Range(main.held) \cup {b}
      BY <1>2, <1>6, <2>1, AppendOnce
    <3>2. QED BY <1>6, <2>1, <3>1 DEF Extends
  <2>2. CASE main'.held = main.held /\ to_writer' = Append(to_writer, b)
    <3>1. PICK t : t = to_writer'
      OBVIOUS
    <3>2. /\ t \in Seq(Buffers) /\ Extends(to_writer, t) /\ Len(to_writer) \in Nat
          /\ DOMAIN t = 1 .. Len(to_writer) + 1 /\ t[Len(to_writer) + 1] = b
          /\ \A j \in DOMAIN t : j > Len(to_writer) => j = Len(to_writer) + 1
          /\ Range(t) = Range(to_writer) \cup {b}
      <4>1. t = Append(to_writer, b) /\ b \in Buffers
        BY <1>2, <2>2, <3>1
      <4>2. QED BY <1>6, <4>1, HandedOn
    <3>3. Len(to_writer) + 1 \in DOMAIN t /\ \A j \in DOMAIN t : ~(Len(to_writer) + 1 < j)
      BY <3>2
    <3>4. Queued(e, b)'
      BY <3>1, <3>2, <3>3 DEF Queued
    <3>5. QED BY <2>2, <3>1, <3>2, <3>4
  <2>3. QED BY <1>4, <2>1, <2>2
<1>12. b \notin Range(to_writer)
  BY <1>1, <1>2, OneHas
<1>13. ASSUME NEW x \in Extents, NEW i \in Indexes, LiveAt(x, i) PROVE Safe(x, i)'
  <2>1. Safe(x, i) /\ End(x) <= n /\ x.size > 0 /\ (i \in 0 .. MaxBytes => i = x.pos)
    BY <1>1, <1>7, <1>13, LiveIs DEF AllSafe
  <2>2. i # n
    BY <1>2, <2>1, ExtentEnds
  <2>3. Apart(x, e)
    BY <1>2, <2>1 DEF Apart
  <2>4. ASSUME NEW c \in Buffers, Found(writer_buffer, i) = c
        PROVE  c # b
    BY <1>1, <1>3, <2>4, FoundHere, IndexesAre
  <2>5. Found(writer_buffer', i) = Found(writer_buffer, i)
    BY <1>2, <1>9, <2>2, <2>4
  <2>6. \A j \in DOMAIN to_writer' : j > Len(to_writer) => Apart(x, data'[to_writer'[j]])
    BY <1>10, <1>11, <2>3
  <2>7. \A c \in Range(to_writer) : data'[c] = data[c]
    BY <1>6, <1>10, <1>12 DEF Range
  <2>8. OnDisk(x) => OnDisk(x)'
    BY <1>5 DEF OnDisk
  <2>9. \A o \in Buffers : writer_buffer'.index[o] = i => writer_buffer.index[o] = i
    BY <1>2, <1>6, <2>2
  <2>10. \A c \in Buffers : Found(writer_buffer, i) = c =>
           /\ data'[c] = data[c]
           /\ c \in Range(main.held) => c \in Range(main'.held) \/ Queued(x, c)'
           /\ \A o \in Buffers : writer_buffer'.index[o] = i /\ o # c =>
                /\ writer_buffer.index[o] = i
                /\ Ahead(writer_buffer.free, o, c) => Ahead(writer_buffer'.free, o, c)
    BY <1>9, <1>10, <1>11, <2>4, <2>9
  <2>11. Extends(to_writer, to_writer')
    BY <1>11
  <2>12. QED BY <1>1, <2>1, <2>5, <2>6, <2>7, <2>8, <2>10, <2>11, SafeKept
<1>14. Safe(e, n)'
  <2>1. Coming(e, b)'
    BY <1>10, <1>11 DEF Coming
  <2>2. ASSUME NEW o \in Buffers, writer_buffer'.index[o] = n, o # b PROVE Before(o, b)'
    <3>1. writer_buffer.index[o] = n
      BY <1>2, <1>6, <2>2
    <3>2. o \in Range(writer_buffer.free) \/ o \in Range(to_writer)
      BY <1>3, <1>7, <3>1, OnlyDropped
    <3>3. CASE o \in Range(writer_buffer.free)
      <4>1. writer_buffer.free \in Seq(Buffers) /\ b \notin Range(writer_buffer.free)
        BY <1>1, <1>3, FreeIs
      <4>2. Ahead(writer_buffer.free, o, b)
        BY <3>3, <4>1, AheadAlone
      <4>3. QED BY <1>9, <4>2 DEF Before
    <3>4. CASE o \in Range(to_writer)
      <4>1. Ahead(to_writer, o, b)
        BY <1>6, <1>12, <3>4, AheadAlone
      <4>2. to_writer' \in Seq(Buffers)
        BY DEF UseInv, Typed, QueuesTyped
      <4>3. Ahead(to_writer', o, b)
        BY <1>6, <1>11, <4>1, <4>2, AheadExtended
      <4>4. QED BY <1>11, <4>3 DEF Before
    <3>5. QED BY <3>2, <3>3, <3>4
  <2>3. b # NoBuffer
    BY <1>2
  <2>4. QED BY <1>9, <2>1, <2>2, <2>3 DEF Safe
<1>15. ASSUME NEW x \in Extents, NEW i \in Indexes, LiveAt(x, i)'
       PROVE  LiveAt(x, i) \/ (x = e /\ i = n)
  BY <1>2, <1>5, <1>8, <1>15 DEF LiveAt
<1>16. QED BY <1>13, <1>14, <1>15 DEF AllSafe

-----------------------------------------------------------------------------
(* What main looks for is found, always.                                   *)
LEMMA AllSafeStep ==
  ASSUME FoundInv, UseInv', [Next]_vars
  PROVE  AllSafe'
<1>1. CASE Compress
  BY <1>1, CompressSafe
<1>2. ASSUME NEW d \in FragDeflators, CompressFragment(d) PROVE AllSafe'
  BY <1>2, CompressFragmentSafe
<1>3. ASSUME NEW b \in Ready, NEW size \in Sizes, PlaceBlock(b, size) PROVE AllSafe'
  BY <1>3, PlaceBlockSafe
<1>4. CASE Write
  BY <1>4, WriteSafe
<1>5. CASE NotDuplicate
  BY <1>5, NotDuplicateSafe
<1>6. CASE PlacesFragment
  BY <1>6, PlacesSafe
<1>7. CASE \/ (\E d \in FragDeflators : SettleFragment(d) /\ fragments_locked)
           \/ (\E d \in FragDeflators : AddPendingFragment(d))
           \/ StartFile \/ FileRead \/ ReadError \/ UnlockDone \/ Truncate
           \/ WriteFileFrag \/ CompareBlock \/ GetFragment \/ GetFragmentBuffer
           \/ ReadFragment \/ Duplicate \/ WriteFragment \/ Fill \/ UNCHANGED vars
  BY <1>7, KeepingSafe
<1>8. QED BY <1>1, <1>2, <1>3, <1>4, <1>5, <1>6, <1>7, DataCases DEF DataKeeping

LEMMA FoundStep == FoundInv /\ [Next]_vars => FoundInv'
<1> SUFFICES ASSUME FoundInv, [Next]_vars PROVE FoundInv'
  OBVIOUS
<1>1. UseInv /\ PackInv /\ LayoutInv
  BY DEF FoundInv
<1>2. UseInv'
  BY <1>1, UseStep
<1>3. PackInv'
  BY <1>1, PackStep
<1>4. LayoutInv'
  BY <1>1, LayoutInvStep
<1>5. AllSafe'
  BY <1>2, AllSafeStep
<1>6. QED BY <1>2, <1>3, <1>4, <1>5 DEF FoundInv

LEMMA FoundInit == Init => FoundInv
<1> SUFFICES ASSUME Init PROVE FoundInv
  OBVIOUS
<1>1. UseInv
  BY UseInit
<1>2. /\ main.list = <<>> /\ main.held = <<>> /\ main.fetch = NoFetch /\ main.pc = "idle"
  BY DEF Init, Idle
<1>3. /\ files = <<>> /\ to_frag = <<>> /\ frag_locked_list = <<>> /\ fragments = 0
      /\ Placed = {} /\ fragment_data = NoBuffer
      /\ \A d \in FragDeflators : frag_deflator[d] = IdleDeflator
  BY DEF Init, Placed
<1>4. Staged
  <2>1. ASSUME NEW f \in Frags
        PROVE  /\ CountIn(to_frag, FilledAs(f)) = 0 /\ Deflating(f, "frag") = 0
               /\ CountIn(frag_locked_list, PendingAs(f)) = 0
               /\ One(f \in Placed) = 0 /\ One(f < fragments) = 0
    <3>1. f \in Nat /\ f # NoFragment
      BY FragIndexes DEF NoFragment
    <3>2. {d \in FragDeflators : frag_deflator[d].frag = f} = {}
      BY <1>3, <3>1 DEF IdleDeflator
    <3>3. Deflating(f, "frag") = 0
      BY <3>2, FS_EmptySet DEF Deflating
    <3>4. CountIn(<<>>, FilledAs(f)) = 0 /\ CountIn(<<>>, PendingAs(f)) = 0
      BY CountEmpty
    <3>5. One(f \in Placed) = 0 /\ One(f < fragments) = 0
      BY <1>3, <3>1 DEF One
    <3>6. QED BY <1>3, <3>3, <3>4, <3>5
  <2>2. QED BY <2>1 DEF Staged
<1>5. FillHashed /\ FragHashed
  BY <1>3, EmptyList DEF FillHashed, FragHashed
<1>6. FragData
  <2>1. ASSUME NEW b \in Buffers, NEW f \in Frags PROVE writer_buffer.index[b] # FragIndex + f
    <3>a. NoIndex \notin Indexes
      BY IndexesAre
    <3>b. EmptyCache(Buffers, Indexes).index = [c \in Buffers |-> NoIndex]
      BY <3>a, EmptyKept
    <3>1. writer_buffer.index[b] = NoIndex
      BY <3>b DEF Init
    <3>2. QED BY <3>1, FragIndexes
  <2>2. QED BY <2>1 DEF FragData
<1>7. FetchIs
  BY <1>2 DEF FetchIs, NoFetch
<1>8. Layout
  BY <1>2, <1>3, EmptyList DEF Layout, Old, Placing
<1>9. HeldIs
  BY <1>2, EmptyList DEF HeldIs
<1>10. AllSafe
  BY <1>2, <1>3, EmptyList DEF AllSafe, LiveAt, Recorded
<1>11. QED BY <1>1, <1>4, <1>5, <1>6, <1>7, <1>8, <1>9, <1>10 DEF FoundInv, PackInv, LayoutInv

LEMMA FoundBlocks == FoundInv => BlocksFound
<1> SUFFICES ASSUME FoundInv, NEW e \in Recorded
             PROVE  IF Found(writer_buffer, e.pos) = NoBuffer THEN OnDisk(e)
                    ELSE data[Found(writer_buffer, e.pos)] = e
  BY DEF BlocksFound
<1>1. UseInv /\ AllSafe
  BY DEF FoundInv
<1>2. e \in Extents
  <2>1. main.list \in Seq(Extents)
    BY <1>1, MainFields DEF UseInv, Typed
  <2>2. ASSUME NEW k \in DOMAIN files PROVE files[k].list \in Seq(Extents)
    <3>1. files[k] \in Files
      BY <1>1 DEF UseInv, Typed, OutputTyped
    <3>2. QED BY <3>1 DEF Files
  <2>3. QED BY <2>1, <2>2 DEF Recorded, Range
<1>3. PICK i \in Indexes : i = e.pos
  BY <1>2, ExtentEnds, IndexesAre
<1>4. Safe(e, i)
  BY <1>1, <1>2, <1>3 DEF AllSafe, LiveAt
<1>5. Found(writer_buffer, i) # NoBuffer => Found(writer_buffer, i) \in Buffers
  BY <1>1, FoundHere
<1>6. QED BY <1>3, <1>4, <1>5 DEF Safe, Coming, Written

LEMMA FoundFragments == FoundInv => FragmentsFound
<1> SUFFICES ASSUME FoundInv PROVE FragmentsFound
  OBVIOUS
<1>1. UseInv /\ AllSafe /\ FragData /\ FetchIs
  BY DEF FoundInv, PackInv
<1>2. ASSUME NEW f \in Placed
      PROVE  IF Found(writer_buffer, FragIndex + f) = NoBuffer THEN OnDisk(fragment_table[f])
             ELSE data[Found(writer_buffer, FragIndex + f)] = fragment_table[f]
  <2>1. f \in Frags /\ fragment_table[f] # NoEntry
    BY DEF Placed
  <2>2. PICK e \in Extents : e = fragment_table[f]
    BY <1>1, <2>1 DEF UseInv, Typed, OutputTyped
  <2>3. PICK i \in Indexes : i = FragIndex + f
    BY <2>1, FragIndexes
  <2>4. Safe(e, i)
    BY <1>1, <2>2, <2>3 DEF AllSafe, LiveAt
  <2>5. Found(writer_buffer, i) # NoBuffer => Found(writer_buffer, i) \in Buffers
    BY <1>1, FoundHere
  <2>6. QED BY <2>2, <2>3, <2>4, <2>5 DEF Safe, Coming, Written
<1>3. ASSUME main.pc \in {"get", "read"}, main.fetch.compressed = NoBuffer
      PROVE  main.fetch.frag \in Placed /\ OnDisk(fragment_table[main.fetch.frag])
  <2>1. PICK f \in Placed : f = main.fetch.frag
    BY <1>1, <1>3 DEF FetchIs
  <2>2. f \in Frags
    BY DEF Placed
  <2>3. \A b \in Buffers : writer_buffer.index[b] # FragIndex + f
    BY <1>1, <1>3, <2>1 DEF FetchIs
  <2>4. PICK i \in Indexes : i = FragIndex + f
    BY <2>2, FragIndexes
  <2>5. Found(writer_buffer, i) = NoBuffer
    BY <1>1, <2>3, <2>4, FoundHere
  <2>6. QED BY <1>2, <2>1, <2>4, <2>5
<1>4. ASSUME main.fetch.compressed # NoBuffer
      PROVE  data[main.fetch.compressed].owner = FragOf(main.fetch.frag)
  <2>1. PICK b \in Buffers : b = main.fetch.compressed
    BY <1>1, <1>4, MainFields DEF UseInv, Typed
  <2>2. PICK f \in Frags : f = main.fetch.frag /\ writer_buffer.index[b] = FragIndex + f
    BY <1>1, <1>4, <2>1 DEF FetchIs
  <2>3. QED BY <1>1, <2>1, <2>2 DEF FragData
<1>5. QED BY <1>2, <1>3, <1>4 DEF FragmentsFound

(* A block on record, or of the file main writes, is what main finds under *)
(* its position, or it is on disk there.                                   *)
THEOREM BlocksAreFound == Spec => []BlocksFound
<1>1. Spec => []FoundInv
  BY FoundInit, FoundStep, PTL DEF Spec
<1>2. QED BY <1>1, FoundBlocks, PTL

(* A fragment that has its place is what get_fragment finds, cached by its *)
(* index or on disk; and the buffer it reads one from holds that fragment.  *)
THEOREM FragmentsAreFound == Spec => []FragmentsFound
<1>1. Spec => []FoundInv
  BY FoundInit, FoundStep, PTL DEF Spec
<1>2. QED BY <1>1, FoundFragments, PTL

=============================================================================
