------------------------------ MODULE MkCache ------------------------------
(***************************************************************************)
(* What main finds in the caches of mksquashfs when it looks for           *)
(* duplicates.  A block is hashed under the position it was given, and     *)
(* main finds it there, or reads the destination when its buffer has been  *)
(* reused.  But a dropped file gives its positions back, and its buffers   *)
(* stay hashed under them.  A fragment is found uncompressed in the        *)
(* fragment cache, or compressed in the writer cache, or on disk; the last *)
(* two need its fragment_table entry (get_fragment).                       *)
(*                                                                         *)
(* A file is compared with those on record that have blocks and a tail of  *)
(* its sizes; whether they are equal, and how far main has to look to tell,*)
(* is left open.  A tail is one size.  Sparse blocks are left out.  Queues *)
(* have no limit (see MkPipeline); a write does not fail (see MkOutput).   *)
(***************************************************************************)
EXTENDS BufferCache

CONSTANTS FragDeflators,
          Buffers,                  (* of the writer cache                 *)
          FragmentBuffers,          (* of the fragment cache               *)
          Sizes,                    (* compressed sizes                    *)
          FragIndex,                (* FRAG_INDEX                          *)
          MaxFiles, MaxBlocks, MaxFragments, MaxBytes,  (* bounds          *)
          NoEntry

ASSUME SizesAssumption == Sizes \subseteq Nat \ {0}
ASSUME DeflatorsAssumption == IsFiniteSet(FragDeflators)
ASSUME BoundsAssumption == /\ MaxFiles \in Nat /\ MaxBlocks \in Nat
                           /\ MaxFragments \in Nat /\ MaxBytes \in Nat

(* The buffers are finitely many, and NULL is none of them.                *)
ASSUME BuffersAssumption ==
  /\ IsFiniteSet(Buffers) /\ IsFiniteSet(FragmentBuffers)
  /\ NoBuffer \notin Buffers \cup FragmentBuffers

(* A data block and a fragment are never hashed under the same index: the  *)
(* program relies on this for images below FRAG_INDEX bytes.               *)
ASSUME IndexAssumption == FragIndex \in Nat /\ FragIndex > MaxBytes

VARIABLES
  block_device, first_freelist,     (* set once                            *)
  main,             (* where main is, and the file it is writing           *)
  files,            (* on record, for duplicate and pre_duplicate_frag     *)
  bytes,
  writer_buffer, fragment_buffer,   (* the caches                          *)
  data,             (* what each buffer of the writer cache holds          *)
  fragments, fragment_data,         (* the fragment being filled           *)
  to_frag, frag_deflator, fragment_table,
  fragments_locked, frag_locked_list,
  to_writer, disk

onceVars == <<block_device, first_freelist>>
lockVars == <<fragments_locked, frag_locked_list>>
packVars == <<fragments, fragment_data>>
vars == <<onceVars, main, files, bytes, writer_buffer, fragment_buffer, data,
          packVars, to_frag, frag_deflator, fragment_table, lockVars,
          to_writer, disk>>

-----------------------------------------------------------------------------
Extent(owner, pos, size) == [owner |-> owner, pos |-> pos, size |-> size]
Nothing == Extent(<<"nothing">>, 0, 0)
BlockOf(file, i) == <<"block", file, i>>
FragOf(f) == <<"fragment", f>>
NoFragment == -1                     \* SQUASHFS_INVALID_FRAG
Frags == 0 .. MaxFragments - 1
Indexes == 0 .. MaxBytes \cup {FragIndex + f : f \in Frags}

ASSUME NoEntryAssumption ==
  NoEntry \notin [owner : {FragOf(f) : f \in Frags}, pos : Nat, size : Nat]

NoFetch == [frag |-> NoFragment, compressed |-> NoBuffer, buffer |-> NoBuffer]
Idle(id) == [pc |-> "idle", mode |-> "none", id |-> id, start |-> 0,
             blocks |-> 0, tail |-> FALSE, thresh |-> 0, list |-> <<>>,
             held |-> <<>>, next |-> "idle", fetch |-> NoFetch]
IdleDeflator == [state |-> "idle", frag |-> NoFragment, from |-> NoBuffer,
                 to |-> NoBuffer, size |-> 0]

Init ==
  /\ block_device \in BOOLEAN /\ first_freelist \in BOOLEAN
  /\ main = Idle(0) /\ files = <<>> /\ bytes = 0
  /\ writer_buffer = EmptyCache(Buffers, Indexes)
  /\ fragment_buffer = EmptyCache(FragmentBuffers, Frags)
  /\ data = [b \in Buffers |-> Nothing]
  /\ fragments = 0 /\ fragment_data = NoBuffer
  /\ to_frag = <<>> /\ frag_deflator = [d \in FragDeflators |-> IdleDeflator]
  /\ fragment_table = [f \in Frags |-> NoEntry]
  /\ fragments_locked = FALSE /\ frag_locked_list = <<>>
  /\ to_writer = <<>> /\ disk = [p \in 1 .. MaxBytes |-> <<"nothing">>]

OnDisk(e) == \A p \in e.pos + 1 .. e.pos + e.size : disk[p] = e.owner
PutAll(c, bufs) == FoldLeft(LAMBDA x, b : Put(x, b), c, bufs)

(* Compressed blocks main has not come to: got with keep = 0.              *)
Ready == {b \in Buffers : writer_buffer.used[b] > 0 /\ writer_buffer.index[b] = NoIndex}
fragments_outstanding ==
  Len(to_frag) + Len(frag_locked_list)
  + Cardinality({d \in FragDeflators : frag_deflator[d] # IdleDeflator})

-----------------------------------------------------------------------------
(* The other threads.                                                      *)

(* A deflator gets a buffer for a block, whenever it comes to it.          *)
Compress ==
  /\ \E b \in Gettable(writer_buffer, first_freelist) :
       /\ writer_buffer' = Get(writer_buffer, b, NoIndex)
       /\ data' = [data EXCEPT ![b] = Nothing]
  /\ UNCHANGED <<onceVars, main, files, bytes, fragment_buffer, packVars, to_frag,
                 frag_deflator, fragment_table, lockVars, to_writer, disk>>

(* frag_deflator: its fragment, a buffer for it, hashed, and mangle2.      *)
CompressFragment(d) ==
  /\ frag_deflator[d] = IdleDeflator /\ to_frag # <<>>
  /\ LET f == Head(to_frag).frag
     IN \E b \in Gettable(writer_buffer, first_freelist), size \in Sizes :
          /\ writer_buffer' = Get(writer_buffer, b, FragIndex + f)
          /\ data' = [data EXCEPT ![b] = Extent(FragOf(f), 0, size)]
          /\ frag_deflator' = [frag_deflator EXCEPT ![d] =
               [state |-> "settle", frag |-> f, from |-> Head(to_frag).from,
                to |-> b, size |-> size]]
  /\ to_frag' = Tail(to_frag)
  /\ UNCHANGED <<onceVars, main, files, bytes, fragment_buffer, packVars,
                 fragment_table, lockVars, to_writer, disk>>

PlaceFragment(f, b) ==
  /\ bytes + data[b].size <= MaxBytes
  /\ data' = [data EXCEPT ![b].pos = bytes]
  /\ fragment_table' = [fragment_table EXCEPT ![f] = [data[b] EXCEPT !.pos = bytes]]
  /\ bytes' = bytes + data[b].size
  /\ to_writer' = Append(to_writer, b)

SettleFragment(d) ==
  /\ frag_deflator[d].state = "settle" /\ main.pc # "unlock"
  /\ IF fragments_locked
     THEN /\ frag_deflator' = [frag_deflator EXCEPT ![d].state = "pend"]
          /\ UNCHANGED <<bytes, data, fragment_table, to_writer, fragment_buffer>>
     ELSE /\ PlaceFragment(frag_deflator[d].frag, frag_deflator[d].to)
          /\ frag_deflator' = [frag_deflator EXCEPT ![d] = IdleDeflator]
          /\ fragment_buffer' = Put(fragment_buffer, frag_deflator[d].from)
  /\ UNCHANGED <<onceVars, main, files, writer_buffer, packVars, to_frag, lockVars,
                 disk>>

AddPendingPutsTwice(d) ==
  /\ frag_deflator[d].state = "pend" /\ main.pc # "unlock"
  /\ frag_locked_list' = Append(frag_locked_list,
       [frag |-> frag_deflator[d].frag, buffer |-> frag_deflator[d].to])
  /\ frag_deflator' = [frag_deflator EXCEPT ![d] = IdleDeflator]
  /\ fragment_buffer' = PutAll(fragment_buffer,
       <<frag_deflator[d].from, frag_deflator[d].from>>)
  /\ UNCHANGED <<onceVars, main, files, bytes, writer_buffer, data, packVars, to_frag,
                 fragment_table, fragments_locked, to_writer, disk>>
AddPendingFragment(d) ==
  /\ frag_deflator[d].state = "pend" /\ main.pc # "unlock"
  /\ frag_locked_list' = Append(frag_locked_list,
       [frag |-> frag_deflator[d].frag, buffer |-> frag_deflator[d].to])
  /\ frag_deflator' = [frag_deflator EXCEPT ![d] = IdleDeflator]
  /\ fragment_buffer' = Put(fragment_buffer, frag_deflator[d].from)
  /\ UNCHANGED <<onceVars, main, files, bytes, writer_buffer, data, packVars, to_frag,
                 fragment_table, fragments_locked, to_writer, disk>>

Deflate(d) == CompressFragment(d) \/ SettleFragment(d) \/ AddPendingFragment(d)

Write ==
  /\ to_writer # <<>>
  /\ LET e == data[Head(to_writer)]
     IN disk' = [p \in DOMAIN disk |->
                   IF p > e.pos /\ p <= e.pos + e.size THEN e.owner ELSE disk[p]]
  /\ writer_buffer' = Put(writer_buffer, Head(to_writer))
  /\ to_writer' = Tail(to_writer)
  /\ UNCHANGED <<onceVars, main, files, bytes, fragment_buffer, data, packVars,
                 to_frag, frag_deflator, fragment_table, lockVars>>

-----------------------------------------------------------------------------
(* Main: a file that has blocks.                                           *)
others == <<onceVars, packVars, to_frag, frag_deflator, fragment_table>>

(* pre_duplicate: there is one of the same file_size.                      *)
HasTail(file) == file.frag # NoFragment
StartFile ==
  /\ main.pc = "idle" /\ main.id < MaxFiles
  /\ \E blocks \in 1 .. MaxBlocks, tail \in BOOLEAN :
       LET mode == IF \E i \in DOMAIN files : /\ Len(files[i].list) = blocks
                                              /\ HasTail(files[i]) = tail
                   THEN "dup" ELSE "blocks"
           wanted == blocks + (IF tail THEN 1 ELSE 0)
           free == Cardinality(Buffers) - fragments_outstanding
       IN main' = [Idle(main.id + 1) EXCEPT !.pc = "file", !.mode = mode,
            !.start = bytes, !.blocks = blocks, !.tail = tail,
            !.thresh = IF mode = "dup" /\ wanted > free THEN wanted - free ELSE 0]
  /\ fragments_locked' = TRUE
  /\ UNCHANGED <<others, files, bytes, writer_buffer, fragment_buffer, data,
                 frag_locked_list, to_writer, disk>>

PlaceBlock(b, size) ==
  LET i == Len(main.list) + 1
      e == Extent(BlockOf(main.id, i), bytes, size)
      held == main.mode = "dup" /\ i > main.thresh
  IN /\ main.pc = "file" /\ i <= main.blocks /\ bytes + size <= MaxBytes
     /\ data' = [data EXCEPT ![b] = e]
     /\ bytes' = bytes + size
     /\ writer_buffer' = Rehash(writer_buffer, b, bytes)
     /\ main' = [main EXCEPT !.list = Append(@, e),
                             !.held = IF held THEN Append(@, b) ELSE @]
     /\ to_writer' = IF held THEN to_writer ELSE Append(to_writer, b)
     /\ UNCHANGED <<others, files, fragment_buffer, lockVars, disk>>

(* The last buffer of the file has come.                                   *)
FileRead ==
  /\ main.pc = "file" /\ Len(main.list) = main.blocks
  /\ main' = IF main.mode = "dup" THEN [main EXCEPT !.pc = "compare"]
             ELSE [main EXCEPT !.pc = "unlock", !.next = "fill"]
  /\ UNCHANGED <<others, files, bytes, writer_buffer, fragment_buffer, data,
                 lockVars, to_writer, disk>>

(* The file gives its space back; what the writer was handed is cut off.   *)
GiveBack ==
  /\ bytes' = main.start
  /\ main' = [main EXCEPT !.list = <<>>, !.next = "idle", !.pc =
       IF ~block_device /\ (main.mode = "dup" => main.thresh > 0)
       THEN "flush" ELSE "unlock"]
  /\ UNCHANGED <<others, files, fragment_buffer, data, lockVars, to_writer, disk>>

(* A later buffer of the file is an error: read_err.                       *)
ReadError == /\ main.pc = "file" /\ main.list # <<>>
             /\ Len(main.list) < main.blocks \/ main.tail
             /\ GiveBack /\ UNCHANGED writer_buffer

(* The writer has answered: everything before the flush is written.        *)
Truncate ==
  /\ main.pc = "flush" /\ to_writer = <<>>
  /\ disk' = [p \in DOMAIN disk |-> IF p <= bytes THEN disk[p] ELSE <<"nothing">>]
  /\ main' = [main EXCEPT !.pc = "unlock"]
  /\ UNCHANGED <<others, files, bytes, writer_buffer, fragment_buffer, data,
                 lockVars, to_writer>>

UnlockOne ==
  /\ main.pc = "unlock" /\ frag_locked_list # <<>>
  /\ PlaceFragment(Head(frag_locked_list).frag, Head(frag_locked_list).buffer)
  /\ frag_locked_list' = Tail(frag_locked_list)
  /\ UNCHANGED <<onceVars, main, files, writer_buffer, fragment_buffer, packVars,
                 to_frag, frag_deflator, fragments_locked, disk>>

UnlockDoneKeeps ==
  /\ main.pc = "unlock" /\ frag_locked_list = <<>>
  /\ fragments_locked' = FALSE
  /\ main' = IF main.next = "fill" THEN [main EXCEPT !.pc = "fill"] ELSE Idle(main.id)
  /\ UNCHANGED <<others, files, bytes, writer_buffer, fragment_buffer, data,
                 frag_locked_list, to_writer, disk>>
(* After read_err main puts back only here the buffers it held.            *)
UnlockDone ==
  /\ main.pc = "unlock" /\ frag_locked_list = <<>>
  /\ fragments_locked' = FALSE
  /\ main' = IF main.next = "fill" THEN [main EXCEPT !.pc = "fill"] ELSE Idle(main.id)
  /\ writer_buffer' = PutAll(writer_buffer, main.held)
  /\ UNCHANGED <<others, files, bytes, fragment_buffer, data, frag_locked_list,
                 to_writer, disk>>

-----------------------------------------------------------------------------
(* Main: fragments and duplicates.                                         *)

(* A file that is all tail is compared with the fragments unlocked.        *)
WriteFileFrag ==
  /\ main.pc = "idle" /\ main.id < MaxFiles
  /\ main' = [Idle(main.id + 1) EXCEPT !.pc = "compare", !.mode = "fragment",
                                       !.start = bytes, !.tail = TRUE]
  /\ UNCHANGED <<others, files, bytes, writer_buffer, fragment_buffer, data,
                 lockVars, to_writer, disk>>

(* The files on record with which main compares.                           *)
BlockSizes(list) == [i \in DOMAIN list |-> list[i].size]
Candidates ==
  {i \in DOMAIN files : /\ BlockSizes(files[i].list) = BlockSizes(main.list)
                        /\ HasTail(files[i]) = main.tail}

(* get_checksum_disk and duplicate: a block of the file or of one on       *)
(* record is looked up, compared, and put back.                            *)
CompareBlock ==
  /\ main.pc = "compare"
  /\ \E i \in Candidates : \E e \in Range(main.list) \cup Range(files[i].list) :
       LET b == Found(writer_buffer, e.pos)
       IN /\ b # NoBuffer
          /\ writer_buffer' = Put(Lookup(writer_buffer, b), b)
  /\ UNCHANGED <<others, main, files, bytes, fragment_buffer, data, lockVars,
                 to_writer, disk>>

(* get_fragment, of a file on record.                                      *)
GetFragment ==
  /\ main.pc = "compare"
  /\ \E i \in Candidates :
       LET f == files[i].frag
           b == Found(fragment_buffer, f)
           c == Found(writer_buffer, FragIndex + f)
       IN /\ f # NoFragment
          /\ IF b # NoBuffer
             THEN /\ fragment_buffer' = Put(Lookup(fragment_buffer, b), b)
                  /\ UNCHANGED <<main, writer_buffer>>
             ELSE /\ main' = [main EXCEPT !.pc = "get", !.fetch =
                       [frag |-> f, compressed |-> c, buffer |-> NoBuffer]]
                  /\ writer_buffer' = IF c = NoBuffer THEN writer_buffer
                                                      ELSE Lookup(writer_buffer, c)
                  /\ UNCHANGED fragment_buffer
  /\ UNCHANGED <<others, files, bytes, data, lockVars, to_writer, disk>>

GetFragmentBuffer ==
  /\ main.pc = "get"
  /\ \E b \in Gettable(fragment_buffer, first_freelist) :
       /\ fragment_buffer' = Get(fragment_buffer, b, main.fetch.frag)
       /\ main' = [main EXCEPT !.pc = "read", !.fetch.buffer = b]
  /\ UNCHANGED <<others, files, bytes, writer_buffer, data, lockVars, to_writer, disk>>

(* The table entry, the uncompressing, the comparison, and both buffers    *)
(* put back.  Where there is no entry, what realloc left may not           *)
(* uncompress, which ends the program.                                     *)
ReadFragment ==
  /\ main.pc = "read"
  /\ LET fetch == main.fetch
     IN \/ /\ main' = [main EXCEPT !.pc = "compare", !.fetch = NoFetch]
           /\ fragment_buffer' = Put(fragment_buffer, fetch.buffer)
           /\ writer_buffer' = IF fetch.compressed = NoBuffer THEN writer_buffer
                               ELSE Put(writer_buffer, fetch.compressed)
        \/ /\ fragment_table[fetch.frag] = NoEntry
           /\ main' = [main EXCEPT !.pc = "exited"]
           /\ UNCHANGED <<fragment_buffer, writer_buffer>>
  /\ UNCHANGED <<others, files, bytes, data, lockVars, to_writer, disk>>

GiveBackHeld ==
  /\ bytes' = main.start
  /\ writer_buffer' = PutAll(writer_buffer, main.held)
  /\ main' = [main EXCEPT !.held = <<>>, !.list = <<>>, !.next = "idle",
       !.pc = IF main.thresh > 0 /\ ~block_device THEN "flush" ELSE "unlock"]
  /\ UNCHANGED <<others, files, fragment_buffer, data, lockVars, to_writer, disk>>
Duplicate ==
  /\ main.pc = "compare" /\ Candidates # {}
  /\ IF main.mode = "dup"
     THEN GiveBackHeld
     ELSE /\ main' = Idle(main.id)
          /\ UNCHANGED <<others, files, bytes, writer_buffer, fragment_buffer, data,
                         lockVars, to_writer, disk>>

NotDuplicate ==
  /\ main.pc = "compare"
  /\ to_writer' = to_writer \o main.held
  /\ main' = [main EXCEPT !.pc = "fill", !.held = <<>>,
                          !.next = IF main.mode = "dup" THEN "unlock" ELSE "idle"]
  /\ UNCHANGED <<others, files, bytes, writer_buffer, fragment_buffer, data,
                 lockVars, disk>>

(* get_and_fill_fragment and add_non_dup.  Each tail fills a fragment: the *)
(* one before is written when the next one comes.                          *)
WriteFragment ==
  /\ main.pc = "fill" /\ main.tail /\ fragment_data # NoBuffer
  /\ to_frag' = Append(to_frag, [frag |-> fragments, from |-> fragment_data])
  /\ fragments' = fragments + 1
  /\ fragment_data' = NoBuffer
  /\ UNCHANGED <<onceVars, main, files, bytes, writer_buffer, fragment_buffer, data,
                 frag_deflator, fragment_table, lockVars, to_writer, disk>>

Fill ==
  /\ main.pc = "fill"
  /\ IF main.tail
     THEN /\ fragment_data = NoBuffer /\ fragments < MaxFragments
          /\ \E b \in Gettable(fragment_buffer, first_freelist) :
               /\ fragment_buffer' = Get(fragment_buffer, b, fragments)
               /\ fragment_data' = b
     ELSE UNCHANGED <<fragment_buffer, fragment_data>>
  /\ files' = Append(files, [list |-> main.list,
                             frag |-> IF main.tail THEN fragments ELSE NoFragment])
  /\ main' = IF main.next = "unlock"
             THEN [main EXCEPT !.pc = "unlock", !.next = "idle"] ELSE Idle(main.id)
  /\ UNCHANGED <<onceVars, bytes, writer_buffer, data, fragments, to_frag,
                 frag_deflator, fragment_table, lockVars, to_writer, disk>>

-----------------------------------------------------------------------------
Next ==
  \/ Compress \/ Write
  \/ \E d \in FragDeflators : Deflate(d)
  \/ StartFile \/ \E b \in Ready, size \in Sizes : PlaceBlock(b, size)
  \/ FileRead \/ ReadError \/ Truncate \/ UnlockOne \/ UnlockDone
  \/ WriteFileFrag \/ CompareBlock \/ GetFragment \/ GetFragmentBuffer
  \/ ReadFragment \/ Duplicate \/ NotDuplicate \/ WriteFragment \/ Fill

Spec == Init /\ [][Next]_vars

-----------------------------------------------------------------------------
(* Every variable has its type; no cache_block_put takes a use count below *)
(* zero and no two others share a buffer with main.                        *)
TypeOK ==
  /\ main.pc \in {"idle", "file", "compare", "get", "read", "flush", "unlock",
                  "fill", "exited"}
  /\ bytes \in 0 .. MaxBytes /\ fragments \in 0 .. MaxFragments
  /\ fragment_data \in FragmentBuffers \cup {NoBuffer}
  /\ Range(to_writer) \subseteq Buffers
  /\ \A c \in {writer_buffer, fragment_buffer} :
       \A b \in DOMAIN c.used : c.used[b] \in 0 .. 2

Recorded == Range(main.list) \cup UNION {Range(files[i].list) : i \in DOMAIN files}

(* A block that main looks for, of the file it is writing or of one on     *)
(* record, is the block it finds: in the cache although buffers of dropped *)
(* files are hashed under the same positions, and otherwise on disk,       *)
(* although the writer is behind main.                                     *)
BlocksFound ==
  \A e \in Recorded :
    LET b == Found(writer_buffer, e.pos)
    IN IF b = NoBuffer THEN OnDisk(e) ELSE data[b] = e

Placed == {f \in Frags : fragment_table[f] # NoEntry}

(* A fragment that has its table entry is found compressed in the writer   *)
(* cache, or on disk where the entry says, also by a get_fragment that has *)
(* looked into the cache and then waited for a buffer.                     *)
FragmentsFound ==
  /\ \A f \in Placed :
       LET c == Found(writer_buffer, FragIndex + f)
       IN IF c = NoBuffer THEN OnDisk(fragment_table[f]) ELSE data[c] = fragment_table[f]
  /\ main.pc \in {"get", "read"} =>
       IF main.fetch.compressed = NoBuffer
       THEN main.fetch.frag \in Placed /\ OnDisk(fragment_table[main.fetch.frag])
       ELSE data[main.fetch.compressed].owner = FragOf(main.fetch.frag)

Times(b, s) == Cardinality({i \in DOMAIN s : s[i] = b})
One(condition) == IF condition THEN 1 ELSE 0
Deflating(b, field) == Cardinality({d \in FragDeflators : frag_deflator[d][field] = b})

(* The use counts are exact, so that no buffer is reused under a thread    *)
(* that still has it and none is lost; the free list and the hash chains   *)
(* agree with them.                                                        *)
UsedExact ==
  /\ WellFormed(writer_buffer) /\ WellFormed(fragment_buffer)
  /\ \A b \in Buffers : writer_buffer.used[b] =
       Times(b, to_writer) + Times(b, main.held) + One(b \in Ready)
       + Cardinality({i \in DOMAIN frag_locked_list : frag_locked_list[i].buffer = b})
       + Deflating(b, "to") + One(main.fetch.compressed = b)
  /\ \A b \in FragmentBuffers : fragment_buffer.used[b] =
       One(fragment_data = b) + One(main.fetch.buffer = b) + Deflating(b, "from")
       + Cardinality({i \in DOMAIN to_frag : to_frag[i].from = b})

(* While main writes a file with fragments locked and compares it, the     *)
(* fragment_table entries get_fragment uses have been set.                 *)
EntrySetWhenRead ==
  main.pc = "read" /\ fragments_locked => main.fetch.frag \in Placed
=============================================================================
