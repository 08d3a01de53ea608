------------------------------ MODULE MkOutput ------------------------------
(***************************************************************************)
(* How mksquashfs lays data out in its destination.  "bytes" is the next   *)
(* free position.  The main thread advances it for the blocks of a file,   *)
(* which the inode describes by one start and a list of sizes, so they     *)
(* must be contiguous; the fragment deflators advance it for the fragment  *)
(* blocks they have compressed.  While main places a file it therefore     *)
(* locks the fragments (lock_fragments): a deflator that finds them locked *)
(* leaves its block on frag_locked_list, which unlock_fragments places.    *)
(* A file that cannot be read, or proves a duplicate, gives its space back *)
(* (bytes = start, ftruncate).  One writer thread writes what it is handed.*)
(*                                                                         *)
(* Here the blocks of a file arrive by choice (reading, compressing and    *)
(* ordering them is MkPipeline), queues and caches have no limit, a        *)
(* position is a unit of compressed data, and a sparse block, which takes  *)
(* no space, is left out.                                                  *)
(***************************************************************************)
EXTENDS Integers, FiniteSets, Sequences, SequencesExt

CONSTANTS FragDeflators,  (* the frag_deflator threads                     *)
          Sizes,          (* compressed sizes of a block                   *)
          Base,           (* bytes taken by the superblock                 *)
          FragCapacity,   (* tails that fill a fragment (block_size)       *)
          MaxFiles, MaxBlocks, MaxFragments,   (* bounds of the model      *)
          NoEntry         (* a fragment_table slot nobody has filled in    *)

ASSUME DeflatorsAssumption == IsFiniteSet(FragDeflators)
ASSUME SizesAssumption == Sizes \subseteq Nat \ {0} /\ Base \in Nat
ASSUME NoEntryAssumption == NoEntry \notin [pos : Nat, size : Nat]
ASSUME BoundsAssumption == /\ MaxFiles \in Nat /\ MaxBlocks \in Nat
                           /\ MaxFragments \in Nat /\ FragCapacity \in Nat \ {0}

VARIABLES
  block_device,          (* the destination cannot be cut (set once)       *)
  pc,                    (* where main is: idle, file, flush, tail, unlock,
                            unlocking (with fragment_mutex), drain,
                            drained, done, exited                          *)
  cur,                   (* the file main is writing                       *)
  files,                 (* what add_non_dup and create_inode recorded     *)
  bytes,
  fragments_locked, frag_locked_list, fragments_outstanding,
  fragments, fragment_size,        (* the fragment being filled            *)
  fragment_table,
  to_frag, frag_deflator,
  to_writer, from_writer, write_error,
  disk                   (* what the writer has written: who owns each unit *)

mainVars  == <<pc, cur, files>>
fragVars  == <<fragments, fragment_size>>
lockVars  == <<fragments_locked, frag_locked_list>>
writeVars == <<to_writer, from_writer, write_error, disk>>
vars == <<block_device, mainVars, bytes, lockVars, fragments_outstanding, fragVars,
          fragment_table, to_frag, frag_deflator, writeVars>>

-----------------------------------------------------------------------------
Extent(owner, pos, size) == [owner |-> owner, pos |-> pos, size |-> size]
BlockOf(file, i) == <<"block", file, i>>
FragOf(f) == <<"fragment", f>>
Flush == Extent("NULL", 0, 0)    \* queue_put(to_writer, NULL)
Unwritten == "unwritten"         \* a hole the writer has skipped over

NoFile == [id |-> 0, start |-> 0, file_bytes |-> 0, block_list |-> <<>>,
           dup_check |-> FALSE, thresh |-> 0, buffer_list |-> <<>>,
           next |-> "idle"]     \* next: where main goes after unlock
Idle == [state |-> "idle", frag |-> 0, size |-> 0]

(* unlock_fragments holds fragment_mutex until the list is empty, so no    *)
(* frag_deflator can enter its critical section meanwhile.                 *)
MutexFree == pc # "unlocking"

Init == /\ block_device \in BOOLEAN
        /\ pc = "idle" /\ cur = NoFile /\ files = <<>>
        /\ bytes = Base
        /\ fragments_locked = FALSE /\ frag_locked_list = <<>>
        /\ fragments_outstanding = 0
        /\ fragments = 0 /\ fragment_size = 0
        /\ fragment_table = [f \in 0 .. MaxFragments - 1 |-> NoEntry]
        /\ to_frag = <<>>
        /\ frag_deflator = [d \in FragDeflators |-> Idle]
        /\ to_writer = <<>> /\ from_writer = "empty" /\ write_error = FALSE
        /\ disk = [p \in 1 .. Base |-> "superblock"]

-----------------------------------------------------------------------------
(* Fragments.                                                              *)

(* write_fragment: hand the filled fragment to the frag_deflators.         *)
WriteFragment ==
  IF fragment_size = 0
  THEN UNCHANGED <<fragVars, fragments_outstanding, to_frag>>
  ELSE /\ fragments_outstanding' = fragments_outstanding + 1
       /\ to_frag' = Append(to_frag, fragments)
       /\ fragments' = fragments + 1
       /\ fragment_size' = 0

(* get_and_fill_fragment: a tail goes into the current fragment, after     *)
(* write_fragment if that has no room.                                     *)
HasRoom == IF fragment_size = FragCapacity THEN fragments + 1 < MaxFragments
                                           ELSE fragments < MaxFragments
FillFragmentNoRoomTest ==
  /\ fragment_size' = fragment_size + 1
  /\ UNCHANGED <<fragments, fragments_outstanding, to_frag>>
FillFragment ==
  IF fragment_size = FragCapacity
  THEN /\ fragments_outstanding' = fragments_outstanding + 1
       /\ to_frag' = Append(to_frag, fragments)
       /\ fragments' = fragments + 1
       /\ fragment_size' = 1
  ELSE /\ fragment_size' = fragment_size + 1
       /\ UNCHANGED <<fragments, fragments_outstanding, to_frag>>

(* A fragment block of this size gets its place: its table entry, its      *)
(* position, and its turn with the writer.                                 *)
PlaceFragmentUncounted(f, size) ==
  /\ fragment_table' = [fragment_table EXCEPT ![f] = [pos |-> bytes, size |-> size]]
  /\ bytes' = bytes + size
  /\ to_writer' = Append(to_writer, Extent(FragOf(f), bytes, size))
  /\ UNCHANGED fragments_outstanding
PlaceFragment(f, size) ==
  /\ fragment_table' = [fragment_table EXCEPT ![f] = [pos |-> bytes, size |-> size]]
  /\ bytes' = bytes + size
  /\ fragments_outstanding' = fragments_outstanding - 1
  /\ to_writer' = Append(to_writer, Extent(FragOf(f), bytes, size))

(* frag_deflator: queue_get(to_frag) and mangle2.                          *)
TakeFragment(d) ==
  /\ frag_deflator[d].state = "idle"
  /\ to_frag # <<>>
  /\ \E size \in Sizes :
       frag_deflator' = [frag_deflator EXCEPT
         ![d] = [state |-> "compressed", frag |-> Head(to_frag), size |-> size]]
  /\ to_frag' = Tail(to_frag)
  /\ UNCHANGED <<mainVars, bytes, lockVars, fragments_outstanding, fragVars,
                 fragment_table, writeVars>>

(* frag_deflator: the critical section that tests fragments_locked.        *)
MayPlaceAlways(d) == TRUE
MayPlace(d) == ~fragments_locked

SettleFragment(d) ==
  /\ frag_deflator[d].state = "compressed"
  /\ MutexFree
  /\ IF MayPlace(d)
     THEN /\ PlaceFragment(frag_deflator[d].frag, frag_deflator[d].size)
          /\ frag_deflator' = [frag_deflator EXCEPT ![d] = Idle]
     ELSE /\ frag_deflator' = [frag_deflator EXCEPT ![d].state = "pend"]
          /\ UNCHANGED <<fragment_table, bytes, fragments_outstanding, to_writer>>
  /\ UNCHANGED <<mainVars, lockVars, fragVars, to_frag, from_writer,
                 write_error, disk>>

(* add_pending_fragment, which takes fragment_mutex a second time.         *)
AddPendingFragment(d) ==
  /\ frag_deflator[d].state = "pend"
  /\ MutexFree
  /\ frag_locked_list' = Append(frag_locked_list,
       [frag |-> frag_deflator[d].frag, size |-> frag_deflator[d].size])
  /\ frag_deflator' = [frag_deflator EXCEPT ![d] = Idle]
  /\ UNCHANGED <<mainVars, bytes, fragments_locked, fragments_outstanding,
                 fragVars, fragment_table, to_frag, writeVars>>

-----------------------------------------------------------------------------
(* The writer thread: one buffer, or the answer to a flush.                *)
Written(d, e) ==
  [p \in 1 .. IF Len(d) > e.pos + e.size THEN Len(d) ELSE e.pos + e.size |->
     IF p > e.pos /\ p <= e.pos + e.size THEN e.owner
     ELSE IF p <= Len(d) THEN d[p] ELSE Unwritten]

Write ==
  /\ to_writer # <<>> /\ Head(to_writer) # Flush
  /\ \/ /\ ~write_error
        /\ disk' = Written(disk, Head(to_writer))
        /\ UNCHANGED write_error
     \/ /\ write_error' = TRUE       \* lseek or write failed, now or before
        /\ UNCHANGED disk
  /\ to_writer' = Tail(to_writer)
  /\ UNCHANGED <<mainVars, bytes, lockVars, fragments_outstanding, fragVars,
                 fragment_table, to_frag, frag_deflator, from_writer>>

AnswerFlush ==
  /\ to_writer # <<>> /\ Head(to_writer) = Flush
  /\ from_writer = "empty"
  /\ from_writer' = IF write_error THEN "error" ELSE "ok"
  /\ to_writer' = Tail(to_writer)
  /\ UNCHANGED <<mainVars, bytes, lockVars, fragments_outstanding, fragVars,
                 fragment_table, to_frag, frag_deflator, write_error, disk>>

-----------------------------------------------------------------------------
(* The main thread.                                                        *)

(* write_file_frag: a file that is all tail.                               *)
WriteFileFrag ==
  /\ pc = "idle" /\ HasRoom
  /\ FillFragment
  /\ UNCHANGED <<mainVars, bytes, lockVars, fragment_table, frag_deflator,
                 writeVars>>

(* write_file_blocks, write_file_process and, with dup_check,              *)
(* write_file_blocks_dup, which hands only its first thresh blocks to the  *)
(* writer before it knows whether the file is a duplicate.                 *)
StartFile(dup_check, thresh) ==
  /\ pc = "idle" /\ cur.id < MaxFiles
  /\ pc' = "file"
  /\ cur' = [NoFile EXCEPT !.id = cur.id + 1, !.start = bytes,
                           !.dup_check = dup_check, !.thresh = thresh]
  /\ fragments_locked' = TRUE
  /\ UNCHANGED <<files, bytes, frag_locked_list, fragments_outstanding,
                 fragVars, fragment_table, to_frag, frag_deflator, writeVars>>

PlaceBlock(size) ==
  LET i == Len(cur.block_list) + 1
      e == Extent(BlockOf(cur.id, i), bytes, size)
      held == cur.dup_check /\ i > cur.thresh
  IN /\ pc = "file" /\ i <= MaxBlocks
     /\ bytes' = bytes + size
     /\ cur' = [cur EXCEPT !.block_list = Append(@, size), !.file_bytes = @ + size,
                           !.buffer_list = IF held THEN Append(@, e) ELSE @]
     /\ to_writer' = IF held THEN to_writer ELSE Append(to_writer, e)
     /\ UNCHANGED <<pc, files, lockVars, fragments_outstanding, fragVars,
                    fragment_table, to_frag, frag_deflator, from_writer,
                    write_error, disk>>

(* add_non_dup and create_inode.                                           *)
Record == files' = Append(files, [id |-> cur.id, start |-> cur.start,
                                  file_bytes |-> cur.file_bytes,
                                  block_list |-> cur.block_list])

(* The file is complete and kept.  Without a duplicate check its tail is   *)
(* put into a fragment after unlock_fragments, with one before.            *)
KeepFile(tail) ==
  /\ pc = "file" /\ (tail => HasRoom)
  /\ pc' = "unlock"
  /\ cur' = [cur EXCEPT !.buffer_list = <<>>,
                        !.next = IF tail /\ ~cur.dup_check THEN "tail" ELSE "idle"]
  /\ Record
  /\ to_writer' = to_writer \o cur.buffer_list
  /\ IF tail /\ cur.dup_check
     THEN FillFragment
     ELSE UNCHANGED <<fragVars, fragments_outstanding, to_frag>>
  /\ UNCHANGED <<bytes, lockVars, fragment_table, frag_deflator, from_writer,
                 write_error, disk>>

(* The file gives its space back: it is a duplicate, or a block of it was  *)
(* an error buffer (read_err).  Whatever the writer already has of it must *)
(* be written before the destination can be cut.                           *)
NeedsNoFlush == FALSE
NeedsFlush == ~block_device /\ (cur.dup_check => cur.thresh > 0)

DropFile ==
  /\ pc = "file"
  /\ bytes' = cur.start
  /\ cur' = [cur EXCEPT !.buffer_list = <<>>]
  /\ IF NeedsFlush
     THEN pc' = "flush" /\ to_writer' = Append(to_writer, Flush)
     ELSE pc' = "unlock" /\ UNCHANGED to_writer
  /\ UNCHANGED <<files, lockVars, fragments_outstanding, fragVars,
                 fragment_table, to_frag, frag_deflator, from_writer,
                 write_error, disk>>

(* queue_get(from_writer), then ftruncate(fd, bytes), or EXIT_MKSQUASHFS.  *)
Truncate ==
  /\ pc = "flush" /\ from_writer # "empty"
  /\ from_writer' = "empty"
  /\ IF from_writer = "error"
     THEN pc' = "exited" /\ UNCHANGED disk
     ELSE pc' = "unlock" /\ disk' = [p \in 1 .. bytes |->
                                       IF p <= Len(disk) THEN disk[p] ELSE Unwritten]
  /\ UNCHANGED <<cur, files, bytes, lockVars, fragments_outstanding, fragVars,
                 fragment_table, to_frag, frag_deflator, to_writer, write_error>>

(* unlock_fragments: the mutex, each pass of its loop, its last assignment. *)
EnterUnlock ==
  /\ pc = "unlock"
  /\ pc' = "unlocking"
  /\ UNCHANGED <<cur, files, bytes, lockVars, fragments_outstanding, fragVars,
                 fragment_table, to_frag, frag_deflator, writeVars>>

UnlockOne ==
  /\ pc = "unlocking" /\ frag_locked_list # <<>>
  /\ PlaceFragment(Head(frag_locked_list).frag, Head(frag_locked_list).size)
  /\ frag_locked_list' = Tail(frag_locked_list)
  /\ UNCHANGED <<mainVars, fragments_locked, fragVars, to_frag, frag_deflator,
                 from_writer, write_error, disk>>

UnlockDone ==
  /\ pc = "unlocking" /\ frag_locked_list = <<>>
  /\ fragments_locked' = FALSE
  /\ pc' = cur.next
  /\ UNCHANGED <<cur, files, bytes, frag_locked_list, fragments_outstanding,
                 fragVars, fragment_table, to_frag, frag_deflator, writeVars>>

(* The tail of a file kept without a duplicate check.                      *)
FillTail ==
  /\ pc = "tail"
  /\ pc' = "idle"
  /\ FillFragment
  /\ UNCHANGED <<cur, files, bytes, lockVars, fragment_table, frag_deflator,
                 writeVars>>

(* main, once dir_scan is over: the last fragment, unlock_fragments, the   *)
(* loop on fragments_outstanding (which ends holding the mutex), a flush,  *)
(* and then the tables.                                                    *)
Finish ==
  /\ pc = "idle"
  /\ pc' = "unlock"
  /\ cur' = [NoFile EXCEPT !.id = cur.id, !.next = "drain"]
  /\ WriteFragment
  /\ UNCHANGED <<files, bytes, lockVars, fragment_table, frag_deflator, writeVars>>

AllTaken  == to_frag = <<>>
AllPlaced == fragments_outstanding = 0
Drain ==
  /\ pc = "drain"
  /\ AllPlaced
  /\ pc' = "drained"
  /\ to_writer' = Append(to_writer, Flush)
  /\ UNCHANGED <<cur, files, bytes, lockVars, fragments_outstanding, fragVars,
                 fragment_table, to_frag, frag_deflator, from_writer,
                 write_error, disk>>

AwaitDrained ==
  /\ pc = "drained" /\ from_writer # "empty"
  /\ from_writer' = "empty"
  /\ pc' = IF from_writer = "error" THEN "exited" ELSE "done"
  /\ UNCHANGED <<cur, files, bytes, lockVars, fragments_outstanding, fragVars,
                 fragment_table, to_frag, frag_deflator, to_writer,
                 write_error, disk>>

-----------------------------------------------------------------------------
Main == /\ \/ WriteFileFrag
           \/ \E dup_check \in BOOLEAN, thresh \in 0 .. MaxBlocks :
                StartFile(dup_check, thresh)
           \/ \E size \in Sizes : PlaceBlock(size)
           \/ \E tail \in BOOLEAN : KeepFile(tail)
           \/ DropFile \/ Truncate \/ EnterUnlock \/ UnlockOne \/ UnlockDone
           \/ FillTail \/ Finish \/ Drain \/ AwaitDrained
        /\ UNCHANGED block_device

Deflate(d) == /\ TakeFragment(d) \/ SettleFragment(d) \/ AddPendingFragment(d)
              /\ UNCHANGED block_device
Writer == (Write \/ AnswerFlush) /\ UNCHANGED block_device

Next == Main \/ Writer \/ \E d \in FragDeflators : Deflate(d)

Spec == Init /\ [][Next]_vars

(* Each thread runs when it can: the deflators and the writer loop for     *)
(* ever, main goes on with the next file or finishes.                      *)
Fairness == /\ WF_vars(Main)
            /\ WF_vars(Writer)
            /\ \A d \in FragDeflators : WF_vars(Deflate(d))
FairSpec == Spec /\ Fairness

-----------------------------------------------------------------------------
Blocks == {"block"} \X Nat \X Nat
Frags == 0 .. MaxFragments - 1

FileType == [id : Nat, start : Nat, file_bytes : Nat, block_list : Seq(Sizes)]
CurType == [id : Nat, start : Nat, file_bytes : Nat, block_list : Seq(Sizes),
            dup_check : BOOLEAN, thresh : Nat,
            buffer_list : Seq([owner : Blocks, pos : Nat, size : Sizes]),
            next : {"idle", "tail", "drain"}]
PendingType == [frag : Frags, size : Sizes]
DeflatorType == {Idle} \cup [state : {"compressed", "pend"}, frag : Frags, size : Sizes]

TypeOK ==
  /\ pc \in {"idle", "file", "flush", "unlock", "unlocking", "tail", "drain",
             "drained", "done", "exited"}
  /\ cur \in CurType /\ files \in Seq(FileType) /\ bytes \in Nat
  /\ fragments_locked \in BOOLEAN /\ frag_locked_list \in Seq(PendingType)
  /\ fragments_outstanding \in Int
  /\ fragments \in 0 .. MaxFragments /\ fragment_size \in 0 .. FragCapacity
  /\ fragment_table \in [Frags -> [pos : Nat, size : Sizes] \cup {NoEntry}]
  /\ to_frag \in Seq(Frags)
  /\ frag_deflator \in [FragDeflators -> DeflatorType]
  /\ from_writer \in {"empty", "ok", "error"} /\ write_error \in BOOLEAN

(* What is on record as occupying the destination: every kept file, and    *)
(* every fragment that has its table entry.                                *)
FileEnd(i) == files[i].start + files[i].file_bytes
Placed == {f \in Frags : fragment_table[f] # NoEntry}
FragEnd(f) == fragment_table[f].pos + fragment_table[f].size

(* Up to here the destination is settled: a file still being written may   *)
(* give back everything from its start on.                                 *)
Settled == IF pc = "file" THEN cur.start ELSE bytes

(* No two files, no two fragments and no file and fragment ever share a    *)
(* position, and what DropFile gives back or ftruncate cuts off belongs to *)
(* nobody else, although main and every frag_deflator advance "bytes" and  *)
(* main moves it back.                                                     *)
NoOverlap ==
  /\ \A i \in DOMAIN files : Base <= files[i].start /\ FileEnd(i) <= Settled
  /\ \A f \in Placed : Base <= fragment_table[f].pos /\ FragEnd(f) <= Settled
  /\ \A i, j \in DOMAIN files : i < j => FileEnd(i) <= files[j].start
  /\ \A f, g \in Placed : f # g => \/ FragEnd(f) <= fragment_table[g].pos
                                  \/ FragEnd(g) <= fragment_table[f].pos
  /\ \A i \in DOMAIN files, f \in Placed :
       \/ FileEnd(i) <= fragment_table[f].pos
       \/ FragEnd(f) <= files[i].start

(* The blocks of the file being written are contiguous, which is all its   *)
(* inode can say: nothing else is placed between its first block and its   *)
(* last, however many fragments are compressed meanwhile.                  *)
Contiguous == pc = "file" => bytes = cur.start + cur.file_bytes

(* The counter main waits for is exact: a fragment is outstanding from     *)
(* write_fragment until its table entry is written, through the queue, a   *)
(* deflator and the list of the locked ones.                               *)
OutstandingExact ==
  fragments_outstanding =
    Len(to_frag) + Len(frag_locked_list)
    + Cardinality({d \in FragDeflators : frag_deflator[d] # Idle})

(* The image that mksquashfs reports as made can be read back: each block  *)
(* of each file is where start and the list of sizes say, each fragment is *)
(* where its table entry says, nothing of a dropped file is left behind    *)
(* the end, and no write failed.                                           *)
Holds(pos, size, owner) == /\ pos + size <= Len(disk)
                           /\ \A p \in pos + 1 .. pos + size : disk[p] = owner
Before(list, i) == FoldLeft(LAMBDA x, y : x + y, 0, SubSeq(list, 1, i - 1))
ImageReadable ==
  pc = "done" =>
    /\ \A i \in DOMAIN files : \A b \in DOMAIN files[i].block_list :
         Holds(files[i].start + Before(files[i].block_list, b),
               files[i].block_list[b], BlockOf(files[i].id, b))
    /\ \A f \in 0 .. fragments - 1 :
         /\ f \in Placed
         /\ Holds(fragment_table[f].pos, fragment_table[f].size, FragOf(f))
    /\ ~block_device => Len(disk) = bytes
    /\ ~write_error

(* Once main has only the outstanding fragments to wait for, it stops      *)
(* waiting.                                                                *)
DrainEnds == pc = "drain" ~> pc \in {"done", "exited"}
=============================================================================
