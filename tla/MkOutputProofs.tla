--------------------------- MODULE MkOutputProofs ---------------------------
(***************************************************************************)
(* For any number of deflators, files, blocks and fragments and any sizes: *)
(* nothing in the destination overlaps, and a file's blocks are contiguous;*)
(* main's counter of outstanding fragments is exact; and an image that is  *)
(* reported as made can be read back.                                      *)
(***************************************************************************)
EXTENDS MkOutput, ListLemmas, FiniteSetTheorems, SequenceTheorems, TLAPS

(* Main holds the fragments locked for as long as it places a file.        *)
LockHeld == pc = "file" => fragments_locked

(* Positions never go below the superblock.                                *)
AboveBase == Base <= bytes /\ (pc = "file" => Base <= cur.start)

(* A fragment that has data, or is about to get a tail, has a table slot.  *)
SlotFree ==
  /\ fragment_size > 0 => fragments < MaxFragments
  /\ (pc = "tail" \/ (pc \in {"unlock", "unlocking"} /\ cur.next = "tail")) => HasRoom
  /\ pc \in {"file", "flush"} => cur.next = "idle"

IInv == TypeOK /\ LockHeld /\ AboveBase /\ SlotFree /\ Contiguous /\ NoOverlap

USE SizesAssumption, BoundsAssumption, NoEntryAssumption

-----------------------------------------------------------------------------
LEMMA FileTyped ==
  ASSUME TypeOK, NEW i \in DOMAIN files
  PROVE  /\ files[i].start \in Nat /\ files[i].file_bytes \in Nat
         /\ FileEnd(i) \in Nat
<1>1. files[i] \in FileType
  BY DEF TypeOK
<1>2. files[i].start \in Nat /\ files[i].file_bytes \in Nat
  BY <1>1 DEF FileType
<1>3. QED BY <1>2 DEF FileEnd

LEMMA FragTyped ==
  ASSUME TypeOK, NEW f \in Placed
  PROVE  /\ f \in Frags
         /\ fragment_table[f].pos \in Nat /\ fragment_table[f].size \in Nat
         /\ FragEnd(f) \in Nat
<1>1. f \in Frags /\ fragment_table[f] \in [pos : Nat, size : Sizes]
  BY DEF TypeOK, Placed
<1>2. fragment_table[f].pos \in Nat /\ fragment_table[f].size \in Nat
  BY <1>1
<1>3. QED BY <1>1, <1>2 DEF FragEnd

LEMMA CurTyped ==
  ASSUME TypeOK
  PROVE  /\ cur.start \in Nat /\ cur.file_bytes \in Nat /\ cur.id \in Nat
         /\ Settled \in Nat
<1>1. cur.start \in Nat /\ cur.file_bytes \in Nat /\ cur.id \in Nat
  BY DEF TypeOK, CurType
<1>2. QED BY <1>1 DEF TypeOK, Settled

(* Nothing recorded, and the settled part did not shrink: nothing overlaps.*)
LEMMA NothingPlaced ==
  ASSUME NoOverlap, TypeOK, UNCHANGED <<files, fragment_table>>,
         Settled' \in Nat, Settled <= Settled'
  PROVE  NoOverlap'
<1>1. Placed' = Placed
  BY DEF Placed
<1>2. \A i \in DOMAIN files : FileEnd(i) \in Nat /\ FileEnd(i)' = FileEnd(i)
  BY FileTyped DEF FileEnd
<1>3. \A f \in Placed : FragEnd(f) \in Nat /\ FragEnd(f)' = FragEnd(f)
  BY FragTyped DEF FragEnd
<1>4. QED BY <1>1, <1>2, <1>3, CurTyped DEF NoOverlap

LEMMA PlaceTyped ==
  ASSUME TypeOK, AboveBase, NEW f \in Frags, NEW size \in Sizes,
         PlaceFragment(f, size)
  PROVE  /\ fragment_table' \in [Frags -> [pos : Nat, size : Sizes] \cup {NoEntry}]
         /\ bytes' \in Nat /\ fragments_outstanding' \in Int
         /\ bytes <= bytes' /\ Base <= bytes'
<1>1. /\ fragment_table \in [Frags -> [pos : Nat, size : Sizes] \cup {NoEntry}]
      /\ bytes \in Nat /\ fragments_outstanding \in Int /\ size \in Nat
      /\ Base <= bytes /\ Base \in Nat
  BY DEF TypeOK, AboveBase
<1>2. [pos |-> bytes, size |-> size] \in [pos : Nat, size : Sizes]
  BY <1>1
<1>3. QED BY <1>1, <1>2 DEF PlaceFragment

(* A fragment placed at "bytes" while no file is being written.            *)
LEMMA FragmentPlaced ==
  ASSUME NoOverlap, AboveBase, TypeOK, pc # "file", pc' = pc,
         UNCHANGED files, NEW f \in Frags, NEW size \in Sizes,
         PlaceFragment(f, size)
  PROVE  NoOverlap'
<1>1. /\ fragment_table' = [fragment_table EXCEPT ![f] = [pos |-> bytes, size |-> size]]
      /\ bytes' = bytes + size
      /\ bytes \in Nat /\ size \in Nat
  BY DEF PlaceFragment, TypeOK
<1>2. Settled = bytes /\ Settled' = bytes + size
  BY <1>1 DEF Settled
<1>3. \A i \in DOMAIN files : /\ FileEnd(i) \in Nat /\ FileEnd(i)' = FileEnd(i)
                             /\ files[i].start \in Nat
  BY FileTyped DEF FileEnd
<1>4. fragment_table'[f].pos = bytes /\ FragEnd(f)' = bytes + size
  BY <1>1 DEF TypeOK, FragEnd
<1>5. \A g \in Placed' \ {f} : /\ g \in Placed
                               /\ fragment_table'[g] = fragment_table[g]
                               /\ FragEnd(g)' = FragEnd(g)
                               /\ FragEnd(g) \in Nat
                               /\ fragment_table[g].pos \in Nat
  <2>1. \A g \in Placed' \ {f} : g \in Placed /\ fragment_table'[g] = fragment_table[g]
    BY <1>1 DEF TypeOK, Placed
  <2>2. QED BY <2>1, FragTyped DEF FragEnd
<1>6. /\ \A i \in DOMAIN files : Base <= files[i].start /\ FileEnd(i) <= bytes
      /\ \A g \in Placed : Base <= fragment_table[g].pos /\ FragEnd(g) <= bytes
      /\ Base <= bytes
  BY <1>2 DEF NoOverlap, AboveBase
<1>7. QED BY <1>1, <1>2, <1>3, <1>4, <1>5, <1>6 DEF NoOverlap

(* The file being written is recorded.                                     *)
LEMMA FileRecorded ==
  ASSUME NoOverlap, AboveBase, Contiguous, TypeOK, pc = "file", pc' # "file",
         UNCHANGED <<fragment_table, bytes>>, Record
  PROVE  NoOverlap' /\ files' \in Seq(FileType)
<1> DEFINE n == Len(files) + 1
           new == [id |-> cur.id, start |-> cur.start,
                   file_bytes |-> cur.file_bytes, block_list |-> cur.block_list]
<1>1. new \in FileType
  BY DEF TypeOK, CurType, FileType
<1>2. files' = Append(files, new) /\ files \in Seq(FileType)
  BY DEF Record, TypeOK
<1>3. /\ files' \in Seq(FileType)
      /\ DOMAIN files' = DOMAIN files \cup {n} /\ n \notin DOMAIN files
      /\ \A i \in DOMAIN files : i \in Nat /\ i < n /\ files'[i] = files[i]
      /\ files'[n] = new
  BY <1>1, <1>2
<1>4. /\ Settled = cur.start /\ Settled' = bytes
      /\ bytes = cur.start + cur.file_bytes
  BY DEF Settled, Contiguous
<1>5. Placed' = Placed /\ \A f \in Placed : FragEnd(f)' = FragEnd(f)
  BY DEF Placed, FragEnd
<1>6. \A i : i = n => FileEnd(i)' = bytes /\ files'[i].start = cur.start
  BY <1>3, <1>4 DEF FileEnd
<1>7. \A i \in DOMAIN files : FileEnd(i)' = FileEnd(i)
  BY <1>3 DEF FileEnd
<1>8. /\ \A i \in DOMAIN files : files[i].start \in Nat /\ FileEnd(i) \in Nat
      /\ \A f \in Placed : fragment_table[f].pos \in Nat /\ FragEnd(f) \in Nat
      /\ cur.start \in Nat /\ cur.file_bytes \in Nat /\ bytes \in Nat /\ Base \in Nat
  BY FileTyped, FragTyped, CurTyped DEF TypeOK
<1>9. /\ \A i \in DOMAIN files : Base <= files[i].start /\ FileEnd(i) <= cur.start
      /\ \A f \in Placed : Base <= fragment_table[f].pos /\ FragEnd(f) <= cur.start
      /\ Base <= cur.start /\ cur.start <= bytes
  BY <1>4, <1>8 DEF NoOverlap, AboveBase
<1>10. /\ \A i \in DOMAIN files' : Base <= files'[i].start /\ FileEnd(i)' <= bytes
       /\ \A i, j \in DOMAIN files' : i < j => FileEnd(i)' <= files'[j].start
  <2>1. ASSUME NEW i \in DOMAIN files'
        PROVE  Base <= files'[i].start /\ FileEnd(i)' <= bytes
    BY <2>1, <1>3, <1>6, <1>7, <1>8, <1>9
  <2>2. ASSUME NEW i \in DOMAIN files', NEW j \in DOMAIN files', i < j
        PROVE  FileEnd(i)' <= files'[j].start
    <3>1. i \in DOMAIN files
      BY <2>2, <1>3
    <3>2. CASE j = n
      BY <3>1, <3>2, <1>3, <1>6, <1>7, <1>9
    <3>3. CASE j # n
      BY <2>2, <3>1, <3>3, <1>3, <1>7 DEF NoOverlap
    <3>4. QED BY <3>2, <3>3
  <2>3. QED BY <2>1, <2>2
<1>11. \A i \in DOMAIN files', f \in Placed :
         \/ FileEnd(i)' <= fragment_table[f].pos
         \/ FragEnd(f) <= files'[i].start
  <2>1. ASSUME NEW i \in DOMAIN files', NEW f \in Placed
        PROVE  \/ FileEnd(i)' <= fragment_table[f].pos
               \/ FragEnd(f) <= files'[i].start
    <3>1. CASE i = n
      BY <3>1, <1>6, <1>9
    <3>2. CASE i # n
      BY <3>2, <1>3, <1>7 DEF NoOverlap
    <3>3. QED BY <3>1, <3>2
  <2>2. QED BY <2>1
<1>12. \A f \in Placed : Base <= fragment_table[f].pos /\ FragEnd(f) <= bytes
  BY <1>8, <1>9
<1>13. NoOverlap'
  BY <1>4, <1>5, <1>10, <1>11, <1>12 DEF NoOverlap
<1>14. QED BY <1>3, <1>13

-----------------------------------------------------------------------------
LEMMA InitInv == Init => IInv
<1> SUFFICES ASSUME Init PROVE IInv
  OBVIOUS
<1>1. cur \in CurType
  BY DEF Init, NoFile, CurType
<1>2. /\ frag_deflator \in [FragDeflators -> DeflatorType]
      /\ fragment_table \in [Frags -> [pos : Nat, size : Sizes] \cup {NoEntry}]
  BY DEF Init, DeflatorType, Frags
<1>3. TypeOK
  <2>1. /\ files \in Seq(FileType) /\ frag_locked_list \in Seq(PendingType)
        /\ to_frag \in Seq(Frags)
    BY DEF Init
  <2>3. fragments \in 0 .. MaxFragments /\ fragment_size \in 0 .. FragCapacity
    BY DEF Init
  <2>4. bytes \in Nat /\ fragments_outstanding \in Int
    BY DEF Init
  <2>5. /\ fragments_locked \in BOOLEAN /\ write_error \in BOOLEAN
        /\ from_writer \in {"empty", "ok", "error"}
    BY DEF Init
  <2>6. pc \in {"idle", "file", "flush", "unlock", "unlocking", "tail", "drain", "drained", "done", "exited"}
    BY DEF Init
  <2>2. QED BY <1>1, <1>2, <2>1, <2>3, <2>4, <2>5, <2>6 DEF TypeOK
<1>4. Placed = {} /\ DOMAIN files = {}
  BY DEF Init, Placed, Frags
<1>5. QED BY <1>3, <1>4 DEF Init, IInv, LockHeld, AboveBase, SlotFree, Contiguous,
                       NoOverlap

(* The steps that place nothing and leave bytes and the file alone.        *)
LEMMA QuietInv ==
  ASSUME IInv, TypeOK', SlotFree', LockHeld',
         UNCHANGED <<files, fragment_table, bytes>>,
         (pc' = pc /\ cur' = cur) \/ (pc # "file" /\ pc' # "file")
  PROVE  IInv'
<1>1. Settled' = Settled /\ Settled \in Nat
  BY CurTyped DEF Settled, IInv
<1>2. NoOverlap'
  BY <1>1, NothingPlaced DEF IInv
<1>3. QED BY <1>2 DEF IInv, AboveBase, Contiguous

-----------------------------------------------------------------------------
(* The two ways a fragment leaves main for to_frag.                        *)
LEMMA FillTyped ==
  ASSUME TypeOK, SlotFree, HasRoom, FillFragment
  PROVE  /\ fragments' \in 0 .. MaxFragments /\ fragment_size' \in 0 .. FragCapacity
         /\ fragments_outstanding' \in Int /\ to_frag' \in Seq(Frags)
         /\ fragments' < MaxFragments
<1>1. /\ fragments \in Nat /\ fragment_size \in 0 .. FragCapacity
      /\ to_frag \in Seq(Frags) /\ fragments_outstanding \in Int
  BY DEF TypeOK
<1>2. CASE fragment_size = FragCapacity
  <2>1. fragments \in Frags
    BY <1>1, <1>2 DEF HasRoom, Frags
  <2>2. QED BY <1>1, <1>2, <2>1 DEF FillFragment, HasRoom
<1>3. CASE fragment_size # FragCapacity
  BY <1>1, <1>3 DEF FillFragment, HasRoom
<1>4. QED BY <1>2, <1>3

LEMMA WriteFragmentTyped ==
  ASSUME TypeOK, SlotFree, WriteFragment
  PROVE  /\ fragments' \in 0 .. MaxFragments /\ fragment_size' = 0
         /\ fragments_outstanding' \in Int /\ to_frag' \in Seq(Frags)
<1>1. /\ fragments \in 0 .. MaxFragments /\ fragment_size \in 0 .. FragCapacity
      /\ to_frag \in Seq(Frags) /\ fragments_outstanding \in Int
  BY DEF TypeOK
<1>2. CASE fragment_size = 0
  BY <1>1, <1>2 DEF WriteFragment, fragVars
<1>3. CASE fragment_size # 0
  <2>1. fragments \in Frags /\ fragments < MaxFragments
    BY <1>1, <1>3 DEF SlotFree, Frags
  <2>2. QED BY <1>1, <1>3, <2>1 DEF WriteFragment
<1>4. QED BY <1>2, <1>3

LEMMA MainFragInv ==
  ASSUME IInv, WriteFileFrag \/ FillTail \/ Finish
  PROVE  IInv'
<1> USE DEF IInv
<1>1. CASE WriteFileFrag
  <2>1. TypeOK' /\ SlotFree'
    <3>1. HasRoom /\ FillFragment /\ UNCHANGED <<mainVars, lockVars, writeVars>>
      BY <1>1 DEF WriteFileFrag
    <3>2. TypeOK'
      BY <1>1, <3>1, FillTyped DEF WriteFileFrag, TypeOK, mainVars, lockVars, writeVars
    <3>3. SlotFree'
      BY <1>1, <3>1, FillTyped DEF WriteFileFrag, SlotFree, mainVars
    <3>4. QED BY <3>2, <3>3
  <2>2. QED BY <1>1, <2>1, QuietInv DEF WriteFileFrag, LockHeld, mainVars, lockVars
<1>2. CASE FillTail
  <2>1. HasRoom
    BY <1>2 DEF FillTail, SlotFree
  <2>2. TypeOK' /\ SlotFree'
    BY <1>2, <2>1, FillTyped DEF FillTail, TypeOK, SlotFree, lockVars, writeVars
  <2>3. QED BY <1>2, <2>2, QuietInv DEF FillTail, LockHeld, lockVars
<1>3. CASE Finish
  <2>1. cur' \in CurType /\ cur'.next = "drain"
    <3>1. cur' = [id |-> cur.id, start |-> 0, file_bytes |-> 0, block_list |-> <<>>,
                  dup_check |-> FALSE, thresh |-> 0, buffer_list |-> <<>>,
                  next |-> "drain"]
      BY <1>3 DEF Finish, NoFile
    <3>2. QED BY <3>1, CurTyped DEF CurType
  <2>2. TypeOK' /\ SlotFree'
    <3>1. WriteFragment /\ pc' = "unlock" /\ UNCHANGED <<files, bytes, fragment_table,
            frag_deflator, lockVars, writeVars>>
      BY <1>3 DEF Finish
    <3>2. TypeOK'
      BY <2>1, <3>1, WriteFragmentTyped DEF TypeOK, lockVars, writeVars
    <3>3. SlotFree'
      BY <2>1, <3>1, WriteFragmentTyped DEF SlotFree
    <3>4. QED BY <3>2, <3>3
  <2>3. QED BY <1>3, <2>2, QuietInv DEF Finish, LockHeld, lockVars
<1>4. QED BY <1>1, <1>2, <1>3

-----------------------------------------------------------------------------
(* The frag_deflators and the writer.                                      *)
LEMMA DeflateInv ==
  ASSUME IInv, NEW d \in FragDeflators, Deflate(d)
  PROVE  IInv'
<1> USE DEF IInv
<1>1. frag_deflator[d] \in DeflatorType
  BY DEF TypeOK
<1>2. frag_deflator[d].state \in {"compressed", "pend"} =>
        frag_deflator[d].frag \in Frags /\ frag_deflator[d].size \in Sizes
  BY <1>1 DEF DeflatorType, Idle
<1>3. CASE TakeFragment(d)
  <2>1. PICK size \in Sizes : frag_deflator' = [frag_deflator EXCEPT
          ![d] = [state |-> "compressed", frag |-> Head(to_frag), size |-> size]]
    BY <1>3 DEF TakeFragment
  <2>2. /\ to_frag \in Seq(Frags) /\ to_frag # <<>> /\ to_frag' = Tail(to_frag)
        /\ frag_deflator \in [FragDeflators -> DeflatorType]
    BY <1>3 DEF TakeFragment, TypeOK
  <2>3. Head(to_frag) \in Frags /\ to_frag' \in Seq(Frags)
    BY <2>2
  <2>4. frag_deflator' \in [FragDeflators -> DeflatorType]
    BY <2>1, <2>2, <2>3 DEF DeflatorType
  <2>5. TypeOK' /\ SlotFree'
    BY <1>3, <2>3, <2>4 DEF TakeFragment, TypeOK, SlotFree, HasRoom, mainVars,
                            lockVars, fragVars, writeVars
  <2>6. QED BY <1>3, <2>5, QuietInv DEF TakeFragment, LockHeld, mainVars, lockVars
<1>4. CASE SettleFragment(d)
  <2> DEFINE f == frag_deflator[d].frag
             size == frag_deflator[d].size
  <2>1. f \in Frags /\ size \in Sizes
    BY <1>2, <1>4 DEF SettleFragment
  <2>2. frag_deflator' \in [FragDeflators -> DeflatorType]
    <3>1. frag_deflator[d] \in [state : {"compressed", "pend"}, frag : Frags, size : Sizes]
      BY <1>1, <1>4 DEF SettleFragment, DeflatorType, Idle
    <3>2. [frag_deflator[d] EXCEPT !.state = "pend"] \in DeflatorType
      BY <3>1 DEF DeflatorType
    <3>3. frag_deflator \in [FragDeflators -> DeflatorType] /\ Idle \in DeflatorType
      BY DEF TypeOK, DeflatorType
    <3>4. CASE MayPlace(d)
      BY <1>4, <3>3, <3>4 DEF SettleFragment
    <3>5. CASE ~MayPlace(d)
      <4>1. frag_deflator' = [frag_deflator EXCEPT ![d] = [@ EXCEPT !.state = "pend"]]
        BY <1>4, <3>5 DEF SettleFragment
      <4>2. QED BY <3>2, <3>3, <4>1
    <3>6. QED BY <3>4, <3>5
  <2>3. CASE MayPlace(d)
    <3>1. PlaceFragment(f, size) /\ pc # "file"
      BY <1>4, <2>3 DEF SettleFragment, MayPlace, LockHeld
    <3>2. TypeOK' /\ SlotFree'
      <4>1. /\ fragment_table' \in [Frags -> [pos : Nat, size : Sizes] \cup {NoEntry}]
            /\ bytes' \in Nat /\ fragments_outstanding' \in Int
        BY <2>1, <3>1, PlaceTyped
      <4>2. TypeOK'
        BY <1>4, <2>2, <4>1 DEF SettleFragment, TypeOK, mainVars, lockVars, fragVars
      <4>3. SlotFree'
        BY <1>4 DEF SettleFragment, SlotFree, HasRoom, mainVars, fragVars
      <4>4. QED BY <4>2, <4>3
    <3>3. NoOverlap'
      BY <1>4, <2>1, <3>1, FragmentPlaced DEF SettleFragment, mainVars
    <3>4. pc' = pc /\ Base <= bytes'
      BY <1>4, <2>1, <3>1, PlaceTyped DEF SettleFragment, mainVars
    <3>5. QED BY <3>1, <3>2, <3>3, <3>4 DEF LockHeld, AboveBase, Contiguous
  <2>4. CASE ~MayPlace(d)
    <3>1. TypeOK' /\ SlotFree'
      BY <1>4, <2>2, <2>4 DEF SettleFragment, TypeOK, SlotFree, HasRoom, mainVars,
                              lockVars, fragVars
    <3>2. QED BY <1>4, <2>4, <3>1, QuietInv DEF SettleFragment, LockHeld, mainVars,
                                                lockVars
  <2>5. QED BY <2>3, <2>4
<1>5. CASE AddPendingFragment(d)
  <2>1. [frag |-> frag_deflator[d].frag, size |-> frag_deflator[d].size] \in PendingType
    BY <1>2, <1>5 DEF AddPendingFragment, PendingType
  <2>2. TypeOK' /\ SlotFree'
    BY <1>5, <2>1 DEF AddPendingFragment, TypeOK, DeflatorType, SlotFree, HasRoom,
                      mainVars, fragVars, writeVars
  <2>3. QED BY <1>5, <2>2, QuietInv DEF AddPendingFragment, LockHeld, mainVars
<1>6. QED BY <1>3, <1>4, <1>5 DEF Deflate

LEMMA WriterInv ==
  ASSUME IInv, Writer
  PROVE  IInv'
<1> USE DEF IInv
<1>1. TypeOK' /\ SlotFree' /\ LockHeld' /\ pc' = pc /\ cur' = cur
      /\ UNCHANGED <<files, fragment_table, bytes>>
  BY DEF Writer, Write, AnswerFlush, TypeOK, SlotFree, HasRoom, LockHeld, mainVars,
         lockVars, fragVars
<1>2. QED BY <1>1, QuietInv

-----------------------------------------------------------------------------
(* A file, from its first block to unlock_fragments.                       *)
LEMMA StartFileInv ==
  ASSUME IInv, NEW dup_check \in BOOLEAN, NEW thresh \in 0 .. MaxBlocks,
         StartFile(dup_check, thresh)
  PROVE  IInv'
<1> USE DEF IInv
<1>1. cur' = [id |-> cur.id + 1, start |-> bytes, file_bytes |-> 0,
              block_list |-> <<>>, dup_check |-> dup_check, thresh |-> thresh,
              buffer_list |-> <<>>, next |-> "idle"]
  BY DEF StartFile, NoFile
<1>2. cur' \in CurType /\ cur'.start = bytes /\ cur'.file_bytes = 0 /\ cur'.next = "idle"
  BY <1>1, CurTyped DEF CurType, TypeOK
<1>3. TypeOK'
  BY <1>2 DEF StartFile, TypeOK, fragVars, writeVars
<1>4. Settled' = Settled /\ Settled \in Nat
  BY <1>2, CurTyped DEF StartFile, Settled
<1>5. NoOverlap'
  BY <1>4, NothingPlaced DEF StartFile
<1>6. SlotFree'
  BY <1>2 DEF StartFile, SlotFree, fragVars
<1>7. LockHeld' /\ AboveBase' /\ Contiguous'
  BY <1>2 DEF StartFile, LockHeld, AboveBase, Contiguous, TypeOK
<1>8. QED BY <1>3, <1>5, <1>6, <1>7

LEMMA PlaceBlockInv ==
  ASSUME IInv, NEW size \in Sizes, PlaceBlock(size)
  PROVE  IInv'
<1> USE DEF IInv
<1> DEFINE i == Len(cur.block_list) + 1
           e == Extent(BlockOf(cur.id, i), bytes, size)
<1>1. /\ pc = "file" /\ pc' = "file" /\ bytes' = bytes + size /\ size \in Nat
      /\ bytes \in Nat /\ cur \in CurType
  BY DEF PlaceBlock, TypeOK
<1>2. /\ cur'.start = cur.start /\ cur'.file_bytes = cur.file_bytes + size
      /\ cur'.next = cur.next
  BY <1>1 DEF PlaceBlock, CurType
<1>3. cur' \in CurType
  <2>1. e \in [owner : Blocks, pos : Nat, size : Sizes]
    <3>1. i \in Nat /\ cur.id \in Nat
      BY <1>1 DEF CurType
    <3>2. BlockOf(cur.id, i) \in Blocks
      BY <3>1 DEF BlockOf, Blocks
    <3>3. QED BY <1>1, <3>2 DEF Extent
  <2>2. /\ Append(cur.block_list, size) \in Seq(Sizes)
        /\ cur.file_bytes + size \in Nat
        /\ cur.buffer_list \in Seq([owner : Blocks, pos : Nat, size : Sizes])
        /\ Append(cur.buffer_list, e) \in Seq([owner : Blocks, pos : Nat, size : Sizes])
    BY <1>1, <2>1 DEF CurType
  <2>3. PICK b \in {cur.buffer_list, Append(cur.buffer_list, e)} :
          cur' = [cur EXCEPT !.block_list = Append(@, size),
                             !.file_bytes = @ + size, !.buffer_list = b]
    BY DEF PlaceBlock
  <2>4. QED BY <1>1, <2>2, <2>3 DEF CurType
<1>4. TypeOK'
  BY <1>1, <1>3 DEF PlaceBlock, TypeOK, lockVars, fragVars
<1>5. Settled' = Settled /\ Settled \in Nat
  BY <1>1, <1>2, CurTyped DEF Settled
<1>6. NoOverlap'
  BY <1>5, NothingPlaced DEF PlaceBlock
<1>7. SlotFree'
  BY <1>1 DEF PlaceBlock, SlotFree, fragVars
<1>8. LockHeld' /\ AboveBase' /\ Contiguous'
  <2>1. cur.start \in Nat /\ cur.file_bytes \in Nat /\ bytes = cur.start + cur.file_bytes
    BY <1>1, CurTyped DEF Contiguous
  <2>2. QED BY <1>1, <1>2, <2>1 DEF PlaceBlock, LockHeld, AboveBase, Contiguous, lockVars
<1>9. QED BY <1>4, <1>6, <1>7, <1>8

LEMMA NoBuffers == <<>> \in Seq([owner : Blocks, pos : Nat, size : Sizes])
OBVIOUS

LEMMA KeepFileInv ==
  ASSUME IInv, NEW tail \in BOOLEAN, KeepFile(tail)
  PROVE  IInv'
<1> USE DEF IInv
<1>1. PICK n \in {"tail", "idle"} :
        /\ cur' = [cur EXCEPT !.buffer_list = <<>>, !.next = n]
        /\ n = "tail" => tail /\ ~cur.dup_check
  BY DEF KeepFile
<1>2. /\ cur \in CurType /\ pc = "file" /\ pc' = "unlock" /\ Record
      /\ UNCHANGED <<bytes, fragment_table, lockVars, frag_deflator>>
      /\ UNCHANGED <<from_writer, write_error>>
      /\ tail => HasRoom
  BY DEF KeepFile, TypeOK
<1>3. cur' \in CurType /\ cur'.next = n
  BY <1>1, <1>2, NoBuffers DEF CurType
<1>4. NoOverlap' /\ files' \in Seq(FileType)
  BY <1>2, FileRecorded
<1>5. /\ fragments' \in 0 .. MaxFragments /\ fragment_size' \in 0 .. FragCapacity
      /\ fragments_outstanding' \in Int /\ to_frag' \in Seq(Frags)
      /\ fragment_size' > 0 => fragments' < MaxFragments
  <2>1. CASE tail /\ cur.dup_check
    BY <1>2, <2>1, FillTyped DEF KeepFile
  <2>2. CASE ~(tail /\ cur.dup_check)
    BY <2>2 DEF KeepFile, TypeOK, SlotFree, fragVars
  <2>3. QED BY <2>1, <2>2
<1>6. TypeOK'
  BY <1>2, <1>3, <1>4, <1>5 DEF TypeOK, lockVars
<1>7. n = "tail" => HasRoom'
  BY <1>1, <1>2 DEF KeepFile, HasRoom, fragVars
<1>8. SlotFree'
  BY <1>2, <1>3, <1>5, <1>7 DEF SlotFree
<1>9. LockHeld' /\ AboveBase' /\ Contiguous'
  BY <1>2 DEF LockHeld, AboveBase, Contiguous
<1>10. QED BY <1>4, <1>6, <1>8, <1>9

LEMMA DropFileInv ==
  ASSUME IInv, DropFile
  PROVE  IInv'
<1> USE DEF IInv
<1>1. /\ pc = "file" /\ pc' \in {"flush", "unlock"} /\ bytes' = cur.start
      /\ cur \in CurType /\ cur' = [cur EXCEPT !.buffer_list = <<>>]
  BY DEF DropFile, TypeOK
<1>2. /\ cur' \in CurType /\ cur'.next = "idle" /\ bytes' \in Nat
  BY <1>1, NoBuffers DEF CurType, SlotFree
<1>3. TypeOK'
  BY <1>1, <1>2 DEF DropFile, TypeOK, lockVars, fragVars
<1>4. Settled' = Settled /\ Settled \in Nat
  BY <1>1, CurTyped DEF Settled
<1>5. NoOverlap'
  BY <1>4, NothingPlaced DEF DropFile
<1>6. SlotFree'
  BY <1>1, <1>2 DEF DropFile, SlotFree, fragVars
<1>7. LockHeld' /\ AboveBase' /\ Contiguous'
  BY <1>1 DEF LockHeld, AboveBase, Contiguous
<1>8. QED BY <1>3, <1>5, <1>6, <1>7

LEMMA TruncateInv ==
  ASSUME IInv, Truncate
  PROVE  IInv'
<1> USE DEF IInv
<1>1. /\ pc = "flush" /\ pc' \in {"exited", "unlock"}
      /\ UNCHANGED <<cur, files, bytes, fragment_table>>
  BY DEF Truncate
<1>2. TypeOK' /\ SlotFree' /\ LockHeld'
  BY <1>1 DEF Truncate, TypeOK, SlotFree, LockHeld, lockVars, fragVars
<1>3. QED BY <1>1, <1>2, QuietInv

LEMMA EnterUnlockInv ==
  ASSUME IInv, EnterUnlock
  PROVE  IInv'
<1> USE DEF IInv
<1>1. TypeOK' /\ SlotFree' /\ LockHeld'
  BY DEF EnterUnlock, TypeOK, SlotFree, LockHeld, HasRoom, lockVars, fragVars, writeVars
<1>2. QED BY <1>1, QuietInv DEF EnterUnlock

LEMMA UnlockOneInv ==
  ASSUME IInv, UnlockOne
  PROVE  IInv'
<1> USE DEF IInv
<1> DEFINE f == Head(frag_locked_list).frag
           size == Head(frag_locked_list).size
<1>1. /\ frag_locked_list \in Seq(PendingType) /\ frag_locked_list # <<>>
      /\ pc = "unlocking" /\ PlaceFragment(f, size)
      /\ UNCHANGED <<mainVars, fragVars>>
  BY DEF UnlockOne, TypeOK
<1>2. Head(frag_locked_list) \in PendingType /\ Tail(frag_locked_list) \in Seq(PendingType)
  BY <1>1
<1>3. f \in Frags /\ size \in Sizes
  BY <1>2 DEF PendingType
<1>4. /\ fragment_table' \in [Frags -> [pos : Nat, size : Sizes] \cup {NoEntry}]
      /\ bytes' \in Nat /\ fragments_outstanding' \in Int /\ Base <= bytes'
  BY <1>1, <1>3, PlaceTyped
<1>5. TypeOK'
  BY <1>1, <1>2, <1>4 DEF UnlockOne, TypeOK, mainVars, fragVars
<1>6. NoOverlap'
  BY <1>1, <1>3, FragmentPlaced DEF mainVars
<1>7. QED BY <1>1, <1>4, <1>5, <1>6 DEF LockHeld, AboveBase, Contiguous, SlotFree,
                                        HasRoom, mainVars, fragVars

LEMMA UnlockDoneInv ==
  ASSUME IInv, UnlockDone
  PROVE  IInv'
<1> USE DEF IInv
<1>1. /\ pc = "unlocking" /\ pc' = cur.next /\ cur.next \in {"idle", "tail", "drain"}
      /\ UNCHANGED <<cur, files, bytes, fragment_table>>
  BY DEF UnlockDone, TypeOK, CurType
<1>2. TypeOK'
  BY <1>1 DEF UnlockDone, TypeOK, fragVars, writeVars
<1>3. SlotFree' /\ LockHeld'
  BY <1>1 DEF UnlockDone, SlotFree, LockHeld, HasRoom, fragVars
<1>4. QED BY <1>1, <1>2, <1>3, QuietInv

LEMMA DrainInv ==
  ASSUME IInv, Drain \/ AwaitDrained
  PROVE  IInv'
<1> USE DEF IInv
<1>1. /\ pc \in {"drain", "drained"} /\ pc' \in {"drained", "exited", "done"}
      /\ UNCHANGED <<cur, files, bytes, fragment_table>>
  BY DEF Drain, AwaitDrained
<1>2. TypeOK' /\ SlotFree' /\ LockHeld'
  BY <1>1 DEF Drain, AwaitDrained, TypeOK, SlotFree, LockHeld, lockVars, fragVars
<1>3. QED BY <1>1, <1>2, QuietInv

-----------------------------------------------------------------------------
LEMMA StepInv == IInv /\ [Next]_vars => IInv'
<1> SUFFICES ASSUME IInv, [Next]_vars PROVE IInv'
  OBVIOUS
<1>1. CASE Main
  <2>1. CASE WriteFileFrag \/ FillTail \/ Finish
    BY <2>1, MainFragInv
  <2>2. CASE \E dup_check \in BOOLEAN, thresh \in 0 .. MaxBlocks :
               StartFile(dup_check, thresh)
    BY <2>2, StartFileInv
  <2>3. CASE \E size \in Sizes : PlaceBlock(size)
    BY <2>3, PlaceBlockInv
  <2>4. CASE \E tail \in BOOLEAN : KeepFile(tail)
    BY <2>4, KeepFileInv
  <2>5. CASE DropFile
    BY <2>5, DropFileInv
  <2>6. CASE Truncate
    BY <2>6, TruncateInv
  <2>7. CASE UnlockOne
    BY <2>7, UnlockOneInv
  <2>8. CASE UnlockDone
    BY <2>8, UnlockDoneInv
  <2>9. CASE Drain \/ AwaitDrained
    BY <2>9, DrainInv
  <2>10. CASE EnterUnlock
    BY <2>10, EnterUnlockInv
  <2>11. QED BY <1>1, <2>1, <2>2, <2>3, <2>4, <2>5, <2>6, <2>7, <2>8, <2>9, <2>10 DEF Main
<1>2. CASE Writer
  BY <1>2, WriterInv
<1>3. CASE \E d \in FragDeflators : Deflate(d)
  BY <1>3, DeflateInv
<1>4. CASE UNCHANGED vars
  <2>1. TypeOK' /\ SlotFree' /\ LockHeld'
    BY <1>4 DEF IInv, vars, mainVars, lockVars, fragVars, writeVars, TypeOK, SlotFree,
                LockHeld, HasRoom
  <2>2. QED BY <1>4, <2>1, QuietInv DEF vars, mainVars
<1>5. QED BY <1>1, <1>2, <1>3, <1>4 DEF Next

(* Every reachable state satisfies the inductive invariant.                *)
LEMMA Invariant == Spec => []IInv
<1>1. QED BY InitInv, StepInv, PTL DEF Spec

(* Type correctness of the main thread, the frag_deflators and the writer: *)
(* in particular write_fragment never hands out a fragment number beyond   *)
(* the table, and the position never goes below the superblock.            *)
THEOREM TypeCorrect == Spec => []TypeOK
<1>1. IInv => TypeOK
  BY DEF IInv
<1>2. QED BY <1>1, Invariant, PTL

(* For every number of deflators, files and fragments: what add_non_dup,   *)
(* create_inode and fragment_table record never overlaps, a file that is   *)
(* given back (bytes = start, ftruncate) takes nobody's data with it, and  *)
(* the blocks of the file being written are contiguous.                    *)
THEOREM LayoutSound == Spec => [](NoOverlap /\ Contiguous)
<1>1. IInv => NoOverlap /\ Contiguous
  BY DEF IInv
<1>2. QED BY <1>1, Invariant, PTL

-----------------------------------------------------------------------------
USE DeflatorsAssumption, SizesAssumption, BoundsAssumption, NoEntryAssumption

(* The frag_deflators that have a fragment.                                *)
Busy == {d \in FragDeflators : frag_deflator[d] # Idle}

-----------------------------------------------------------------------------
(* The writer's queue holds extents and flushes, the disk is a list, and   *)
(* no fragment is placed while main waits for a flush.                     *)
Placeable == [owner : Blocks \cup {FragOf(f) : f \in Frags}, pos : Nat, size : Sizes]
WriterTyped == /\ to_writer \in Seq({Flush} \cup Placeable)
               /\ Len(disk) \in Nat /\ DOMAIN disk = 1 .. Len(disk)
LockedToFlush == pc = "flush" => fragments_locked

(* A flush is in the queue while main waits for its answer and behind all  *)
(* else, and the answer tells whether a write has failed.                  *)
Asked == pc \in {"flush", "drained"} /\ from_writer = "empty"
FlushState ==
  /\ \A k \in DOMAIN to_writer : to_writer[k] = Flush <=> Asked /\ k = Len(to_writer)
  /\ Asked => to_writer # <<>>
  /\ from_writer # "empty" => pc \in {"flush", "drained"} /\ to_writer = <<>>
  /\ from_writer = "ok" => ~write_error
  /\ from_writer = "error" => write_error
  /\ pc = "exited" => write_error
  /\ pc = "done" => to_writer = <<>> /\ ~write_error
  /\ pc \in {"drained", "done"} => fragments_outstanding = 0

(* A fragment that main has filled is on its way or has its place.         *)
Pending == {to_frag[k] : k \in DOMAIN to_frag}
           \cup {frag_locked_list[k].frag : k \in DOMAIN frag_locked_list}
           \cup {frag_deflator[d].frag : d \in Busy}
FragsKnown == \A f \in 0 .. fragments - 1 : f \in Placed \/ f \in Pending

(* file_bytes is the total of the sizes of the blocks.                     *)
BytesTotal ==
  /\ pc = "file" => cur.file_bytes = Total(cur.block_list)
  /\ \A i \in DOMAIN files : files[i].file_bytes = Total(files[i].block_list)

(* The blocks of the file being written: the first of them main has handed *)
(* to the writer, the others it holds.                                     *)
Handed == IF cur.dup_check /\ cur.thresh < Len(cur.block_list)
          THEN cur.thresh ELSE Len(cur.block_list)
BlockAt(file, b) == Extent(BlockOf(file.id, b), file.start + Before(file.block_list, b),
                           file.block_list[b])
FragBlock(f) == Extent(FragOf(f), fragment_table[f].pos, fragment_table[f].size)

HeldBlocks ==
  pc = "file" => /\ Len(cur.buffer_list) = Len(cur.block_list) - Handed
                 /\ \A j \in DOMAIN cur.buffer_list :
                      cur.buffer_list[j] = BlockAt(cur, Handed + j)

(* An extent is where it should be, or will be once the writer comes to    *)
(* it, and nothing behind it in the queue overwrites it.                   *)
End(e) == e.pos + e.size
Apart(e, x) == End(e) <= x.pos \/ End(x) <= e.pos
Safe(e) ==
  \/ /\ Holds(e.pos, e.size, e.owner)
     /\ \A k \in DOMAIN to_writer : Apart(e, to_writer[k])
  \/ \E k \in DOMAIN to_writer :
       /\ to_writer[k] = e
       /\ \A j \in DOMAIN to_writer : j > k => Apart(e, to_writer[j])

FileBlocks == UNION {{BlockAt(files[i], b) : b \in DOMAIN files[i].block_list} :
                       i \in DOMAIN files}
FragBlocks == {FragBlock(f) : f \in Placed}
CurBlocks == {BlockAt(cur, b) : b \in IF pc = "file" THEN 1 .. Handed ELSE {}}
Live == FileBlocks \cup FragBlocks \cup CurBlocks
AllSafe == ~write_error => \A e \in Live : Safe(e)

(* What is on disk or in the queue ends at "bytes", or before the blocks   *)
(* main holds; when the destination is to be cut, it may go beyond.        *)
Reaches(x) ==
  /\ Len(disk) <= x /\ \A k \in DOMAIN to_writer : End(to_writer[k]) <= x
  /\ Len(disk) = x \/ \E k \in DOMAIN to_writer : End(to_writer[k]) = x
HandedEnd == IF pc = "file" THEN cur.start + Before(cur.block_list, Handed + 1) ELSE bytes
DiskEnds == (~write_error /\ ~block_device /\ pc # "flush") => Reaches(HandedEnd)

ReadInv == /\ WriterTyped /\ LockedToFlush /\ FlushState /\ FragsKnown
           /\ BytesTotal /\ HeldBlocks /\ AllSafe /\ DiskEnds

-----------------------------------------------------------------------------
LEMMA BusyFinite == IsFiniteSet(Busy) /\ Cardinality(Busy) \in Nat
<1>1. Busy \subseteq FragDeflators
  BY DEF Busy
<1>2. QED BY <1>1, FS_Subset, FS_CardinalityType

(* A deflator takes a fragment, is done with one, or goes on with it.      *)
LEMMA BusyMore ==
  ASSUME TypeOK, NEW d \in FragDeflators, frag_deflator[d] = Idle, NEW v, v # Idle,
         frag_deflator' = [frag_deflator EXCEPT ![d] = v]
  PROVE  Cardinality(Busy') = Cardinality(Busy) + 1
<1>1. Busy' = Busy \cup {d} /\ d \notin Busy
  BY DEF Busy, TypeOK
<1>2. QED BY <1>1, BusyFinite, FS_AddElement

LEMMA BusyFewer ==
  ASSUME TypeOK, NEW d \in FragDeflators, frag_deflator[d] # Idle,
         frag_deflator' = [frag_deflator EXCEPT ![d] = Idle]
  PROVE  Cardinality(Busy') = Cardinality(Busy) - 1
<1>1. Busy' = Busy \ {d} /\ d \in Busy
  BY DEF Busy, TypeOK
<1>2. QED BY <1>1, BusyFinite, FS_RemoveElement

LEMMA BusySame ==
  ASSUME TypeOK, NEW d \in FragDeflators, frag_deflator[d] # Idle, NEW v, v # Idle,
         frag_deflator' = [frag_deflator EXCEPT ![d] = v]
  PROVE  Busy' = Busy
BY DEF Busy, TypeOK

-----------------------------------------------------------------------------
(* A tail put into a fragment, and the last fragment, hand at most one     *)
(* fragment to to_frag, and count it.                                      *)
LEMMA FillCounted ==
  ASSUME TypeOK, FillFragment \/ WriteFragment
  PROVE  fragments_outstanding' - Len(to_frag') = fragments_outstanding - Len(to_frag)
<1>1. fragments_outstanding \in Int /\ Len(to_frag) \in Nat
  BY DEF TypeOK
<1>2. Len(Append(to_frag, fragments)) = Len(to_frag) + 1
  BY DEF TypeOK
<1>3. QED BY <1>1, <1>2 DEF FillFragment, WriteFragment

LEMMA OutstandingStep ==
  ASSUME TypeOK, TypeOK', OutstandingExact, [Next]_vars
  PROVE  OutstandingExact'
<1> USE DEF OutstandingExact
<1>1. /\ fragments_outstanding = Len(to_frag) + Len(frag_locked_list) + Cardinality(Busy)
      /\ Len(to_frag) \in Nat /\ Len(frag_locked_list) \in Nat
      /\ Len(to_frag') \in Nat /\ fragments_outstanding' \in Int
      /\ Cardinality(Busy) \in Nat
  BY BusyFinite DEF TypeOK, Busy
<1>2. SUFFICES fragments_outstanding' =
                 Len(to_frag') + Len(frag_locked_list') + Cardinality(Busy')
  BY DEF Busy
<1>3. ASSUME UNCHANGED <<frag_locked_list, frag_deflator>>,
             \/ FillFragment \/ WriteFragment
             \/ UNCHANGED <<fragments_outstanding, to_frag>>
      PROVE  fragments_outstanding' =
               Len(to_frag') + Len(frag_locked_list') + Cardinality(Busy')
  <2>1. Busy' = Busy
    BY <1>3 DEF Busy
  <2>2. QED BY <1>1, <1>3, <2>1, FillCounted
<1>4. CASE Main
  <2>1. CASE UnlockOne
    <3>1. /\ frag_locked_list \in Seq(PendingType) /\ frag_locked_list # <<>>
          /\ frag_locked_list' = Tail(frag_locked_list)
          /\ fragments_outstanding' = fragments_outstanding - 1
          /\ to_frag' = to_frag /\ Busy' = Busy
      BY <2>1 DEF UnlockOne, PlaceFragment, TypeOK, Busy
    <3>2. QED BY <1>1, <3>1
  <2>2. CASE ~UnlockOne
    BY <1>3, <1>4, <2>2 DEF Main, WriteFileFrag, StartFile, PlaceBlock, KeepFile, DropFile,
         Truncate, EnterUnlock, UnlockDone, FillTail, Finish, Drain, AwaitDrained, lockVars,
         fragVars
  <2>3. QED BY <2>1, <2>2
<1>5. CASE Writer
  BY <1>3, <1>5 DEF Writer, Write, AnswerFlush, lockVars
<1>6. ASSUME NEW d \in FragDeflators, Deflate(d)
      PROVE  fragments_outstanding' =
               Len(to_frag') + Len(frag_locked_list') + Cardinality(Busy')
  <2>1. CASE TakeFragment(d)
    <3>1. PICK size \in Sizes : frag_deflator' = [frag_deflator EXCEPT
            ![d] = [state |-> "compressed", frag |-> Head(to_frag), size |-> size]]
      BY <2>1 DEF TakeFragment
    <3>2. frag_deflator[d] = Idle
      BY <2>1 DEF TakeFragment, TypeOK, DeflatorType
    <3>3. Cardinality(Busy') = Cardinality(Busy) + 1
      BY <3>1, <3>2, BusyMore DEF Idle
    <3>4. Len(to_frag') = Len(to_frag) - 1
      BY <2>1 DEF TakeFragment, TypeOK
    <3>5. QED BY <1>1, <2>1, <3>3, <3>4 DEF TakeFragment, lockVars
  <2>2. CASE SettleFragment(d)
    <3>1. frag_deflator[d] # Idle
      BY <2>2 DEF SettleFragment, Idle
    <3>2. CASE MayPlace(d)
      <4>1. Cardinality(Busy') = Cardinality(Busy) - 1
        BY <2>2, <3>1, <3>2, BusyFewer DEF SettleFragment
      <4>2. QED BY <1>1, <2>2, <3>2, <4>1 DEF SettleFragment, PlaceFragment, lockVars
    <3>3. CASE ~MayPlace(d)
      <4>1. PICK v : v # Idle /\ frag_deflator' = [frag_deflator EXCEPT ![d] = v]
        <5>1. frag_deflator[d] \in DeflatorType /\ frag_deflator[d] # Idle
          BY <3>1 DEF TypeOK
        <5>2. [frag_deflator[d] EXCEPT !.state = "pend"] # Idle
          BY <5>1 DEF DeflatorType, Idle
        <5>3. frag_deflator' = [frag_deflator EXCEPT
                                  ![d] = [frag_deflator[d] EXCEPT !.state = "pend"]]
          BY <2>2, <3>3 DEF SettleFragment
        <5>4. QED BY <5>2, <5>3
      <4>2. Busy' = Busy
        BY <3>1, <4>1, BusySame
      <4>3. QED BY <1>1, <2>2, <3>3, <4>2 DEF SettleFragment, lockVars
    <3>4. QED BY <3>2, <3>3
  <2>3. CASE AddPendingFragment(d)
    <3>1. frag_deflator[d] # Idle
      BY <2>3 DEF AddPendingFragment, Idle
    <3>2. Cardinality(Busy') = Cardinality(Busy) - 1
      BY <2>3, <3>1, BusyFewer DEF AddPendingFragment
    <3>3. Len(frag_locked_list') = Len(frag_locked_list) + 1
      BY <2>3 DEF AddPendingFragment, TypeOK
    <3>4. QED BY <1>1, <2>3, <3>2, <3>3 DEF AddPendingFragment
  <2>4. QED BY <1>6, <2>1, <2>2, <2>3 DEF Deflate
<1>7. CASE UNCHANGED vars
  BY <1>3, <1>7 DEF vars, lockVars
<1>8. QED BY <1>4, <1>5, <1>6, <1>7 DEF Next

(* The counter main waits for at the end is exact, whatever the number of  *)
(* frag_deflators and the interleaving: no fragment is counted twice or    *)
(* forgotten between write_fragment and its table entry, so the loop on    *)
(* fragments_outstanding neither ends early nor waits for nothing.         *)
THEOREM OutstandingCounted == Spec => []OutstandingExact
<1>1. Init => OutstandingExact
  <2> SUFFICES ASSUME Init PROVE OutstandingExact
    OBVIOUS
  <2>1. Busy = {}
    BY DEF Init, Busy
  <2>2. Cardinality(Busy) = 0
    BY <2>1, FS_EmptySet
  <2>3. fragments_outstanding = 0 /\ Len(to_frag) = 0 /\ Len(frag_locked_list) = 0
    BY DEF Init
  <2>4. QED BY <2>2, <2>3 DEF OutstandingExact, Busy
<1>2. QED BY <1>1, OutstandingStep, TypeCorrect, PTL DEF Spec

-----------------------------------------------------------------------------
(* Where the blocks of a list begin.                                       *)
LEMMA BeforeTotal ==
  \A list : \A i \in Int : Before(list, i + 1) = Total(SubSeq(list, 1, i))
<1>1. ASSUME NEW list, NEW i \in Int
      PROVE  Before(list, i + 1) = Total(SubSeq(list, 1, i))
  <2>1. (i + 1) - 1 = i
    OBVIOUS
  <2>2. QED BY <2>1 DEF Before, Total
<1>2. QED BY <1>1

LEMMA BeforeNext ==
  ASSUME NEW l \in Seq(Sizes)
  PROVE  /\ Before(l, 1) = 0 /\ Before(l, Len(l) + 1) = Total(l)
         /\ \A b \in 1 .. Len(l) : Before(l, b + 1) = Before(l, b) + l[b]
<1>1. Before(l, 1) = 0
  <2>1. SubSeq(l, 1, 0) = <<>>
    OBVIOUS
  <2>2. 0 \in Int /\ 0 + 1 = 1
    OBVIOUS
  <2>3. Before(l, 0 + 1) = Total(SubSeq(l, 1, 0))
    BY <2>2, BeforeTotal, Zenon
  <2>4. QED BY <2>1, <2>2, <2>3, TotalEmpty
<1>2. SubSeq(l, 1, Len(l)) = l
  OBVIOUS
<1>3. ASSUME NEW b \in 1 .. Len(l)
      PROVE  Before(l, b + 1) = Before(l, b) + l[b]
  <2>1. /\ SubSeq(l, 1, b - 1) \in Seq(Sizes) /\ l[b] \in Sizes
        /\ SubSeq(l, 1, b) = Append(SubSeq(l, 1, b - 1), l[b])
    OBVIOUS
  <2>2. Total(SubSeq(l, 1, b)) = Total(SubSeq(l, 1, b - 1)) + l[b]
    BY <2>1, TotalAppend
  <2>3. Before(l, b + 1) = Total(SubSeq(l, 1, b))
        /\ Before(l, (b - 1) + 1) = Total(SubSeq(l, 1, b - 1))
    BY BeforeTotal
  <2>4. QED BY <2>2, <2>3
<1>4. Before(l, Len(l) + 1) = Total(l)
  <2>1. Len(l) \in Int
    OBVIOUS
  <2>2. Before(l, Len(l) + 1) = Total(SubSeq(l, 1, Len(l)))
    BY <2>1, BeforeTotal, Zenon
  <2>3. QED BY <1>2, <2>2
<1>5. QED BY <1>1, <1>3, <1>4

LEMMA BeforeTyped ==
  ASSUME NEW l \in Seq(Sizes), NEW b \in 1 .. Len(l) + 1
  PROVE  Before(l, b) \in Nat
<1> DEFINE P == {n \in 0 .. Len(l) : Before(l, n + 1) \in Nat}
<1>1. 0 \in P /\ \A n \in 0 .. Len(l) - 1 : n \in P => n + 1 \in P
  <2>1. 0 \in P
    BY BeforeNext
  <2>2. ASSUME NEW n \in 0 .. Len(l) - 1, n \in P PROVE n + 1 \in P
    <3>1. n + 1 \in 1 .. Len(l) /\ l[n + 1] \in Nat
      <4>1. n + 1 \in 1 .. Len(l)
        OBVIOUS
      <4>2. l[n + 1] \in Sizes
        BY <4>1
      <4>3. QED BY <4>1, <4>2
    <3>2. Before(l, (n + 1) + 1) = Before(l, n + 1) + l[n + 1]
      BY <3>1, BeforeNext
    <3>3. QED BY <2>2, <3>1, <3>2
  <2>3. QED BY <2>1, <2>2
<1>2. b - 1 \in P
  <2>1. Len(l) \in Nat
    OBVIOUS
  <2> HIDE DEF P
  <2>2. \A n \in 0 .. Len(l) : n \in P
    BY <1>1, <2>1, InductionTo
  <2>3. QED BY <2>1, <2>2
<1>3. QED BY <1>2

LEMMA BeforeMonotone ==
  ASSUME NEW l \in Seq(Sizes), NEW b \in 1 .. Len(l) + 1, NEW c \in b .. Len(l) + 1
  PROVE  Before(l, b) <= Before(l, c)
<1> DEFINE P == {n \in 0 .. Len(l) + 1 - b : Before(l, b) <= Before(l, b + n)}
<1>1. 0 \in P /\ \A n \in 0 .. (Len(l) + 1 - b) - 1 : n \in P => n + 1 \in P
  <2>1. 0 \in P
    BY BeforeTyped
  <2>2. ASSUME NEW n \in 0 .. (Len(l) + 1 - b) - 1, n \in P PROVE n + 1 \in P
    <3>1. b + n \in 1 .. Len(l) /\ l[b + n] \in Nat
      <4>1. Len(l) \in Nat
        OBVIOUS
      <4>2. b + n \in 1 .. Len(l)
        BY <4>1
      <4>3. l[b + n] \in Sizes
        BY <4>2
      <4>4. QED BY <4>2, <4>3
    <3>2. Before(l, (b + n) + 1) = Before(l, b + n) + l[b + n]
      BY <3>1, BeforeNext
    <3>3. Before(l, b) \in Nat /\ Before(l, b + n) \in Nat
      BY <3>1, BeforeTyped
    <3>4. b + (n + 1) = (b + n) + 1 /\ n + 1 \in 0 .. Len(l) + 1 - b
      OBVIOUS
    <3>5. QED BY <2>2, <3>1, <3>2, <3>3, <3>4
  <2>3. QED BY <2>1, <2>2
<1>2. c - b \in P
  <2>1. Len(l) + 1 - b \in Nat /\ c - b \in 0 .. Len(l) + 1 - b
    OBVIOUS
  <2> HIDE DEF P
  <2>2. \A n \in 0 .. Len(l) + 1 - b : n \in P
    BY <1>1, <2>1, InductionTo
  <2>3. QED BY <2>1, <2>2
<1>3. b + (c - b) = c
  OBVIOUS
<1>4. QED BY <1>2, <1>3

LEMMA BeforeAppend ==
  ASSUME NEW l \in Seq(Sizes), NEW x \in Sizes, NEW b \in 1 .. Len(l) + 1
  PROVE  Before(Append(l, x), b) = Before(l, b)
<1>1. SubSeq(Append(l, x), 1, b - 1) = SubSeq(l, 1, b - 1)
  OBVIOUS
<1>2. QED BY <1>1 DEF Before

-----------------------------------------------------------------------------
(* The types of the writer's queue and of the disk.                        *)
LEMMA PlacedTyped ==
  ASSUME TypeOK, NEW f \in Frags, NEW size \in Sizes, PlaceFragment(f, size)
  PROVE  /\ to_writer' = Append(to_writer, Extent(FragOf(f), bytes, size))
         /\ Extent(FragOf(f), bytes, size) \in Placeable
BY DEF PlaceFragment, Placeable, Extent, TypeOK

LEMMA BlockTyped ==
  ASSUME TypeOK, NEW size \in Sizes,
         NEW i, i = Len(cur.block_list) + 1
  PROVE  Extent(BlockOf(cur.id, i), bytes, size) \in Placeable
<1>1. cur.id \in Nat /\ i \in Nat /\ bytes \in Nat
  BY DEF TypeOK, CurType
<1>2. BlockOf(cur.id, i) \in Blocks
  BY <1>1 DEF BlockOf, Blocks
<1>3. QED BY <1>1, <1>2 DEF Extent, Placeable

LEMMA HeldTyped ==
  ASSUME TypeOK
  PROVE  cur.buffer_list \in Seq(Placeable)
<1>1. cur.buffer_list \in Seq([owner : Blocks, pos : Nat, size : Sizes])
  BY DEF TypeOK, CurType
<1>2. [owner : Blocks, pos : Nat, size : Sizes] \subseteq Placeable
  BY DEF Placeable
<1>3. QED BY <1>1, <1>2, SeqMonotonic

(* The disk after a write.                                                 *)
LEMMA WrittenTyped ==
  ASSUME WriterTyped, NEW e \in Placeable
  PROVE  /\ DOMAIN Written(disk, e) = 1 .. Len(Written(disk, e))
         /\ Len(Written(disk, e)) = IF Len(disk) > End(e) THEN Len(disk) ELSE End(e)
         /\ Len(Written(disk, e)) \in Nat
         /\ \A p \in 1 .. Len(Written(disk, e)) :
              Written(disk, e)[p] = IF p > e.pos /\ p <= End(e) THEN e.owner
                                    ELSE IF p <= Len(disk) THEN disk[p] ELSE Unwritten
<1>1. Len(disk) \in Nat /\ e.pos \in Nat /\ e.size \in Nat
  BY DEF WriterTyped, Placeable
<1> DEFINE n == IF Len(disk) > End(e) THEN Len(disk) ELSE End(e)
           g(p) == IF p > e.pos /\ p <= End(e) THEN e.owner
                   ELSE IF p <= Len(disk) THEN disk[p] ELSE Unwritten
<1>2. n \in Nat
  BY <1>1 DEF End
<1>3. Written(disk, e) = [p \in 1 .. n |-> g(p)]
  BY DEF Written, End
<1> HIDE DEF n, g
<1>4. Len([p \in 1 .. n |-> g(p)]) = n
  BY <1>2
<1>5. QED BY <1>2, <1>3, <1>4 DEF n, g

LEMMA TruncatedTyped ==
  ASSUME TypeOK, Truncate
  PROVE  /\ disk' = disk \/ Len(disk') = bytes
         /\ WriterTyped => Len(disk') \in Nat /\ DOMAIN disk' = 1 .. Len(disk')
<1>1. CASE disk' = disk
  BY <1>1 DEF WriterTyped
<1>2. CASE disk' # disk
  <2> DEFINE g(p) == IF p <= Len(disk) THEN disk[p] ELSE Unwritten
  <2>1. disk' = [p \in 1 .. bytes |-> g(p)] /\ bytes \in Nat
    BY <1>2 DEF Truncate, TypeOK
  <2> HIDE DEF g
  <2>2. Len([p \in 1 .. bytes |-> g(p)]) = bytes
    BY <2>1
  <2>3. QED BY <2>1, <2>2
<1>3. QED BY <1>1, <1>2

LEMMA WriterTypedStep ==
  ASSUME IInv, WriterTyped, [Next]_vars
  PROVE  WriterTyped'
<1> DEFINE T == {Flush} \cup Placeable
<1>1. to_writer \in Seq(T) /\ TypeOK
  BY DEF WriterTyped, IInv
<1>2. ASSUME UNCHANGED disk, to_writer' \in Seq(T)
      PROVE  WriterTyped'
  BY <1>2 DEF WriterTyped
<1>3. ASSUME NEW e \in T, to_writer' = Append(to_writer, e), UNCHANGED disk
      PROVE  WriterTyped'
  BY <1>1, <1>2, <1>3
<1>4. CASE Main
  <2>1. CASE UnlockOne
    <3>1. Head(frag_locked_list) \in PendingType
      BY <1>1, <2>1 DEF UnlockOne, TypeOK
    <3>2. QED BY <1>1, <1>3, <2>1, <3>1, PlacedTyped DEF UnlockOne, PendingType
  <2>2. ASSUME NEW size \in Sizes, PlaceBlock(size)
        PROVE  WriterTyped'
    BY <1>1, <1>2, <1>3, <2>2, BlockTyped DEF PlaceBlock
  <2>3. ASSUME NEW tail \in BOOLEAN, KeepFile(tail)
        PROVE  WriterTyped'
    <3>1. cur.buffer_list \in Seq(T)
      BY <1>1, HeldTyped
    <3>2. QED BY <1>1, <1>2, <2>3, <3>1 DEF KeepFile
  <2>4. CASE DropFile \/ Drain
    <3>1. Flush \in T
      OBVIOUS
    <3>2. QED BY <1>1, <1>2, <1>3, <2>4, <3>1 DEF DropFile, Drain
  <2>5. CASE Truncate
    BY <1>1, <2>5, TruncatedTyped DEF Truncate, WriterTyped
  <2>6. CASE WriteFileFrag \/ FillTail \/ Finish \/ EnterUnlock \/ UnlockDone \/ AwaitDrained
             \/ \E dup_check \in BOOLEAN, thresh \in 0 .. MaxBlocks :
                  StartFile(dup_check, thresh)
    BY <1>1, <1>2, <2>6 DEF WriteFileFrag, FillTail, Finish, EnterUnlock, UnlockDone,
       AwaitDrained, StartFile, writeVars
  <2>7. QED BY <1>4, <2>1, <2>2, <2>3, <2>4, <2>5, <2>6 DEF Main
<1>5. CASE Writer
  <2>1. to_writer' = Tail(to_writer) /\ to_writer # <<>>
    BY <1>5 DEF Writer, Write, AnswerFlush
  <2>2. to_writer' \in Seq(T) /\ Head(to_writer) \in T
    BY <1>1, <2>1
  <2>3. CASE UNCHANGED disk
    BY <1>2, <2>2, <2>3
  <2>4. CASE disk' # disk
    <3>1. disk' = Written(disk, Head(to_writer)) /\ Head(to_writer) \in Placeable
      BY <1>5, <2>2, <2>4 DEF Writer, Write, AnswerFlush
    <3>2. QED BY <2>2, <3>1, WrittenTyped DEF WriterTyped
  <2>5. QED BY <2>3, <2>4
<1>6. ASSUME NEW d \in FragDeflators, Deflate(d)
      PROVE  WriterTyped'
  <2>1. CASE SettleFragment(d) /\ MayPlace(d)
    <3>1. frag_deflator[d].frag \in Frags /\ frag_deflator[d].size \in Sizes
      BY <1>1, <2>1 DEF SettleFragment, TypeOK, DeflatorType, Idle
    <3>2. QED BY <1>1, <1>3, <2>1, <3>1, PlacedTyped DEF SettleFragment
  <2>2. CASE ~(SettleFragment(d) /\ MayPlace(d))
    BY <1>1, <1>2, <1>6, <2>2 DEF Deflate, TakeFragment, SettleFragment,
       AddPendingFragment, writeVars
  <2>3. QED BY <2>1, <2>2
<1>7. CASE UNCHANGED vars
  BY <1>1, <1>2, <1>7 DEF vars, writeVars
<1>8. QED BY <1>4, <1>5, <1>6, <1>7 DEF Next

-----------------------------------------------------------------------------
(* Flushes.                                                                *)
LEMMA LockedStep ==
  ASSUME IInv, LockedToFlush, [Next]_vars
  PROVE  LockedToFlush'
<1> USE DEF LockedToFlush
<1>1. CASE Main
  <2>1. CASE DropFile
    BY <2>1 DEF DropFile, IInv, LockHeld, lockVars
  <2>2. CASE UnlockDone
    BY <2>2 DEF UnlockDone, IInv, TypeOK, CurType
  <2>3. CASE ~DropFile /\ ~UnlockDone
    BY <1>1, <2>3 DEF Main, WriteFileFrag, StartFile, PlaceBlock, KeepFile, Truncate,
       EnterUnlock, UnlockOne, FillTail, Finish, Drain, AwaitDrained, mainVars, lockVars
  <2>4. QED BY <2>1, <2>2, <2>3
<1>2. CASE Writer
  BY <1>2 DEF Writer, Write, AnswerFlush, mainVars, lockVars
<1>3. CASE \E d \in FragDeflators : Deflate(d)
  BY <1>3 DEF Deflate, TakeFragment, SettleFragment, AddPendingFragment, mainVars, lockVars
<1>4. CASE UNCHANGED vars
  BY <1>4 DEF vars, mainVars, lockVars
<1>5. QED BY <1>1, <1>2, <1>3, <1>4 DEF Next

(* Main waits for no flush, before or after, and none was put in the queue. *)
LEMMA FlushQuiet ==
  ASSUME FlushState, pc \notin {"flush", "drained", "done"},
         pc' \notin {"flush", "drained", "done"}, pc' = "exited" => pc = "exited",
         \A k \in DOMAIN to_writer' : to_writer'[k] # Flush,
         UNCHANGED <<from_writer, write_error>>
  PROVE  FlushState'
BY DEF FlushState, Asked

LEMMA FlushKept ==
  ASSUME FlushState, UNCHANGED <<pc, to_writer, from_writer, write_error>>,
         pc \in {"drained", "done"} => fragments_outstanding' = 0
  PROVE  FlushState'
BY DEF FlushState, Asked

(* A flush put in the queue.                                               *)
LEMMA FlushAsked ==
  ASSUME WriterTyped, FlushState, pc \notin {"flush", "drained", "done", "exited"},
         pc' \in {"flush", "drained"}, to_writer' = Append(to_writer, Flush),
         pc' = "drained" => fragments_outstanding' = 0,
         UNCHANGED <<from_writer, write_error>>
  PROVE  FlushState'
<1>1. from_writer = "empty" /\ \A k \in DOMAIN to_writer : to_writer[k] # Flush
  BY DEF FlushState, Asked
<1>2. /\ Len(to_writer') = Len(to_writer) + 1 /\ DOMAIN to_writer' = 1 .. Len(to_writer) + 1
      /\ to_writer'[Len(to_writer) + 1] = Flush /\ Len(to_writer) \in Nat
      /\ \A k \in 1 .. Len(to_writer) : k \in DOMAIN to_writer /\ to_writer'[k] = to_writer[k]
  BY DEF WriterTyped
<1>3. /\ \A k \in DOMAIN to_writer' : to_writer'[k] = Flush <=> Asked' /\ k = Len(to_writer')
      /\ to_writer' # <<>>
  BY <1>1, <1>2 DEF Asked
<1>4. QED BY <1>1, <1>3 DEF FlushState

LEMMA SizedNoFlush ==
  ASSUME NEW e \in Placeable
  PROVE  /\ e # Flush /\ e.pos \in Nat /\ e.size \in Nat \ {0}
         /\ End(e) \in Nat /\ e.pos < End(e)
<1>1. e.pos \in Nat /\ e.size \in Sizes
  BY DEF Placeable
<1>2. e.size \in Nat \ {0}
  BY <1>1
<1>3. Flush.size = 0
  BY DEF Flush, Extent
<1>4. QED BY <1>1, <1>2, <1>3 DEF End

(* Extents put in the queue while main waits for no flush.                 *)
LEMMA NoFlushAdded ==
  ASSUME WriterTyped, FlushState, ~Asked, NEW s \in Seq(Placeable),
         to_writer' = to_writer \o s
  PROVE  \A k \in DOMAIN to_writer' : to_writer'[k] # Flush
<1>1. \A k \in DOMAIN to_writer : to_writer[k] # Flush
  BY DEF FlushState
<1>2. \A k \in DOMAIN s : s[k] # Flush
  BY SizedNoFlush
<1>3. to_writer \in Seq({Flush} \cup Placeable) /\ s \in Seq({Flush} \cup Placeable)
  BY SeqMonotonic DEF WriterTyped
<1>4. \A k \in DOMAIN to_writer' : to_writer'[k] = IF k <= Len(to_writer) THEN to_writer[k]
                                                  ELSE s[k - Len(to_writer)]
  BY <1>3
<1>5. ASSUME NEW k \in DOMAIN to_writer' PROVE to_writer'[k] # Flush
  <2>1. /\ k \in 1 .. Len(to_writer) + Len(s) /\ Len(to_writer) \in Nat /\ Len(s) \in Nat
        /\ DOMAIN to_writer = 1 .. Len(to_writer) /\ DOMAIN s = 1 .. Len(s)
    BY <1>3, <1>5
  <2>2. CASE k <= Len(to_writer)
    BY <1>1, <1>4, <2>1, <2>2
  <2>3. CASE k > Len(to_writer)
    BY <1>2, <1>4, <2>1, <2>3
  <2>4. QED BY <2>1, <2>2, <2>3
<1>6. QED BY <1>5

LEMMA AppendAsConcat ==
  ASSUME NEW S, NEW q \in Seq(S), NEW T, NEW e \in T
  PROVE  Append(q, e) = q \o <<e>> /\ <<e>> \in Seq(T) /\ DOMAIN <<e>> = {1} /\ <<e>>[1] = e
OBVIOUS

LEMMA NothingAdded ==
  ASSUME NEW S, NEW q \in Seq(S), NEW T
  PROVE  q = q \o <<>> /\ <<>> \in Seq(T)
OBVIOUS

LEMMA FlushStep ==
  ASSUME IInv, OutstandingExact, WriterTyped, LockedToFlush, FlushState, [Next]_vars
  PROVE  FlushState'
<1> USE DEF IInv
<1>1. /\ TypeOK /\ to_writer \in Seq({Flush} \cup Placeable) /\ Len(to_writer) \in Nat
      /\ DOMAIN to_writer = 1 .. Len(to_writer)
  BY DEF WriterTyped
<1>2. ASSUME pc \notin {"flush", "drained", "done"}, NEW s \in Seq(Placeable),
             to_writer' = to_writer \o s, pc' \notin {"flush", "drained", "done"},
             pc' = "exited" => pc = "exited", UNCHANGED <<from_writer, write_error>>
      PROVE  FlushState'
  BY <1>2, NoFlushAdded, FlushQuiet DEF Asked
<1>3. ASSUME pc \notin {"flush", "drained", "done"}, UNCHANGED to_writer,
             pc' \notin {"flush", "drained", "done"},
             pc' = "exited" => pc = "exited", UNCHANGED <<from_writer, write_error>>
      PROVE  FlushState'
  BY <1>2, <1>3, <1>1, NothingAdded
<1>4. ASSUME pc \notin {"flush", "drained", "done"}, NEW e \in Placeable,
             to_writer' = Append(to_writer, e),
             pc' \notin {"flush", "drained", "done"},
             pc' = "exited" => pc = "exited", UNCHANGED <<from_writer, write_error>>
      PROVE  FlushState'
  <2>1. to_writer' = to_writer \o <<e>> /\ <<e>> \in Seq(Placeable)
    BY <1>1, <1>4, AppendAsConcat
  <2>2. QED BY <1>2, <1>4, <2>1
<1>5. CASE Main
  <2>1. CASE WriteFileFrag \/ FillTail \/ Finish \/ EnterUnlock
             \/ \E dup_check \in BOOLEAN, thresh \in 0 .. MaxBlocks :
                  StartFile(dup_check, thresh)
    BY <1>3, <2>1 DEF WriteFileFrag, FillTail, Finish, EnterUnlock, StartFile, mainVars,
       writeVars
  <2>2. CASE UnlockDone
    <3>1. pc = "unlocking" /\ pc' \in {"idle", "tail", "drain"}
      BY <2>2 DEF UnlockDone, TypeOK, CurType
    <3>2. QED BY <1>3, <2>2, <3>1 DEF UnlockDone, writeVars
  <2>3. CASE UnlockOne
    <3>1. Head(frag_locked_list) \in PendingType
      BY <2>3 DEF UnlockOne, TypeOK
    <3>2. /\ to_writer' = Append(to_writer, Extent(FragOf(Head(frag_locked_list).frag), bytes,
                                                   Head(frag_locked_list).size))
          /\ Extent(FragOf(Head(frag_locked_list).frag), bytes,
                    Head(frag_locked_list).size) \in Placeable
      BY <2>3, <3>1, PlacedTyped DEF UnlockOne, PendingType
    <3>3. QED BY <1>4, <2>3, <3>2 DEF UnlockOne, mainVars
  <2>4. ASSUME NEW size \in Sizes, PlaceBlock(size)
        PROVE  FlushState'
    BY <1>3, <1>4, <2>4, BlockTyped DEF PlaceBlock
  <2>5. ASSUME NEW tail \in BOOLEAN, KeepFile(tail)
        PROVE  FlushState'
    BY <1>2, <2>5, HeldTyped DEF KeepFile
  <2>6. CASE DropFile
    <3>1. CASE NeedsFlush
      BY <2>6, <3>1, FlushAsked DEF DropFile
    <3>2. CASE ~NeedsFlush
      BY <1>3, <2>6, <3>2 DEF DropFile
    <3>3. QED BY <3>1, <3>2
  <2>7. CASE Drain
    BY <2>7, FlushAsked DEF Drain, AllPlaced
  <2>8. CASE Truncate \/ AwaitDrained
    BY <2>8 DEF Truncate, AwaitDrained, FlushState, Asked, TypeOK
  <2>9. QED BY <1>5, <2>1, <2>2, <2>3, <2>4, <2>5, <2>6, <2>7, <2>8 DEF Main
<1>6. CASE Writer
  <2>1. /\ to_writer' = Tail(to_writer) /\ to_writer # <<>> /\ pc' = pc
        /\ fragments_outstanding' = fragments_outstanding
    BY <1>6 DEF Writer, Write, AnswerFlush, mainVars
  <2>2. /\ Len(to_writer) >= 1 /\ Head(to_writer) = to_writer[1]
        /\ Len(to_writer') = Len(to_writer) - 1 /\ DOMAIN to_writer' = 1 .. Len(to_writer) - 1
        /\ \A k \in DOMAIN to_writer' : to_writer'[k] = to_writer[k + 1]
    BY <1>1, <2>1
  <2>3. CASE Write
    <3>1. from_writer = "empty" /\ from_writer' = "empty" /\ pc # "done"
          /\ (write_error => write_error') /\ to_writer[1] # Flush
      BY <2>1, <2>2, <2>3 DEF Write, FlushState
    <3>2. Asked' = Asked
      BY <2>1, <3>1 DEF Asked
    <3>3. \A k \in DOMAIN to_writer' : to_writer'[k] = Flush <=> Asked' /\ k = Len(to_writer')
      <4>1. ASSUME NEW k \in DOMAIN to_writer'
            PROVE  to_writer'[k] = Flush <=> Asked' /\ k = Len(to_writer')
        <5>1. k \in Nat /\ k + 1 \in DOMAIN to_writer
          BY <1>1, <2>2, <4>1
        <5>2. to_writer[k + 1] = Flush <=> Asked /\ k + 1 = Len(to_writer)
          BY <5>1 DEF FlushState
        <5>3. QED BY <1>1, <2>2, <3>2, <5>1, <5>2
      <4>2. QED BY <4>1
    <3>4. Asked' => to_writer' # <<>>
      <4>1. SUFFICES ASSUME Asked PROVE to_writer' # <<>>
        BY <3>2
      <4>2. to_writer[Len(to_writer)] = Flush
        BY <1>1, <2>2, <4>1 DEF FlushState
      <4>3. Len(to_writer) # 1
        BY <3>1, <4>2
      <4>4. QED BY <1>1, <2>2, <4>3
    <3>5. QED BY <2>1, <3>1, <3>3, <3>4 DEF FlushState
  <2>4. CASE AnswerFlush
    <3>1. Asked /\ Len(to_writer) = 1
      BY <1>1, <2>2, <2>4 DEF AnswerFlush, FlushState
    <3>2. to_writer' = <<>>
      BY <1>1, <2>2, <3>1
    <3>3. QED BY <2>1, <2>4, <3>1, <3>2 DEF AnswerFlush, FlushState, Asked, TypeOK
  <2>5. QED BY <1>6, <2>3, <2>4 DEF Writer
<1>7. ASSUME NEW d \in FragDeflators, Deflate(d)
      PROVE  FlushState'
  <2>1. CASE SettleFragment(d) /\ MayPlace(d)
    <3>1. frag_deflator[d].frag \in Frags /\ frag_deflator[d].size \in Sizes
      BY <2>1 DEF SettleFragment, TypeOK, DeflatorType, Idle
    <3>2. fragments_outstanding # 0
      <4>1. d \in Busy
        BY <2>1 DEF SettleFragment, Idle, Busy
      <4>2. Cardinality(Busy) # 0
        BY <4>1, BusyFinite, FS_EmptySet
      <4>3. Len(to_frag) \in Nat /\ Len(frag_locked_list) \in Nat
        BY DEF TypeOK
      <4>4. fragments_outstanding = Len(to_frag) + Len(frag_locked_list) + Cardinality(Busy)
        BY DEF OutstandingExact, Busy
      <4>5. QED BY <4>2, <4>3, <4>4, BusyFinite
    <3>3. pc \notin {"flush", "drained", "done"} /\ pc' = pc
      BY <2>1, <3>2 DEF SettleFragment, MayPlace, LockedToFlush, FlushState, mainVars
    <3>4. QED BY <1>4, <2>1, <3>1, <3>3, PlacedTyped DEF SettleFragment
  <2>2. CASE ~(SettleFragment(d) /\ MayPlace(d))
    <3>1. UNCHANGED <<pc, to_writer, from_writer, write_error, fragments_outstanding>>
      BY <1>7, <2>2 DEF Deflate, TakeFragment, SettleFragment,
         AddPendingFragment, writeVars, mainVars
    <3>2. QED BY <3>1, FlushKept DEF FlushState
  <2>3. QED BY <2>1, <2>2
<1>8. CASE UNCHANGED vars
  BY <1>8, FlushKept DEF vars, writeVars, mainVars, FlushState
<1>9. QED BY <1>5, <1>6, <1>7, <1>8 DEF Next

-----------------------------------------------------------------------------
(* A filled fragment is pending until it has its place.                    *)
LEMMA PlacedGrows ==
  ASSUME TypeOK, NEW f \in Frags, NEW size \in Sizes, PlaceFragment(f, size)
  PROVE  Placed' = Placed \cup {f}
<1>1. fragment_table' = [fragment_table EXCEPT ![f] = [pos |-> bytes, size |-> size]]
      /\ fragment_table \in [Frags -> [pos : Nat, size : Sizes] \cup {NoEntry}]
  BY DEF PlaceFragment, TypeOK
<1>2. [pos |-> bytes, size |-> size] # NoEntry
  BY DEF TypeOK
<1>3. QED BY <1>1, <1>2 DEF Placed

LEMMA FragsStep ==
  ASSUME IInv, FragsKnown, [Next]_vars
  PROVE  FragsKnown'
<1> USE DEF IInv
<1>1. /\ TypeOK /\ to_frag \in Seq(Frags) /\ frag_locked_list \in Seq(PendingType)
      /\ fragments \in Nat
  BY DEF TypeOK
<1>2. ASSUME UNCHANGED fragments, Placed \subseteq Placed',
             \A f \in Pending : f \in Pending' \/ f \in Placed'
      PROVE  FragsKnown'
  BY <1>2 DEF FragsKnown
<1>3. ASSUME UNCHANGED <<fragments, fragment_table, to_frag, frag_locked_list, frag_deflator>>
      PROVE  FragsKnown'
  BY <1>3 DEF FragsKnown, Placed, Pending, Busy
<1>4. ASSUME FillFragment \/ WriteFragment,
             UNCHANGED <<fragment_table, frag_locked_list, frag_deflator>>
      PROVE  FragsKnown'
  <2>1. CASE UNCHANGED <<fragments, to_frag>>
    BY <1>3, <1>4, <2>1
  <2>2. CASE to_frag' = Append(to_frag, fragments) /\ fragments' = fragments + 1
    <3>1. /\ Len(to_frag) \in Nat /\ DOMAIN to_frag' = 1 .. Len(to_frag) + 1
          /\ to_frag'[Len(to_frag) + 1] = fragments
          /\ \A k \in DOMAIN to_frag : k \in DOMAIN to_frag' /\ to_frag'[k] = to_frag[k]
      BY <1>1, <2>2
    <3>2. Pending \subseteq Pending' /\ fragments \in Pending' /\ Placed' = Placed
      BY <1>4, <3>1 DEF Pending, Placed, Busy
    <3>3. \A f \in 0 .. fragments' - 1 : f \in 0 .. fragments - 1 \/ f = fragments
      BY <1>1, <2>2
    <3>4. QED BY <3>2, <3>3 DEF FragsKnown
  <2>3. QED BY <1>4, <2>1, <2>2 DEF FillFragment, WriteFragment, fragVars
<1>5. CASE Main
  <2>1. CASE UnlockOne
    <3> DEFINE f == Head(frag_locked_list).frag
    <3>1. Head(frag_locked_list) \in PendingType /\ frag_locked_list # <<>>
          /\ frag_locked_list' = Tail(frag_locked_list)
          /\ PlaceFragment(f, Head(frag_locked_list).size)
          /\ UNCHANGED <<fragments, to_frag, frag_deflator>>
      BY <1>1, <2>1 DEF UnlockOne, fragVars
    <3>2. Placed' = Placed \cup {f}
      BY <3>1, PlacedGrows DEF PendingType
    <3>3. \A k \in DOMAIN frag_locked_list :
            \/ frag_locked_list[k].frag = f
            \/ k - 1 \in DOMAIN frag_locked_list'
               /\ frag_locked_list'[k - 1] = frag_locked_list[k]
      BY <1>1, <3>1
    <3>4. \A g \in Pending : g \in Pending' \/ g \in Placed'
      BY <3>1, <3>2, <3>3 DEF Pending, Busy
    <3>5. QED BY <1>2, <3>1, <3>2, <3>4
  <2>2. CASE WriteFileFrag \/ FillTail \/ Finish \/ \E tail \in BOOLEAN : KeepFile(tail)
    BY <1>3, <1>4, <2>2 DEF WriteFileFrag, FillTail, Finish, KeepFile, lockVars, fragVars
  <2>3. CASE ~(UnlockOne \/ WriteFileFrag \/ FillTail \/ Finish
               \/ \E tail \in BOOLEAN : KeepFile(tail))
    BY <1>3, <1>5, <2>3 DEF Main, StartFile, PlaceBlock, DropFile, Truncate,
       EnterUnlock, UnlockDone, Drain, AwaitDrained, lockVars, fragVars
  <2>4. QED BY <2>1, <2>2, <2>3
<1>6. CASE Writer
  BY <1>3, <1>6 DEF Writer, Write, AnswerFlush, lockVars, fragVars
<1>7. ASSUME NEW d \in FragDeflators, Deflate(d)
      PROVE  FragsKnown'
  <2>1. CASE TakeFragment(d)
    <3>1. PICK size \in Sizes : frag_deflator' = [frag_deflator EXCEPT
            ![d] = [state |-> "compressed", frag |-> Head(to_frag), size |-> size]]
      BY <2>1 DEF TakeFragment
    <3>2. /\ to_frag # <<>> /\ to_frag' = Tail(to_frag)
          /\ UNCHANGED <<fragments, fragment_table, frag_locked_list>>
          /\ frag_deflator[d] = Idle
      BY <2>1 DEF TakeFragment, lockVars, fragVars, TypeOK, DeflatorType
    <3>3. \A k \in DOMAIN to_frag :
            \/ to_frag[k] = Head(to_frag)
            \/ k - 1 \in DOMAIN to_frag' /\ to_frag'[k - 1] = to_frag[k]
      BY <1>1, <3>2
    <3>4. d \in Busy' /\ frag_deflator'[d].frag = Head(to_frag)
          /\ \A c \in Busy : c \in Busy' /\ frag_deflator'[c] = frag_deflator[c]
      BY <3>1, <3>2 DEF Busy, Idle, TypeOK
    <3>5. \A k \in DOMAIN to_frag : to_frag[k] \in Pending'
      BY <3>3, <3>4 DEF Pending
    <3>6. \A k \in DOMAIN frag_locked_list : frag_locked_list[k].frag \in Pending'
      BY <3>2 DEF Pending
    <3>7. \A c \in Busy : frag_deflator[c].frag \in Pending'
      <4>1. \A c \in Busy : c \in Busy' /\ frag_deflator'[c].frag = frag_deflator[c].frag
        BY <3>4
      <4>2. QED BY <4>1 DEF Pending
    <3>8. \A g \in Pending : g \in Pending'
      BY <3>5, <3>6, <3>7 DEF Pending
    <3>9. QED BY <1>2, <3>2, <3>8 DEF Placed
  <2>2. CASE SettleFragment(d)
    <3>1. /\ frag_deflator[d].frag \in Frags /\ frag_deflator[d] # Idle
          /\ frag_deflator[d] \in [state : {"compressed", "pend"}, frag : Frags, size : Sizes]
          /\ UNCHANGED <<fragments, to_frag, frag_locked_list>>
      BY <2>2 DEF SettleFragment, TypeOK, DeflatorType, Idle, fragVars, lockVars
    <3>2. CASE MayPlace(d)
      <4>1. Placed' = Placed \cup {frag_deflator[d].frag}
        BY <2>2, <3>1, <3>2, PlacedGrows DEF SettleFragment
      <4>2. \A c \in Busy : c = d \/ (c \in Busy' /\ frag_deflator'[c] = frag_deflator[c])
        BY <2>2, <3>2 DEF SettleFragment, Busy, TypeOK
      <4>3. \A g \in Pending : g \in Pending' \/ g \in Placed'
        BY <3>1, <4>1, <4>2 DEF Pending
      <4>4. QED BY <1>2, <3>1, <4>1, <4>3
    <3>3. CASE ~MayPlace(d)
      <4>1. /\ frag_deflator' = [frag_deflator EXCEPT ![d].state = "pend"]
            /\ UNCHANGED fragment_table
        BY <2>2, <3>3 DEF SettleFragment
      <4>2. frag_deflator'[d].frag = frag_deflator[d].frag /\ frag_deflator'[d] # Idle
        BY <3>1, <4>1 DEF TypeOK, Idle
      <4>3. \A c \in Busy : c \in Busy' /\ frag_deflator'[c].frag = frag_deflator[c].frag
        BY <4>1, <4>2 DEF Busy, TypeOK
      <4>4. \A g \in Pending : g \in Pending'
        BY <3>1, <4>3 DEF Pending
      <4>5. QED BY <1>2, <3>1, <4>1, <4>4 DEF Placed
    <3>4. QED BY <3>2, <3>3
  <2>3. CASE AddPendingFragment(d)
    <3>1. UNCHANGED <<fragments, fragment_table, to_frag>>
      BY <2>3 DEF AddPendingFragment, fragVars
    <3> DEFINE n == Len(frag_locked_list)
    <3>2. /\ n \in Nat /\ DOMAIN frag_locked_list' = 1 .. n + 1
          /\ frag_locked_list'[n + 1].frag = frag_deflator[d].frag
          /\ \A k \in DOMAIN frag_locked_list :
               k \in DOMAIN frag_locked_list' /\ frag_locked_list'[k] = frag_locked_list[k]
      BY <1>1, <2>3 DEF AddPendingFragment
    <3>3. \A c \in Busy : c = d \/ (c \in Busy' /\ frag_deflator'[c] = frag_deflator[c])
      BY <2>3 DEF AddPendingFragment, Busy, TypeOK
    <3>4. \A g \in Pending : g \in Pending'
      BY <3>1, <3>2, <3>3 DEF Pending
    <3>5. QED BY <1>2, <3>1, <3>4 DEF Placed
  <2>4. QED BY <1>7, <2>1, <2>2, <2>3 DEF Deflate
<1>8. CASE UNCHANGED vars
  BY <1>3, <1>8 DEF vars, lockVars, fragVars
<1>9. QED BY <1>5, <1>6, <1>7, <1>8 DEF Next

-----------------------------------------------------------------------------
(* What the steps of main do to the file it writes.                        *)
FileStarted ==
  /\ pc' = "file" /\ cur'.block_list = <<>> /\ cur'.buffer_list = <<>>
  /\ cur'.file_bytes = 0 /\ cur'.start = bytes /\ UNCHANGED <<files, bytes>>
FileKept == pc' = "unlock" /\ Record /\ UNCHANGED bytes

LEMMA FileCases ==
  ASSUME TypeOK, [Next]_vars
  PROVE  \/ \E dup_check \in BOOLEAN, thresh \in 0 .. MaxBlocks :
              StartFile(dup_check, thresh) /\ FileStarted /\ cur'.thresh = thresh
         \/ \E size \in Sizes : PlaceBlock(size)
         \/ \E tail \in BOOLEAN : KeepFile(tail) /\ FileKept
         \/ UNCHANGED files /\ (pc' = "file" => pc = "file" /\ UNCHANGED cur)
<1>1. CASE Main
  <2>1. ASSUME NEW dup_check \in BOOLEAN, NEW thresh \in 0 .. MaxBlocks,
               StartFile(dup_check, thresh)
        PROVE  StartFile(dup_check, thresh) /\ FileStarted /\ cur'.thresh = thresh
    BY <2>1 DEF StartFile, FileStarted, NoFile
  <2>2. ASSUME NEW tail \in BOOLEAN, KeepFile(tail)
        PROVE  KeepFile(tail) /\ FileKept
    BY <2>2 DEF KeepFile, FileKept
  <2>3. CASE DropFile \/ Truncate \/ Drain \/ AwaitDrained
    BY <2>3 DEF DropFile, Truncate, Drain, AwaitDrained
  <2>4. CASE UnlockDone
    BY <2>4 DEF UnlockDone, TypeOK, CurType
  <2>5. CASE WriteFileFrag \/ FillTail \/ Finish \/ EnterUnlock \/ UnlockOne
    BY <2>5 DEF WriteFileFrag, FillTail, Finish, EnterUnlock, UnlockOne, mainVars
  <2>6. QED BY <1>1, <2>1, <2>2, <2>3, <2>4, <2>5 DEF Main
<1>2. CASE Writer
  BY <1>2 DEF Writer, Write, AnswerFlush, mainVars
<1>3. CASE \E d \in FragDeflators : Deflate(d)
  BY <1>3 DEF Deflate, TakeFragment, SettleFragment, AddPendingFragment, mainVars
<1>4. CASE UNCHANGED vars
  BY <1>4 DEF vars, mainVars
<1>5. QED BY <1>1, <1>2, <1>3, <1>4 DEF Next

(* One more block: its extent, and those of the blocks before it.          *)
NextBlock == Len(cur.block_list) + 1
LEMMA BlockAdded ==
  ASSUME IInv, BytesTotal, NEW size \in Sizes, PlaceBlock(size)
  PROVE  /\ pc = "file" /\ pc' = "file" /\ bytes' = bytes + size /\ UNCHANGED files
         /\ NextBlock \in Nat
         /\ cur'.block_list = Append(cur.block_list, size)
         /\ cur'.file_bytes = cur.file_bytes + size
         /\ cur'.id = cur.id /\ cur'.start = cur.start
         /\ cur'.dup_check = cur.dup_check /\ cur'.thresh = cur.thresh
         /\ Len(cur'.block_list) = NextBlock
         /\ \A b \in 1 .. Len(cur.block_list) : BlockAt(cur', b) = BlockAt(cur, b)
         /\ BlockAt(cur', NextBlock) = Extent(BlockOf(cur.id, NextBlock), bytes, size)
<1> USE DEF IInv, NextBlock
<1>1. /\ cur \in CurType /\ cur.block_list \in Seq(Sizes) /\ bytes \in Nat
      /\ Len(cur.block_list) \in Nat
  BY DEF TypeOK, CurType
<1>2. /\ pc = "file" /\ pc' = "file" /\ bytes' = bytes + size /\ UNCHANGED files
      /\ cur'.block_list = Append(cur.block_list, size)
      /\ cur'.file_bytes = cur.file_bytes + size
      /\ cur'.id = cur.id /\ cur'.start = cur.start
      /\ cur'.dup_check = cur.dup_check /\ cur'.thresh = cur.thresh
  BY <1>1 DEF PlaceBlock, CurType
<1> DEFINE l == cur.block_list
           m == Append(l, size)
<1>3. /\ Len(m) = Len(l) + 1 /\ m[Len(l) + 1] = size
      /\ \A b \in 1 .. Len(l) : m[b] = l[b]
  BY <1>1
<1>4. ASSUME NEW b \in 1 .. Len(l) + 1 PROVE Before(m, b) = Before(l, b)
  BY <1>1, BeforeAppend
<1>5. Before(m, Len(l) + 1) = cur.file_bytes
  <2>1. Len(l) + 1 \in 1 .. Len(l) + 1
    BY <1>1
  <2>2. Before(l, Len(l) + 1) = Total(l)
    BY <1>1, BeforeNext
  <2>3. QED BY <1>2, <1>4, <2>1, <2>2 DEF BytesTotal
<1>6. bytes = cur.start + cur.file_bytes
  BY <1>2 DEF Contiguous
<1>7. \A b \in 1 .. Len(l) : BlockAt(cur', b) = BlockAt(cur, b)
  <2>1. ASSUME NEW b \in 1 .. Len(l) PROVE BlockAt(cur', b) = BlockAt(cur, b)
    <3>1. b \in 1 .. Len(l) + 1
      BY <1>1
    <3>2. QED BY <1>2, <1>3, <1>4, <3>1 DEF BlockAt
  <2>2. QED BY <2>1
<1>8. BlockAt(cur', Len(l) + 1) = Extent(BlockOf(cur.id, Len(l) + 1), bytes, size)
  BY <1>2, <1>3, <1>5, <1>6 DEF BlockAt
<1>9. QED BY <1>1, <1>2, <1>3, <1>7, <1>8

LEMMA TotalStep ==
  ASSUME IInv, BytesTotal, [Next]_vars
  PROVE  BytesTotal'
<1> USE DEF IInv
<1>1. ASSUME UNCHANGED files, pc' = "file" => pc = "file" /\ UNCHANGED cur
      PROVE  BytesTotal'
  BY <1>1 DEF BytesTotal
<1>2. CASE FileStarted
  BY <1>2, TotalEmpty DEF FileStarted, BytesTotal
<1>3. ASSUME NEW size \in Sizes, PlaceBlock(size)
      PROVE  BytesTotal'
  <2>1. Total(Append(cur.block_list, size)) = Total(cur.block_list) + size
    BY TotalAppend DEF TypeOK, CurType
  <2>2. QED BY <1>3, <2>1, BlockAdded DEF BytesTotal
<1>4. ASSUME NEW tail \in BOOLEAN, KeepFile(tail), FileKept
      PROVE  BytesTotal'
  <2> DEFINE new == [id |-> cur.id, start |-> cur.start, file_bytes |-> cur.file_bytes,
                     block_list |-> cur.block_list]
  <2>1. files' = Append(files, new)
    BY <1>4 DEF FileKept, Record
  <2>2. \A i \in DOMAIN files' : (i \in DOMAIN files /\ files'[i] = files[i]) \/ files'[i] = new
    BY <2>1 DEF TypeOK
  <2>3. pc = "file" /\ pc' = "unlock"
    BY <1>4 DEF KeepFile
  <2>4. QED BY <2>1, <2>2, <2>3 DEF BytesTotal
<1>5. QED BY <1>1, <1>2, <1>3, <1>4, FileCases

LEMMA HandedRange ==
  ASSUME TypeOK
  PROVE  /\ Handed \in Nat /\ Len(cur.block_list) \in Nat /\ Handed <= Len(cur.block_list)
         /\ Len(cur.buffer_list) \in Nat
         /\ DOMAIN cur.buffer_list = 1 .. Len(cur.buffer_list)
<1>1. /\ Len(cur.block_list) \in Nat /\ cur.thresh \in Nat /\ cur.dup_check \in BOOLEAN
      /\ Len(cur.buffer_list) \in Nat
      /\ DOMAIN cur.buffer_list = 1 .. Len(cur.buffer_list)
  BY DEF TypeOK, CurType
<1>2. QED BY <1>1 DEF Handed

LEMMA BlockHanded ==
  ASSUME IInv, BytesTotal, HeldBlocks, NEW size \in Sizes, PlaceBlock(size)
  PROVE  \/ /\ cur'.buffer_list = cur.buffer_list /\ Len(cur.buffer_list) = 0
            /\ Handed = Len(cur.block_list) /\ Handed' = NextBlock
            /\ to_writer' = Append(to_writer, BlockAt(cur', NextBlock))
         \/ /\ cur'.buffer_list = Append(cur.buffer_list, BlockAt(cur', NextBlock))
            /\ Handed' = Handed /\ UNCHANGED to_writer
<1> USE DEF IInv
<1>1. /\ cur \in CurType /\ cur.dup_check \in BOOLEAN /\ cur.thresh \in Nat
      /\ Len(cur.block_list) \in Nat /\ Len(cur.buffer_list) \in Nat
  BY HandedRange DEF TypeOK, CurType
<1>2. CASE cur.dup_check /\ NextBlock > cur.thresh
  <2>1. Handed = cur.thresh /\ Handed' = cur.thresh
    <3>1. cur.thresh <= Len(cur.block_list) /\ cur.thresh < NextBlock
      BY <1>1, <1>2 DEF NextBlock
    <3>2. /\ cur'.dup_check = cur.dup_check /\ cur'.thresh = cur.thresh
          /\ Len(cur'.block_list) = NextBlock
      BY BlockAdded
    <3>3. Handed' = cur.thresh
      BY <1>2, <3>1, <3>2 DEF Handed
    <3>4. QED BY <1>1, <1>2, <3>1, <3>3 DEF Handed
  <2>2. /\ cur'.buffer_list = Append(cur.buffer_list,
                                     Extent(BlockOf(cur.id, NextBlock), bytes, size))
        /\ UNCHANGED to_writer
    BY <1>1, <1>2 DEF PlaceBlock, NextBlock, CurType
  <2>3. QED BY <2>1, <2>2, BlockAdded
<1>3. CASE ~(cur.dup_check /\ NextBlock > cur.thresh)
  <2>1. Handed' = NextBlock /\ Handed = Len(cur.block_list)
    BY <1>1, <1>3, BlockAdded DEF Handed, NextBlock
  <2>2. /\ cur'.buffer_list = cur.buffer_list
        /\ to_writer' = Append(to_writer, Extent(BlockOf(cur.id, NextBlock), bytes, size))
    BY <1>1, <1>3 DEF PlaceBlock, NextBlock, CurType
  <2>3. Len(cur.buffer_list) = 0
    BY <1>1, <2>1, BlockAdded DEF HeldBlocks
  <2>4. QED BY <2>1, <2>2, <2>3, BlockAdded
<1>4. QED BY <1>2, <1>3

LEMMA HeldStep ==
  ASSUME IInv, BytesTotal, HeldBlocks, [Next]_vars
  PROVE  HeldBlocks'
<1> USE DEF IInv
<1>1. CASE pc' = "file" => pc = "file" /\ UNCHANGED cur
  BY <1>1 DEF HeldBlocks, Handed, BlockAt
<1>2. ASSUME NEW thresh \in 0 .. MaxBlocks, FileStarted, cur'.thresh = thresh
      PROVE  HeldBlocks'
  BY <1>2 DEF FileStarted, HeldBlocks, Handed
<1>3. ASSUME NEW size \in Sizes, PlaceBlock(size)
      PROVE  HeldBlocks'
  <2> DEFINE n == Len(cur.buffer_list)
  <2>1. /\ pc = "file" /\ NextBlock = Len(cur.block_list) + 1
        /\ Len(cur'.block_list) = NextBlock
        /\ \A b \in 1 .. Len(cur.block_list) : BlockAt(cur', b) = BlockAt(cur, b)
    BY <1>3, BlockAdded DEF NextBlock
  <2>2. /\ n = Len(cur.block_list) - Handed
        /\ \A j \in 1 .. n : cur.buffer_list[j] = BlockAt(cur, Handed + j)
        /\ n \in Nat /\ Handed \in Nat /\ Len(cur.block_list) \in Nat
        /\ DOMAIN cur.buffer_list = 1 .. n
    BY <2>1, HandedRange DEF HeldBlocks
  <2>3. CASE /\ cur'.buffer_list = cur.buffer_list /\ n = 0
             /\ Handed' = NextBlock
    BY <2>1, <2>2, <2>3 DEF HeldBlocks
  <2>4. CASE /\ cur'.buffer_list = Append(cur.buffer_list, BlockAt(cur', NextBlock))
             /\ Handed' = Handed
    <3>1. /\ Len(cur'.buffer_list) = n + 1 /\ DOMAIN cur'.buffer_list = 1 .. n + 1
          /\ cur'.buffer_list[n + 1] = BlockAt(cur', NextBlock)
          /\ \A j \in 1 .. n : cur'.buffer_list[j] = cur.buffer_list[j]
      BY <2>4 DEF TypeOK, CurType
    <3>2. ASSUME NEW j \in 1 .. n + 1
          PROVE  cur'.buffer_list[j] = BlockAt(cur', Handed + j)
      <4>1. CASE j = n + 1
        <5>1. Handed + j = NextBlock
          BY <2>1, <2>2, <2>4, <4>1
        <5>2. QED BY <3>1, <4>1, <5>1
      <4>2. CASE j \in 1 .. n
        <5>1. Handed + j \in 1 .. Len(cur.block_list)
          BY <2>2, <4>2
        <5>2. BlockAt(cur', Handed + j) = BlockAt(cur, Handed + j)
          BY <2>1, <5>1
        <5>3. QED BY <2>2, <2>4, <3>1, <4>2, <5>2
      <4>3. j = n + 1 \/ j \in 1 .. n
        BY <2>2
      <4>4. QED BY <4>1, <4>2, <4>3
    <3>3. Len(cur'.buffer_list) = Len(cur'.block_list) - Handed'
      BY <2>1, <2>2, <2>4, <3>1
    <3>4. QED BY <2>4, <3>1, <3>2, <3>3 DEF HeldBlocks
  <2>5. QED BY <1>3, <2>3, <2>4, BlockHanded
<1>4. CASE FileKept
  BY <1>4 DEF FileKept, HeldBlocks
<1>5. QED BY <1>1, <1>2, <1>3, <1>4, FileCases

-----------------------------------------------------------------------------
(* Where the blocks of a file lie.                                         *)
LEMMA BlockInside ==
  ASSUME NEW file, file.id \in Nat, file.start \in Nat, file.block_list \in Seq(Sizes),
         NEW b \in 1 .. Len(file.block_list)
  PROVE  /\ BlockAt(file, b) \in Placeable /\ End(BlockAt(file, b)) \in Nat
         /\ file.start <= BlockAt(file, b).pos
         /\ BlockAt(file, b).pos = file.start + Before(file.block_list, b)
         /\ End(BlockAt(file, b)) = file.start + Before(file.block_list, b + 1)
         /\ End(BlockAt(file, b)) <= file.start + Total(file.block_list)
<1> DEFINE l == file.block_list
           n == Len(l)
<1>1. n \in Nat /\ b \in 1 .. n + 1 /\ b + 1 \in 1 .. n + 1 /\ n + 1 \in b + 1 .. n + 1
  OBVIOUS
<1>2. Before(l, b) \in Nat /\ Before(l, b + 1) \in Nat
  BY <1>1, BeforeTyped
<1>3. l[b] \in Sizes /\ l[b] \in Nat
  <2>1. l[b] \in Sizes
    OBVIOUS
  <2>2. QED BY <2>1
<1>4. Before(l, b + 1) = Before(l, b) + l[b] /\ Before(l, n + 1) = Total(l)
  BY BeforeNext
<1>5. Before(l, b + 1) <= Before(l, n + 1)
  BY <1>1, BeforeMonotone
<1>6. BlockOf(file.id, b) \in Blocks
  BY <1>1 DEF BlockOf, Blocks
<1>7. /\ BlockAt(file, b) = [owner |-> BlockOf(file.id, b), pos |-> file.start + Before(l, b),
                             size |-> l[b]]
      /\ file.start + Before(l, b) \in Nat
  BY <1>2 DEF BlockAt, Extent
<1>8. BlockAt(file, b) \in Placeable
  BY <1>3, <1>6, <1>7 DEF Placeable
<1>9. /\ BlockAt(file, b).pos = file.start + Before(l, b)
      /\ End(BlockAt(file, b)) = file.start + Before(l, b + 1)
  BY <1>2, <1>3, <1>4, <1>7 DEF End
<1>10. /\ End(BlockAt(file, b)) \in Nat /\ file.start <= BlockAt(file, b).pos
       /\ End(BlockAt(file, b)) <= file.start + Total(l)
  <2>1. Total(l) \in Nat /\ Before(l, b + 1) <= Total(l)
    BY <1>1, <1>4, <1>5, BeforeTyped
  <2>2. QED BY <1>2, <1>9, <2>1
<1>11. QED BY <1>8, <1>9, <1>10

LEMMA BlockOrder ==
  ASSUME NEW file, file.id \in Nat, file.start \in Nat, file.block_list \in Seq(Sizes),
         NEW c \in 1 .. Len(file.block_list), NEW b \in 1 .. c - 1
  PROVE  End(BlockAt(file, b)) <= BlockAt(file, c).pos
<1> DEFINE l == file.block_list
           n == Len(l)
<1>1. /\ n \in Nat /\ b \in 1 .. n /\ b + 1 \in 1 .. n + 1 /\ c \in b + 1 .. n + 1
      /\ c \in 1 .. n + 1
  OBVIOUS
<1>2. Before(l, b + 1) <= Before(l, c)
  BY <1>1, BeforeMonotone
<1>3. Before(l, b + 1) \in Nat /\ Before(l, c) \in Nat
  BY <1>1, BeforeTyped
<1>4. /\ BlockAt(file, c).pos = file.start + Before(l, c)
      /\ End(BlockAt(file, b)) = file.start + Before(l, b + 1)
  BY <1>1, BlockInside
<1>5. QED BY <1>2, <1>3, <1>4

(* What is live lies below "bytes", and what main does not write itself    *)
(* below the settled part.                                                 *)
LEMMA CurInside ==
  ASSUME IInv, BytesTotal, pc = "file", NEW b \in 1 .. Len(cur.block_list)
  PROVE  /\ cur.id \in Nat /\ cur.start \in Nat /\ cur.block_list \in Seq(Sizes)
         /\ BlockAt(cur, b) \in Placeable /\ End(BlockAt(cur, b)) \in Nat
         /\ cur.start <= BlockAt(cur, b).pos /\ End(BlockAt(cur, b)) <= bytes
<1>1. cur.id \in Nat /\ cur.start \in Nat /\ cur.block_list \in Seq(Sizes)
  BY DEF IInv, TypeOK, CurType
<1>2. bytes = cur.start + Total(cur.block_list)
  BY DEF IInv, Contiguous, BytesTotal
<1>3. QED BY <1>1, <1>2, BlockInside

LEMMA LivePlaced ==
  ASSUME IInv, BytesTotal, NEW e \in Live
  PROVE  /\ e \in Placeable /\ End(e) <= bytes
         /\ e \in CurBlocks \/ End(e) <= Settled
<1> USE DEF IInv
<1>1. bytes \in Nat /\ Settled \in Nat /\ Settled <= bytes
  <2>1. pc = "file" => bytes = cur.start + cur.file_bytes
    BY DEF Contiguous
  <2>2. QED BY <2>1, CurTyped DEF Settled, TypeOK
<1>2. ASSUME NEW i \in DOMAIN files, NEW b \in DOMAIN files[i].block_list,
             e = BlockAt(files[i], b)
      PROVE  e \in Placeable /\ End(e) <= Settled
  <2>1. files[i] \in FileType
    BY DEF TypeOK
  <2>2. /\ files[i].id \in Nat /\ files[i].start \in Nat
        /\ files[i].block_list \in Seq(Sizes) /\ b \in 1 .. Len(files[i].block_list)
    BY <1>2, <2>1 DEF FileType
  <2>3. FileEnd(i) = files[i].start + Total(files[i].block_list)
    BY DEF BytesTotal, FileEnd
  <2>4. e \in Placeable /\ End(e) <= FileEnd(i) /\ End(e) \in Nat
    BY <1>2, <2>2, <2>3, BlockInside
  <2>5. FileEnd(i) <= Settled /\ FileEnd(i) \in Nat
    BY FileTyped DEF NoOverlap
  <2>6. QED BY <1>1, <2>4, <2>5
<1>3. ASSUME NEW f \in Placed, e = FragBlock(f)
      PROVE  e \in Placeable /\ End(e) <= Settled
  <2>1. f \in Frags /\ fragment_table[f] \in [pos : Nat, size : Sizes]
    BY DEF Placed, TypeOK
  <2>2. e = [owner |-> FragOf(f), pos |-> fragment_table[f].pos,
             size |-> fragment_table[f].size]
    BY <1>3 DEF FragBlock, Extent
  <2>3. e \in Placeable
    BY <2>1, <2>2 DEF Placeable
  <2>4. End(e) = FragEnd(f)
    BY <2>2 DEF End, FragEnd
  <2>5. QED BY <2>3, <2>4 DEF NoOverlap
<1>4. ASSUME e \in CurBlocks
      PROVE  e \in Placeable /\ End(e) <= bytes
  <2>1. pc = "file" /\ \E b \in 1 .. Handed : e = BlockAt(cur, b)
    BY <1>4 DEF CurBlocks
  <2>2. PICK b \in 1 .. Len(cur.block_list) : e = BlockAt(cur, b)
    BY <2>1, HandedRange
  <2>3. QED BY <2>1, <2>2, CurInside
<1>5. \/ \E i \in DOMAIN files : \E b \in DOMAIN files[i].block_list :
           e = BlockAt(files[i], b)
      \/ \E f \in Placed : e = FragBlock(f)
      \/ e \in CurBlocks
  <2>1. CASE e \in FileBlocks
    <3>1. PICK i \in DOMAIN files :
            e \in {BlockAt(files[i], b) : b \in DOMAIN files[i].block_list}
      BY <2>1 DEF FileBlocks
    <3>2. QED BY <3>1
  <2>2. CASE e \in FragBlocks
    BY <2>2 DEF FragBlocks
  <2>3. QED BY <2>1, <2>2 DEF Live
<1>6. CASE e \in CurBlocks
  BY <1>4, <1>6
<1>7. CASE e \notin CurBlocks
  <2>1. e \in Placeable /\ End(e) <= Settled
    BY <1>2, <1>3, <1>5, <1>7
  <2>2. End(e) \in Nat
    BY <2>1, SizedNoFlush
  <2>3. QED BY <1>1, <2>1, <2>2
<1>8. QED BY <1>6, <1>7

-----------------------------------------------------------------------------
(* What the steps of the writer and of those who hand it extents do to a   *)
(* safe extent.                                                            *)
LEMMA SafeSame ==
  ASSUME UNCHANGED <<to_writer, disk>>, NEW e, Safe(e)
  PROVE  Safe(e)'
BY DEF Safe, Holds

(* The queue after a list was appended.                                    *)
LEMMA QueueAppended ==
  ASSUME WriterTyped, NEW s \in Seq({Flush} \cup Placeable), to_writer' = to_writer \o s
  PROVE  /\ Len(to_writer) \in Nat /\ Len(s) \in Nat
         /\ DOMAIN to_writer = 1 .. Len(to_writer) /\ DOMAIN s = 1 .. Len(s)
         /\ DOMAIN to_writer' = 1 .. Len(to_writer) + Len(s)
         /\ \A k \in 1 .. Len(to_writer) : to_writer'[k] = to_writer[k]
         /\ \A k \in 1 .. Len(s) : to_writer'[Len(to_writer) + k] = s[k]
         /\ \A k \in Len(to_writer) + 1 .. Len(to_writer) + Len(s) :
              k - Len(to_writer) \in 1 .. Len(s) /\ to_writer'[k] = s[k - Len(to_writer)]
<1>1. to_writer \in Seq({Flush} \cup Placeable)
  BY DEF WriterTyped
<1>2. QED BY <1>1

LEMMA SafeAppended ==
  ASSUME WriterTyped, NEW s \in Seq({Flush} \cup Placeable), to_writer' = to_writer \o s,
         UNCHANGED disk, NEW e, Safe(e), \A k \in 1 .. Len(s) : Apart(e, s[k])
  PROVE  Safe(e)'
<1> DEFINE n == Len(to_writer)
<1>1. /\ n \in Nat /\ Len(s) \in Nat
      /\ DOMAIN to_writer = 1 .. n /\ DOMAIN to_writer' = 1 .. n + Len(s)
      /\ \A k \in 1 .. n : to_writer'[k] = to_writer[k]
      /\ \A k \in n + 1 .. n + Len(s) : Apart(e, to_writer'[k])
  BY QueueAppended
<1> HIDE DEF n
<1>2. CASE /\ Holds(e.pos, e.size, e.owner)
           /\ \A k \in DOMAIN to_writer : Apart(e, to_writer[k])
  <2>1. \A k \in DOMAIN to_writer' : Apart(e, to_writer'[k])
    <3>1. ASSUME NEW k \in 1 .. n + Len(s) PROVE Apart(e, to_writer'[k])
      <4>1. k \in 1 .. n \/ k \in n + 1 .. n + Len(s)
        BY <1>1
      <4>2. QED BY <1>1, <1>2, <4>1
    <3>2. QED BY <1>1, <3>1
  <2>2. QED BY <1>2, <2>1 DEF Safe, Holds, Apart, End
<1>3. ASSUME NEW k \in DOMAIN to_writer, to_writer[k] = e,
             \A j \in DOMAIN to_writer : j > k => Apart(e, to_writer[j])
      PROVE  Safe(e)'
  <2>1. k \in 1 .. n /\ k \in DOMAIN to_writer' /\ to_writer'[k] = e
    BY <1>1, <1>3
  <2>2. ASSUME NEW j \in DOMAIN to_writer', j > k PROVE Apart(e, to_writer'[j])
    <3>1. j \in 1 .. n \/ j \in n + 1 .. n + Len(s)
      BY <1>1, <2>2
    <3>2. QED BY <1>1, <1>3, <2>2, <3>1
  <2>3. QED BY <2>1, <2>2 DEF Safe, Apart, End
<1>4. QED BY <1>2, <1>3 DEF Safe

(* An extent of the list that was appended.                                *)
LEMMA SafeNew ==
  ASSUME WriterTyped, NEW s \in Seq({Flush} \cup Placeable), to_writer' = to_writer \o s,
         NEW e, NEW k \in 1 .. Len(s), s[k] = e,
         \A j \in 1 .. Len(s) : j > k => Apart(e, s[j])
  PROVE  Safe(e)'
<1> DEFINE n == Len(to_writer)
<1>1. /\ n \in Nat /\ Len(s) \in Nat /\ DOMAIN to_writer' = 1 .. n + Len(s)
      /\ \A j \in 1 .. Len(s) : to_writer'[n + j] = s[j]
      /\ \A j \in n + 1 .. n + Len(s) : j - n \in 1 .. Len(s) /\ to_writer'[j] = s[j - n]
  BY QueueAppended
<1> HIDE DEF n
<1>2. n + k \in DOMAIN to_writer' /\ to_writer'[n + k] = e
  BY <1>1
<1>3. ASSUME NEW j \in DOMAIN to_writer', j > n + k PROVE Apart(e, to_writer'[j])
  <2>1. j \in n + 1 .. n + Len(s) /\ j - n > k
    BY <1>1, <1>3
  <2>2. QED BY <1>1, <2>1
<1>4. QED BY <1>2, <1>3 DEF Safe, Apart, End

LEMMA QueueTaken ==
  ASSUME WriterTyped, to_writer # <<>>, to_writer' = Tail(to_writer)
  PROVE  /\ Len(to_writer) \in Nat \ {0} /\ DOMAIN to_writer = 1 .. Len(to_writer)
         /\ Head(to_writer) = to_writer[1] /\ Head(to_writer) \in {Flush} \cup Placeable
         /\ DOMAIN to_writer' = 1 .. Len(to_writer) - 1
         /\ \A k \in DOMAIN to_writer' : to_writer'[k] = to_writer[k + 1]
<1>1. to_writer \in Seq({Flush} \cup Placeable)
  BY DEF WriterTyped
<1>2. QED BY <1>1

(* The writer writes the first extent of the queue, or skips what is none. *)
LEMMA SafeTaken ==
  ASSUME WriterTyped, to_writer # <<>>, to_writer' = Tail(to_writer),
         NEW e \in Placeable, Safe(e),
         \/ Head(to_writer) # Flush /\ disk' = Written(disk, Head(to_writer))
         \/ Head(to_writer) = Flush /\ UNCHANGED disk
  PROVE  Safe(e)'
<1> DEFINE h == Head(to_writer)
           n == Len(to_writer)
<1>1. /\ n \in Nat \ {0} /\ DOMAIN to_writer = 1 .. n /\ h = to_writer[1]
      /\ DOMAIN to_writer' = 1 .. n - 1 /\ h \in {Flush} \cup Placeable
      /\ \A k \in DOMAIN to_writer' : to_writer'[k] = to_writer[k + 1]
  BY QueueTaken
<1>2. e.pos \in Nat /\ e.size \in Nat /\ End(e) \in Nat /\ Len(disk) \in Nat
  BY SizedNoFlush DEF WriterTyped
<1>3. CASE h # Flush
  <2>1. /\ h \in Placeable /\ h.pos \in Nat /\ End(h) \in Nat
        /\ disk' = Written(disk, h)
    BY <1>1, <1>3, SizedNoFlush
  <2> HIDE DEF h
  <2>2. /\ Len(disk') = IF Len(disk) > End(h) THEN Len(disk) ELSE End(h)
        /\ \A p \in 1 .. Len(disk') :
             disk'[p] = IF p > h.pos /\ p <= End(h) THEN h.owner
                        ELSE IF p <= Len(disk) THEN disk[p] ELSE Unwritten
    BY <2>1, WrittenTyped
  <2>3. Holds(e.pos, e.size, e.owner) /\ Apart(e, h) => Holds(e.pos, e.size, e.owner)'
    <3>1. SUFFICES ASSUME Holds(e.pos, e.size, e.owner), Apart(e, h)
                   PROVE  Holds(e.pos, e.size, e.owner)'
      OBVIOUS
    <3>2. End(e) <= Len(disk) /\ \A p \in e.pos + 1 .. End(e) : disk[p] = e.owner
      BY <3>1 DEF Holds, End
    <3>3. End(e) <= Len(disk')
      BY <1>2, <2>1, <2>2, <3>2
    <3>4. ASSUME NEW p \in e.pos + 1 .. End(e) PROVE disk'[p] = e.owner
      <4>1. p \in 1 .. Len(disk') /\ p <= Len(disk) /\ ~(p > h.pos /\ p <= End(h))
        BY <1>2, <2>1, <2>2, <3>1, <3>2 DEF Apart
      <4>2. QED BY <2>2, <3>2, <4>1
    <3>5. QED BY <3>3, <3>4 DEF Holds, End
  <2>4. e = h => Holds(e.pos, e.size, e.owner)'
    <3>1. SUFFICES ASSUME e = h PROVE Holds(e.pos, e.size, e.owner)'
      OBVIOUS
    <3>2. End(e) <= Len(disk') /\ Len(disk') \in Nat
      BY <1>2, <2>2, <3>1
    <3>3. \A p \in e.pos + 1 .. End(e) : disk'[p] = e.owner
      BY <1>2, <2>2, <3>1, <3>2
    <3>4. QED BY <3>2, <3>3 DEF Holds, End
  <2>5. CASE /\ Holds(e.pos, e.size, e.owner)
             /\ \A k \in DOMAIN to_writer : Apart(e, to_writer[k])
    <3>1. Apart(e, h)
      BY <1>1, <2>5
    <3>2. \A k \in DOMAIN to_writer' : Apart(e, to_writer'[k])
      BY <1>1, <2>5
    <3>3. QED BY <2>3, <2>5, <3>1, <3>2 DEF Safe, Apart, End
  <2>6. ASSUME NEW k \in DOMAIN to_writer, to_writer[k] = e,
               \A j \in DOMAIN to_writer : j > k => Apart(e, to_writer[j])
        PROVE  Safe(e)'
    <3>1. CASE k = 1
      <4>1. \A j \in DOMAIN to_writer' : Apart(e, to_writer'[j])
        BY <1>1, <2>6, <3>1
      <4>2. e = h
        BY <1>1, <2>6, <3>1
      <4>3. QED BY <2>4, <4>1, <4>2 DEF Safe, Apart, End
    <3>2. CASE k # 1
      <4>1. k - 1 \in DOMAIN to_writer' /\ to_writer'[k - 1] = e
        BY <1>1, <2>6, <3>2
      <4>2. \A j \in DOMAIN to_writer' : j > k - 1 => Apart(e, to_writer'[j])
        BY <1>1, <2>6
      <4>3. QED BY <4>1, <4>2 DEF Safe, Apart, End
    <3>3. QED BY <3>1, <3>2
  <2>7. QED BY <2>5, <2>6 DEF Safe
<1>4. CASE h = Flush
  <2>1. UNCHANGED disk
    BY <1>4
  <2>2. CASE /\ Holds(e.pos, e.size, e.owner)
             /\ \A k \in DOMAIN to_writer : Apart(e, to_writer[k])
    <3>1. \A k \in DOMAIN to_writer' : Apart(e, to_writer'[k])
      BY <1>1, <2>2
    <3>2. QED BY <2>1, <2>2, <3>1 DEF Safe, Holds, Apart, End
  <2>3. ASSUME NEW k \in DOMAIN to_writer, to_writer[k] = e,
               \A j \in DOMAIN to_writer : j > k => Apart(e, to_writer[j])
        PROVE  Safe(e)'
    <3>1. k # 1
      BY <1>1, <1>4, <2>3, SizedNoFlush
    <3>2. k - 1 \in DOMAIN to_writer' /\ to_writer'[k - 1] = e
      BY <1>1, <2>3, <3>1
    <3>3. \A j \in DOMAIN to_writer' : j > k - 1 => Apart(e, to_writer'[j])
      BY <1>1, <2>3
    <3>4. QED BY <3>2, <3>3 DEF Safe, Apart, End
  <2>4. QED BY <2>2, <2>3 DEF Safe
<1>5. QED BY <1>3, <1>4

(* The destination is cut behind it.                                       *)
LEMMA SafeCut ==
  ASSUME TypeOK, to_writer = <<>>, UNCHANGED <<to_writer, bytes>>, Truncate,
         NEW e \in Placeable, End(e) <= bytes, Safe(e)
  PROVE  Safe(e)'
<1>1. bytes \in Nat /\ e.pos \in Nat /\ End(e) \in Nat
  BY SizedNoFlush DEF TypeOK
<1>2. Holds(e.pos, e.size, e.owner)
  BY DEF Safe
<1>3. CASE disk' = disk
  BY <1>3, SafeSame
<1>4. CASE disk' # disk
  <2>1. disk' = [p \in 1 .. bytes |-> IF p <= Len(disk) THEN disk[p] ELSE Unwritten]
    BY <1>4 DEF Truncate
  <2>2. Len(disk') = bytes
    BY <1>4, TruncatedTyped
  <2>3. End(e) <= Len(disk) /\ \A p \in e.pos + 1 .. End(e) : disk[p] = e.owner
    BY <1>2 DEF Holds, End
  <2>4. ASSUME NEW p \in e.pos + 1 .. End(e) PROVE disk'[p] = e.owner
    <3>1. p \in 1 .. bytes /\ p <= End(e) /\ p \in Nat
      BY <1>1
    <3>2. CASE p <= Len(disk)
      BY <2>1, <2>3, <3>1, <3>2
    <3>3. CASE ~(p <= Len(disk))
      BY <1>1, <2>3, <3>1, <3>3
    <3>4. QED BY <3>2, <3>3
  <2>5. Holds(e.pos, e.size, e.owner)'
    BY <2>2, <2>4 DEF Holds, End
  <2>6. QED BY <2>5 DEF Safe
<1>5. QED BY <1>3, <1>4

-----------------------------------------------------------------------------
(* What a step adds to what is live.                                       *)
LEMMA LiveSame ==
  ASSUME UNCHANGED <<files, fragment_table>>, pc' = "file" => pc = "file" /\ UNCHANGED cur
  PROVE  Live' \subseteq Live
<1>1. FileBlocks' = FileBlocks
  BY DEF FileBlocks, BlockAt
<1>2. FragBlocks' = FragBlocks
  BY DEF FragBlocks, FragBlock, Placed
<1>3. CurBlocks' \subseteq CurBlocks
  <2>1. CASE pc' = "file"
    BY <2>1 DEF CurBlocks, BlockAt, Handed
  <2>2. CASE pc' # "file"
    BY <2>2 DEF CurBlocks
  <2>3. QED BY <2>1, <2>2
<1>4. QED BY <1>1, <1>2, <1>3 DEF Live

LEMMA LiveStarted ==
  ASSUME FileStarted, UNCHANGED fragment_table, cur'.thresh \in Nat
  PROVE  Live' \subseteq Live
<1>1. FileBlocks' = FileBlocks
  BY DEF FileBlocks, BlockAt, FileStarted
<1>2. FragBlocks' = FragBlocks
  BY DEF FragBlocks, FragBlock, Placed
<1>3. Handed' = 0
  BY DEF FileStarted, Handed
<1>4. CurBlocks' = {}
  BY <1>3 DEF CurBlocks
<1>5. QED BY <1>1, <1>2, <1>4 DEF Live

LEMMA LiveFragment ==
  ASSUME TypeOK, UNCHANGED files, pc' # "file",
         NEW f \in Frags, NEW size \in Sizes, PlaceFragment(f, size)
  PROVE  Live' \subseteq Live \cup {Extent(FragOf(f), bytes, size)}
<1>1. FileBlocks' = FileBlocks
  BY DEF FileBlocks, BlockAt
<1>2. fragment_table' = [fragment_table EXCEPT ![f] = [pos |-> bytes, size |-> size]]
  BY DEF PlaceFragment
<1>3. ASSUME NEW g \in Placed'
      PROVE  FragBlock(g)' \in FragBlocks \cup {Extent(FragOf(f), bytes, size)}
  <2>1. g \in Frags /\ fragment_table'[g] # NoEntry
    BY <1>3 DEF Placed
  <2>2. CASE g = f
    BY <1>2, <2>1, <2>2 DEF FragBlock, TypeOK
  <2>3. CASE g # f
    <3>1. fragment_table'[g] = fragment_table[g] /\ g \in Placed
      BY <1>2, <2>1, <2>3 DEF Placed, TypeOK
    <3>2. QED BY <3>1 DEF FragBlocks, FragBlock
  <2>4. QED BY <2>2, <2>3
<1>4. FragBlocks' \subseteq FragBlocks \cup {Extent(FragOf(f), bytes, size)}
  BY <1>3 DEF FragBlocks
<1>5. CurBlocks' = {}
  BY DEF CurBlocks
<1>6. QED BY <1>1, <1>4, <1>5 DEF Live

LEMMA LiveBlock ==
  ASSUME IInv, BytesTotal, HeldBlocks, NEW size \in Sizes, PlaceBlock(size)
  PROVE  \A e \in Live' : \/ e \in Live
                          \/ e = BlockAt(cur', NextBlock) /\ Handed' = NextBlock
<1>1. /\ pc = "file" /\ UNCHANGED <<files, fragment_table>>
      /\ \A b \in 1 .. Len(cur.block_list) : BlockAt(cur', b) = BlockAt(cur, b)
      /\ NextBlock = Len(cur.block_list) + 1
  BY BlockAdded DEF PlaceBlock, NextBlock
<1>2. FileBlocks' = FileBlocks /\ FragBlocks' = FragBlocks
  BY <1>1 DEF FileBlocks, BlockAt, FragBlocks, FragBlock, Placed
<1>3. \/ Handed' = Handed
      \/ Handed' = NextBlock /\ Handed = Len(cur.block_list)
  BY BlockHanded
<1>4. Handed \in Nat /\ Len(cur.block_list) \in Nat /\ Handed <= Len(cur.block_list)
  BY HandedRange DEF IInv
<1>5. ASSUME NEW e \in CurBlocks'
      PROVE  e \in CurBlocks \/ (e = BlockAt(cur', NextBlock) /\ Handed' = NextBlock)
  <2>1. PICK b \in 1 .. Handed' : e = BlockAt(cur', b)
    BY <1>5 DEF CurBlocks
  <2>2. CASE b \in 1 .. Handed
    <3>1. e = BlockAt(cur, b)
      BY <1>1, <1>4, <2>1, <2>2
    <3>2. QED BY <1>1, <2>2, <3>1 DEF CurBlocks
  <2>3. CASE b \notin 1 .. Handed
    BY <1>1, <1>3, <1>4, <2>1, <2>3
  <2>4. QED BY <2>2, <2>3
<1>6. QED BY <1>2, <1>5 DEF Live

LEMMA LiveRecorded ==
  ASSUME IInv, pc = "file", pc' # "file", Record, UNCHANGED fragment_table
  PROVE  \A e \in Live' : \/ e \in Live
                          \/ \E b \in Handed + 1 .. Len(cur.block_list) : e = BlockAt(cur, b)
<1> DEFINE new == [id |-> cur.id, start |-> cur.start, file_bytes |-> cur.file_bytes,
                   block_list |-> cur.block_list]
<1>1. files' = Append(files, new) /\ files \in Seq(FileType)
  BY DEF Record, IInv, TypeOK
<1>2. \A i \in DOMAIN files' : \/ i \in DOMAIN files /\ files'[i] = files[i]
                               \/ files'[i] = new
  BY <1>1
<1>3. \A b : BlockAt(new, b) = BlockAt(cur, b)
  BY DEF BlockAt
<1>4. /\ Handed \in Nat /\ Len(cur.block_list) \in Nat
      /\ DOMAIN cur.block_list = 1 .. Len(cur.block_list)
  BY HandedRange DEF IInv, TypeOK, CurType
<1>5. ASSUME NEW e \in FileBlocks'
      PROVE  \/ e \in FileBlocks \/ e \in CurBlocks
             \/ \E b \in Handed + 1 .. Len(cur.block_list) : e = BlockAt(cur, b)
  <2>1. PICK i \in DOMAIN files' :
          e \in {BlockAt(files'[i], b) : b \in DOMAIN files'[i].block_list}
    BY <1>5 DEF FileBlocks
  <2>2. PICK b \in DOMAIN files'[i].block_list : e = BlockAt(files'[i], b)
    BY <2>1
  <2>3. CASE i \in DOMAIN files /\ files'[i] = files[i]
    BY <2>2, <2>3 DEF FileBlocks
  <2>4. CASE files'[i] = new
    <3>1. b \in 1 .. Len(cur.block_list) /\ e = BlockAt(cur, b)
      BY <1>3, <1>4, <2>2, <2>4
    <3>2. b \in 1 .. Handed \/ b \in Handed + 1 .. Len(cur.block_list)
      BY <1>4, <3>1
    <3>3. QED BY <3>1, <3>2 DEF CurBlocks
  <2>5. QED BY <1>2, <2>3, <2>4
<1>6. FragBlocks' = FragBlocks /\ CurBlocks' = {}
  BY DEF FragBlocks, FragBlock, Placed, CurBlocks
<1>7. QED BY <1>5, <1>6 DEF Live

-----------------------------------------------------------------------------
(* An extent placed behind what is live, or a flush, keeps clear of it.    *)
LEMMA ApartBehind ==
  ASSUME NEW e \in Placeable, NEW x, x = Flush \/ End(e) <= x.pos
  PROVE  Apart(e, x)
<1>1. e.pos \in Nat
  BY SizedNoFlush
<1>2. End(Flush) = 0
  BY DEF End, Flush, Extent
<1>3. QED BY <1>1, <1>2 DEF Apart

(* One extent at "bytes", or one flush, is handed to the writer.           *)
LEMMA SafeOneMore ==
  ASSUME IInv, BytesTotal, WriterTyped, AllSafe, ~write_error, UNCHANGED disk,
         NEW x \in {Flush} \cup Placeable, x = Flush \/ x.pos = bytes,
         to_writer' = Append(to_writer, x)
  PROVE  Safe(x)' /\ \A e \in Live : Safe(e)'
<1> DEFINE s == <<x>>
<1>1. /\ to_writer' = to_writer \o s /\ s \in Seq({Flush} \cup Placeable)
      /\ Len(s) = 1 /\ 1 \in 1 .. Len(s) /\ s[1] = x
      /\ \A k \in 1 .. Len(s) : k = 1
  BY DEF WriterTyped
<1> HIDE DEF s
<1>2. Safe(x)'
  <2>1. \A j \in 1 .. Len(s) : j > 1 => Apart(x, s[j])
    BY <1>1
  <2>2. QED BY <1>1, <2>1, SafeNew, Zenon
<1>3. ASSUME NEW e \in Live PROVE Safe(e)'
  <2>1. e \in Placeable /\ End(e) <= bytes
    BY <1>3, LivePlaced
  <2>2. Apart(e, x)
    BY <2>1, ApartBehind
  <2>3. Safe(e) /\ \A k \in 1 .. Len(s) : Apart(e, s[k])
    BY <1>1, <1>3, <2>2 DEF AllSafe
  <2>4. QED BY <1>1, <2>3, SafeAppended
<1>4. QED BY <1>2, <1>3

(* The blocks main held are handed to the writer.                          *)
LEMMA SafeKept ==
  ASSUME IInv, BytesTotal, WriterTyped, HeldBlocks, AllSafe, ~write_error, UNCHANGED disk,
         pc = "file", to_writer' = to_writer \o cur.buffer_list
  PROVE  /\ \A e \in Live : Safe(e)'
         /\ \A b \in Handed + 1 .. Len(cur.block_list) :
              \A e : e = BlockAt(cur, b) => Safe(e)'
<1> DEFINE s == cur.buffer_list
           n == Len(s)
<1>1. /\ n = Len(cur.block_list) - Handed /\ n \in Nat
      /\ Handed \in Nat /\ Len(cur.block_list) \in Nat /\ DOMAIN s = 1 .. n
      /\ \A j \in 1 .. n : s[j] = BlockAt(cur, Handed + j)
  BY HandedRange DEF HeldBlocks, IInv
<1>2. s \in Seq({Flush} \cup Placeable)
  BY HeldTyped, SeqMonotonic DEF IInv
<1>3. /\ cur.id \in Nat /\ cur.start \in Nat /\ cur.block_list \in Seq(Sizes)
  BY DEF IInv, TypeOK, CurType
<1>4. \A j \in 1 .. n : Handed + j \in 1 .. Len(cur.block_list)
  BY <1>1
<1>5. \A j \in 1 .. n : s[j] \in Placeable /\ cur.start <= s[j].pos
  BY <1>1, <1>4, CurInside
<1>6. ASSUME NEW c \in 1 .. Len(cur.block_list), NEW j \in 1 .. n, c < Handed + j
      PROVE  End(BlockAt(cur, c)) <= s[j].pos
  <2>1. Handed + j \in 1 .. Len(cur.block_list) /\ c \in 1 .. (Handed + j) - 1
    BY <1>1, <1>4, <1>6
  <2>2. End(BlockAt(cur, c)) <= BlockAt(cur, Handed + j).pos
    BY <1>3, <2>1, BlockOrder
  <2>3. QED BY <1>1, <2>2
<1> HIDE DEF s, n
<1>7. ASSUME NEW e \in Live PROVE Safe(e)'
  <2>1. e \in Placeable /\ End(e) \in Nat /\ (e \in CurBlocks \/ End(e) <= cur.start)
    BY <1>7, LivePlaced, SizedNoFlush DEF Settled
  <2>2. \A j \in 1 .. n : End(e) <= s[j].pos
    <3>1. CASE e \in CurBlocks
      <4>1. PICK c \in 1 .. Handed : e = BlockAt(cur, c)
        BY <3>1 DEF CurBlocks
      <4>2. c \in 1 .. Len(cur.block_list) /\ \A j \in 1 .. n : c < Handed + j
        BY <1>1, HandedRange DEF IInv
      <4>3. QED BY <1>6, <4>1, <4>2
    <3>2. CASE End(e) <= cur.start
      <4>1. ASSUME NEW j \in 1 .. n PROVE End(e) <= s[j].pos
        <5>1. s[j].pos \in Nat /\ cur.start <= s[j].pos
          BY <1>5, SizedNoFlush
        <5>2. QED BY <1>3, <2>1, <3>2, <5>1
      <4>2. QED BY <4>1
    <3>3. QED BY <2>1, <3>1, <3>2
  <2>3. \A j \in 1 .. n : Apart(e, s[j])
    BY <2>1, <2>2, ApartBehind
  <2>4. Safe(e) /\ \A j \in 1 .. Len(s) : Apart(e, s[j])
    BY <1>7, <2>3 DEF AllSafe, n
  <2>5. to_writer' = to_writer \o s
    BY DEF s
  <2>6. QED BY <1>2, <2>4, <2>5, SafeAppended
<1>8. ASSUME NEW b \in Handed + 1 .. Len(cur.block_list), NEW e, e = BlockAt(cur, b)
      PROVE  Safe(e)'
  <2>1. b \in 1 .. Len(cur.block_list) /\ b - Handed \in 1 .. n /\ Handed + (b - Handed) = b
    BY <1>1
  <2>2. e \in Placeable
    BY <1>3, <1>8, <2>1, BlockInside
  <2>3. s[b - Handed] = e
    BY <1>1, <1>8, <2>1
  <2>4. ASSUME NEW j \in 1 .. n, j > b - Handed PROVE Apart(e, s[j])
    <3>1. b < Handed + j
      BY <1>1, <2>1, <2>4
    <3>2. End(e) <= s[j].pos
      BY <1>6, <1>8, <2>1, <3>1
    <3>3. QED BY <2>2, <3>2, ApartBehind
  <2>5. b - Handed \in 1 .. Len(s) /\ \A j \in 1 .. Len(s) : j > b - Handed => Apart(e, s[j])
    BY <2>1, <2>4 DEF n
  <2>6. to_writer' = to_writer \o s
    BY DEF s
  <2>7. QED BY <1>2, <2>3, <2>5, <2>6, SafeNew
<1>9. QED BY <1>7, <1>8

LEMMA SafeStep ==
  ASSUME IInv, WriterTyped, LockedToFlush, FlushState, BytesTotal, HeldBlocks, AllSafe,
         [Next]_vars
  PROVE  AllSafe'
<1>1. write_error => write_error'
  BY DEF Next, Main, Writer, Deflate, WriteFileFrag, StartFile, PlaceBlock, KeepFile,
     DropFile, Truncate, EnterUnlock, UnlockOne, UnlockDone, FillTail, Finish, Drain,
     AwaitDrained, Write, AnswerFlush, TakeFragment, SettleFragment, AddPendingFragment,
     vars, writeVars
<1>2. SUFFICES ASSUME ~write_error, ~write_error'
               PROVE  \A e \in Live' : Safe(e)'
  BY <1>1 DEF AllSafe
<1>3. \A e \in Live : e \in Placeable /\ End(e) <= bytes /\ Safe(e)
  BY <1>2, LivePlaced DEF AllSafe
<1>4. TypeOK
  BY DEF IInv
<1>5. ASSUME Live' \subseteq Live, UNCHANGED <<to_writer, disk>>
      PROVE  \A e \in Live' : Safe(e)'
  BY <1>3, <1>5, SafeSame
<1>6. ASSUME UNCHANGED <<files, fragment_table, to_writer, disk>>,
             pc' = "file" => pc = "file" /\ UNCHANGED cur
      PROVE  \A e \in Live' : Safe(e)'
  BY <1>5, <1>6, LiveSame
<1>7. ASSUME pc # "file", pc' # "file", UNCHANGED <<files, disk>>,
             NEW f \in Frags, NEW size \in Sizes, PlaceFragment(f, size)
      PROVE  \A e \in Live' : Safe(e)'
  <2> DEFINE x == Extent(FragOf(f), bytes, size)
  <2>1. to_writer' = Append(to_writer, x) /\ x \in Placeable /\ x.pos = bytes
    BY <1>4, <1>7, PlacedTyped DEF Extent
  <2>2. Live' \subseteq Live \cup {x}
    BY <1>4, <1>7, LiveFragment
  <2> HIDE DEF x
  <2>3. \A y : y = x => Safe(y)'
    BY <1>2, <1>7, <2>1, SafeOneMore
  <2>4. \A e \in Live : Safe(e)'
    BY <1>2, <1>7, <2>1, SafeOneMore
  <2>5. QED BY <2>2, <2>3, <2>4
<1>8. CASE Main
  <2>1. CASE WriteFileFrag \/ FillTail \/ Finish \/ EnterUnlock \/ AwaitDrained
    BY <1>6, <2>1 DEF WriteFileFrag, FillTail, Finish, EnterUnlock, AwaitDrained, mainVars,
       writeVars
  <2>2. CASE UnlockDone
    <3>1. pc' # "file"
      BY <1>4, <2>2 DEF UnlockDone, TypeOK, CurType
    <3>2. QED BY <1>6, <2>2, <3>1 DEF UnlockDone, writeVars
  <2>3. CASE UnlockOne
    <3>1. Head(frag_locked_list) \in PendingType
      BY <1>4, <2>3 DEF UnlockOne, TypeOK
    <3>2. QED BY <1>7, <2>3, <3>1 DEF UnlockOne, PendingType, mainVars
  <2>4. ASSUME NEW dup_check \in BOOLEAN, NEW thresh \in 0 .. MaxBlocks,
               StartFile(dup_check, thresh)
        PROVE  \A e \in Live' : Safe(e)'
    <3>1. FileStarted /\ cur'.thresh \in Nat /\ UNCHANGED <<fragment_table, to_writer, disk>>
      BY <2>4 DEF StartFile, FileStarted, NoFile, writeVars
    <3>2. QED BY <1>5, <3>1, LiveStarted
  <2>5. ASSUME NEW size \in Sizes, PlaceBlock(size)
        PROVE  \A e \in Live' : Safe(e)'
    <3>1. /\ BlockAt(cur', NextBlock) = Extent(BlockOf(cur.id, NextBlock), bytes, size)
          /\ NextBlock = Len(cur.block_list) + 1
      BY <2>5, BlockAdded DEF NextBlock
    <3> DEFINE x == Extent(BlockOf(cur.id, NextBlock), bytes, size)
    <3>2. x \in Placeable /\ x.pos = bytes /\ UNCHANGED disk
      BY <1>4, <2>5, <3>1, BlockTyped DEF Extent, PlaceBlock
    <3>3. \A e \in Live' : e \in Live \/ (e = x /\ Handed' = NextBlock)
      BY <2>5, <3>1, LiveBlock
    <3> HIDE DEF x
    <3>4. CASE to_writer' = Append(to_writer, x)
      <4>1. \A y : y = x => Safe(y)'
        BY <1>2, <3>2, <3>4, SafeOneMore
      <4>2. \A e \in Live : Safe(e)'
        BY <1>2, <3>2, <3>4, SafeOneMore
      <4>3. QED BY <3>3, <4>1, <4>2
    <3>5. CASE Handed' = Handed /\ UNCHANGED to_writer
      <4>1. Handed' # NextBlock
        BY <1>4, <3>1, <3>5, HandedRange
      <4>2. Live' \subseteq Live
        BY <3>3, <4>1
      <4>3. QED BY <1>5, <3>2, <3>5, <4>2
    <3>6. QED BY <2>5, <3>1, <3>4, <3>5, BlockHanded DEF x
  <2>6. ASSUME NEW tail \in BOOLEAN, KeepFile(tail)
        PROVE  \A e \in Live' : Safe(e)'
    <3>1. /\ pc = "file" /\ pc' # "file" /\ Record /\ UNCHANGED <<fragment_table, disk>>
          /\ to_writer' = to_writer \o cur.buffer_list
      BY <2>6 DEF KeepFile
    <3>2. /\ \A e \in Live : Safe(e)'
          /\ \A b \in Handed + 1 .. Len(cur.block_list) :
               \A e : e = BlockAt(cur, b) => Safe(e)'
      BY <1>2, <3>1, SafeKept
    <3>3. \A e \in Live' : \/ e \in Live
                           \/ \E b \in Handed + 1 .. Len(cur.block_list) : e = BlockAt(cur, b)
      BY <3>1, LiveRecorded
    <3>4. QED BY <3>2, <3>3
  <2>7. CASE DropFile \/ Drain
    <3>1. /\ Live' \subseteq Live /\ UNCHANGED disk
          /\ to_writer' = to_writer \/ to_writer' = Append(to_writer, Flush)
      <4>1. /\ UNCHANGED <<files, fragment_table, disk>> /\ pc' # "file"
            /\ to_writer' = to_writer \/ to_writer' = Append(to_writer, Flush)
        BY <2>7 DEF DropFile, Drain
      <4>2. QED BY <4>1, LiveSame
    <3>2. CASE to_writer' = to_writer
      BY <1>5, <3>1, <3>2
    <3>3. CASE to_writer' = Append(to_writer, Flush)
      <4>1. \A e \in Live : Safe(e)'
        BY <1>2, <3>1, <3>3, SafeOneMore
      <4>2. QED BY <3>1, <4>1
    <3>4. QED BY <3>1, <3>2, <3>3
  <2>8. CASE Truncate
    <3>1. /\ to_writer = <<>> /\ UNCHANGED <<to_writer, bytes, files, fragment_table>>
          /\ pc' # "file"
      BY <2>8 DEF Truncate, FlushState
    <3>2. \A e \in Live : Safe(e)'
      BY <1>3, <1>4, <2>8, <3>1, SafeCut
    <3>3. Live' \subseteq Live
      BY <3>1, LiveSame
    <3>4. QED BY <3>2, <3>3
  <2>9. QED BY <1>8, <2>1, <2>2, <2>3, <2>4, <2>5, <2>6, <2>7, <2>8 DEF Main
<1>9. CASE Writer
  <2>1. /\ to_writer # <<>> /\ to_writer' = Tail(to_writer)
        /\ \/ Head(to_writer) # Flush /\ disk' = Written(disk, Head(to_writer))
           \/ Head(to_writer) = Flush /\ UNCHANGED disk
        /\ UNCHANGED <<mainVars, fragment_table>>
    BY <1>2, <1>9 DEF Writer, Write, AnswerFlush
  <2>2. Live' \subseteq Live
    BY <2>1, LiveSame DEF mainVars
  <2>3. ASSUME NEW e \in Live PROVE Safe(e)'
    BY <1>3, <2>1, <2>3, SafeTaken
  <2>4. QED BY <2>2, <2>3
<1>10. ASSUME NEW d \in FragDeflators, Deflate(d)
       PROVE  \A e \in Live' : Safe(e)'
  <2>1. CASE SettleFragment(d) /\ MayPlace(d)
    <3>1. frag_deflator[d].frag \in Frags /\ frag_deflator[d].size \in Sizes
      BY <1>4, <2>1 DEF SettleFragment, TypeOK, DeflatorType, Idle
    <3>2. /\ pc # "file" /\ pc' # "file" /\ UNCHANGED <<files, disk>>
          /\ PlaceFragment(frag_deflator[d].frag, frag_deflator[d].size)
      BY <2>1 DEF SettleFragment, MayPlace, IInv, LockHeld, mainVars
    <3>3. QED BY <1>7, <3>1, <3>2
  <2>2. CASE ~(SettleFragment(d) /\ MayPlace(d))
    BY <1>6, <1>10, <2>2 DEF Deflate, TakeFragment, SettleFragment, AddPendingFragment,
       mainVars, writeVars
  <2>3. QED BY <2>1, <2>2
<1>11. CASE UNCHANGED vars
  BY <1>6, <1>11 DEF vars, mainVars, writeVars
<1>12. QED BY <1>8, <1>9, <1>10, <1>11 DEF Next

-----------------------------------------------------------------------------
(* How far the destination reaches.                                        *)
LEMMA ReachesMore ==
  ASSUME WriterTyped, UNCHANGED disk, NEW x \in {Flush} \cup Placeable,
         to_writer' = Append(to_writer, x),
         NEW a \in Nat, NEW b \in Nat, Reaches(a), a <= b,
         (a = b /\ End(x) <= b) \/ End(x) = b
  PROVE  Reaches(b)'
<1> DEFINE n == Len(to_writer)
<1>1. /\ n \in Nat /\ DOMAIN to_writer = 1 .. n /\ DOMAIN to_writer' = 1 .. n + 1
      /\ \A k \in 1 .. n : to_writer'[k] = to_writer[k]
      /\ to_writer'[n + 1] = x
  BY DEF WriterTyped
<1>2. /\ Len(disk) \in Nat /\ Len(disk) <= a /\ \A k \in 1 .. n : End(to_writer[k]) <= a
      /\ Len(disk) = a \/ \E k \in 1 .. n : End(to_writer[k]) = a
  BY <1>1 DEF Reaches, WriterTyped
<1>3. \A k \in 1 .. n : End(to_writer[k]) \in Nat
  <2>1. End(Flush) = 0
    BY DEF End, Flush, Extent
  <2>2. \A k \in 1 .. n : to_writer[k] \in {Flush} \cup Placeable
    BY DEF WriterTyped
  <2>3. QED BY <2>1, <2>2, SizedNoFlush
<1> HIDE DEF n
<1>4. End(x) <= b /\ Len(disk) <= b /\ \A k \in 1 .. n : End(to_writer[k]) <= b
  <2>1. Len(disk) <= b
    BY <1>2
  <2>2. ASSUME NEW k \in 1 .. n PROVE End(to_writer[k]) <= b
    <3>1. End(to_writer[k]) <= a /\ End(to_writer[k]) \in Nat
      BY <1>2, <1>3
    <3>2. QED BY <3>1
  <2>3. QED BY <2>1, <2>2
<1>5. \A k \in DOMAIN to_writer' : End(to_writer'[k]) <= b
  <2>1. ASSUME NEW k \in 1 .. n + 1 PROVE End(to_writer'[k]) <= b
    <3>1. k \in 1 .. n \/ k = n + 1
      BY <1>1
    <3>2. QED BY <1>1, <1>4, <3>1
  <2>2. QED BY <1>1, <2>1
<1>6. Len(disk) = b \/ \E k \in DOMAIN to_writer' : End(to_writer'[k]) = b
  <2>1. CASE End(x) = b
    BY <1>1, <2>1
  <2>2. CASE a = b
    BY <1>1, <1>2, <2>2
  <2>3. QED BY <2>1, <2>2
<1>7. QED BY <1>4, <1>5, <1>6 DEF Reaches, End

LEMMA ReachesTaken ==
  ASSUME WriterTyped, to_writer # <<>>, to_writer' = Tail(to_writer),
         NEW a \in Nat, Reaches(a),
         \/ Head(to_writer) # Flush /\ disk' = Written(disk, Head(to_writer))
         \/ Head(to_writer) = Flush /\ UNCHANGED disk
  PROVE  Reaches(a)'
<1> DEFINE h == Head(to_writer)
           n == Len(to_writer)
<1>1. /\ n \in Nat \ {0} /\ DOMAIN to_writer = 1 .. n /\ h = to_writer[1]
      /\ DOMAIN to_writer' = 1 .. n - 1 /\ h \in {Flush} \cup Placeable
      /\ \A k \in DOMAIN to_writer' : to_writer'[k] = to_writer[k + 1]
  BY QueueTaken
<1>2. /\ Len(disk) \in Nat /\ Len(disk) <= a /\ \A k \in 1 .. n : End(to_writer[k]) <= a
      /\ Len(disk) = a \/ \E k \in 1 .. n : End(to_writer[k]) = a
  BY <1>1 DEF Reaches, WriterTyped
<1>3. /\ Len(disk') = IF Len(disk) > End(h) THEN Len(disk) ELSE End(h)
      /\ End(h) \in Nat
  <2>1. CASE h # Flush
    <3>1. h \in Placeable /\ disk' = Written(disk, h)
      BY <1>1, <2>1
    <3>2. QED BY <3>1, WrittenTyped, SizedNoFlush
  <2>2. CASE h = Flush
    <3>1. End(h) = 0 /\ disk' = disk
      BY <2>2 DEF End, Flush, Extent
    <3>2. QED BY <1>2, <3>1
  <2>3. QED BY <2>1, <2>2
<1> HIDE DEF h, n
<1>4. Len(disk') <= a /\ \A k \in DOMAIN to_writer' : End(to_writer'[k]) <= a
  BY <1>1, <1>2, <1>3
<1>5. Len(disk') = a \/ \E k \in DOMAIN to_writer' : End(to_writer'[k]) = a
  <2>1. CASE Len(disk) = a \/ End(h) = a
    BY <1>1, <1>2, <1>3, <2>1
  <2>2. ASSUME NEW k \in 2 .. n, End(to_writer[k]) = a
        PROVE  \E j \in DOMAIN to_writer' : End(to_writer'[j]) = a
    <3>1. k - 1 \in DOMAIN to_writer' /\ to_writer'[k - 1] = to_writer[k]
      BY <1>1
    <3>2. QED BY <2>2, <3>1
  <2>3. \A k \in 1 .. n : k = 1 \/ k \in 2 .. n
    BY <1>1
  <2>4. QED BY <1>1, <1>2, <2>1, <2>2, <2>3
<1>6. QED BY <1>4, <1>5 DEF Reaches, End

(* The blocks main held, of which the last ends at "bytes".                *)
LEMMA ReachesKept ==
  ASSUME IInv, BytesTotal, WriterTyped, HeldBlocks, UNCHANGED disk,
         pc = "file", to_writer' = to_writer \o cur.buffer_list, Reaches(HandedEnd)
  PROVE  \A b : b = bytes => Reaches(b)'
<1> DEFINE s == cur.buffer_list
           n == Len(s)
           m == Len(to_writer)
           l == cur.block_list
<1>1. /\ n = Len(l) - Handed /\ n \in Nat
      /\ Handed \in Nat /\ Len(l) \in Nat /\ DOMAIN s = 1 .. n
      /\ \A j \in 1 .. n : s[j] = BlockAt(cur, Handed + j)
  BY HandedRange DEF HeldBlocks, IInv
<1>2. /\ cur.id \in Nat /\ cur.start \in Nat /\ l \in Seq(Sizes) /\ bytes \in Nat
      /\ bytes = cur.start + Total(l)
  BY DEF IInv, TypeOK, CurType, Contiguous, BytesTotal
<1>3. s \in Seq({Flush} \cup Placeable)
  BY HeldTyped, SeqMonotonic DEF IInv
<1>4. /\ m \in Nat /\ DOMAIN to_writer = 1 .. m /\ DOMAIN to_writer' = 1 .. m + n
      /\ \A k \in 1 .. m : to_writer'[k] = to_writer[k]
      /\ \A k \in 1 .. n : to_writer'[m + k] = s[k]
      /\ \A k \in m + 1 .. m + n : k - m \in 1 .. n /\ to_writer'[k] = s[k - m]
  BY <1>3, QueueAppended
<1>5. HandedEnd = cur.start + Before(l, Handed + 1)
  BY DEF HandedEnd
<1>6. Handed + 1 \in 1 .. Len(l) + 1 /\ Len(l) + 1 \in Handed + 1 .. Len(l) + 1
  BY <1>1
<1>7. Before(l, Len(l) + 1) = Total(l)
  BY <1>2, BeforeNext
<1>8. HandedEnd \in Nat /\ HandedEnd <= bytes
  <2>1. Before(l, Handed + 1) <= Before(l, Len(l) + 1)
    BY <1>2, <1>6, BeforeMonotone
  <2>2. Before(l, Handed + 1) \in Nat
    BY <1>2, <1>6, BeforeTyped
  <2>3. Total(l) \in Nat /\ Before(l, Handed + 1) <= Total(l)
    <3>1. Len(l) + 1 \in 1 .. Len(l) + 1
      BY <1>1
    <3>2. Before(l, Len(l) + 1) \in Nat
      BY <1>2, <3>1, BeforeTyped
    <3>3. QED BY <1>7, <2>1, <3>2
  <2> HIDE DEF l
  <2>4. QED BY <1>2, <1>5, <2>2, <2>3
<1>9. \A j \in 1 .. n : End(s[j]) <= bytes
  <2>1. ASSUME NEW j \in 1 .. n PROVE End(s[j]) <= bytes
    <3>1. Handed + j \in 1 .. Len(l)
      BY <1>1
    <3>2. QED BY <1>1, <3>1, CurInside
  <2>2. QED BY <2>1
<1>10. n = 0 => HandedEnd = bytes
  BY <1>1, <1>2, <1>5, <1>7
<1>11. n # 0 => End(s[n]) = bytes
  <2>1. SUFFICES ASSUME n # 0 PROVE End(s[n]) = bytes
    OBVIOUS
  <2>2. n \in 1 .. n /\ Handed + n = Len(l) /\ Len(l) \in 1 .. Len(l)
    BY <1>1, <2>1
  <2>3. End(BlockAt(cur, Len(l))) = cur.start + Before(l, Len(l) + 1)
    BY <1>2, <2>2, BlockInside
  <2>4. QED BY <1>1, <1>2, <1>7, <2>2, <2>3
<1>12. /\ Len(disk) \in Nat /\ Len(disk) <= HandedEnd
       /\ \A k \in 1 .. m : End(to_writer[k]) <= HandedEnd /\ End(to_writer[k]) \in Nat
       /\ Len(disk) = HandedEnd \/ \E k \in 1 .. m : End(to_writer[k]) = HandedEnd
  <2>1. End(Flush) = 0
    BY DEF End, Flush, Extent
  <2>2. \A k \in 1 .. m : to_writer[k] \in {Flush} \cup Placeable
    BY DEF WriterTyped
  <2>3. \A k \in 1 .. m : End(to_writer[k]) \in Nat
    BY <2>1, <2>2, SizedNoFlush
  <2>4. QED BY <1>4, <2>3 DEF Reaches, WriterTyped
<1> HIDE DEF s, n, m, l
<1>13. Len(disk) <= bytes /\ \A k \in 1 .. m + n : End(to_writer'[k]) <= bytes
  <2>1. ASSUME NEW k \in 1 .. m + n PROVE End(to_writer'[k]) <= bytes
    <3>1. CASE k \in 1 .. m
      <4>1. to_writer'[k] = to_writer[k] /\ End(to_writer[k]) \in Nat
            /\ End(to_writer[k]) <= HandedEnd
        BY <1>4, <1>12, <3>1
      <4>2. QED BY <1>2, <1>8, <4>1
    <3>2. CASE k \in m + 1 .. m + n
      BY <1>4, <1>9, <3>2
    <3>3. QED BY <1>1, <1>4, <3>1, <3>2
  <2>2. Len(disk) <= bytes
    BY <1>2, <1>8, <1>12
  <2>3. QED BY <2>1, <2>2
<1>14. Len(disk) = bytes \/ \E k \in 1 .. m + n : End(to_writer'[k]) = bytes
  <2>1. CASE n = 0
    <3>1. HandedEnd = bytes
      BY <1>10, <2>1
    <3>2. CASE Len(disk) = HandedEnd
      BY <3>1, <3>2
    <3>3. ASSUME NEW k \in 1 .. m, End(to_writer[k]) = HandedEnd
          PROVE  \E j \in 1 .. m + n : End(to_writer'[j]) = bytes
      <4>1. k \in 1 .. m + n /\ to_writer'[k] = to_writer[k]
        BY <1>1, <1>4, <2>1
      <4>2. End(to_writer'[k]) = bytes
        BY <3>1, <3>3, <4>1
      <4>3. QED BY <4>1, <4>2
    <3>4. QED BY <1>12, <3>2, <3>3
  <2>2. CASE n # 0
    <3>1. n \in 1 .. n /\ m + n \in 1 .. m + n
      BY <1>1, <1>4, <2>2
    <3>2. to_writer'[m + n] = s[n]
      BY <1>4, <3>1
    <3>3. QED BY <1>11, <2>2, <3>1, <3>2
  <2>3. QED BY <2>1, <2>2
<1>15. ASSUME NEW b, b = bytes PROVE Reaches(b)'
  BY <1>4, <1>13, <1>14, <1>15 DEF Reaches, End
<1>16. QED BY <1>15

HandedTyped == HandedEnd \in Nat /\ (pc # "file" => HandedEnd = bytes)
LEMMA HandedEndTyped == IInv /\ BytesTotal => HandedTyped
<1> SUFFICES ASSUME IInv, BytesTotal PROVE HandedTyped
  OBVIOUS
<1>1. /\ Handed \in Nat /\ Len(cur.block_list) \in Nat /\ Handed <= Len(cur.block_list)
      /\ cur.start \in Nat /\ cur.block_list \in Seq(Sizes) /\ bytes \in Nat
  BY HandedRange DEF IInv, TypeOK, CurType
<1>2. Before(cur.block_list, Handed + 1) \in Nat
  <2>1. Handed + 1 \in 1 .. Len(cur.block_list) + 1
    BY <1>1
  <2>2. QED BY <1>1, <2>1, BeforeTyped
<1>3. QED BY <1>1, <1>2 DEF HandedTyped, HandedEnd

LEMMA EndsStep ==
  ASSUME IInv, IInv', WriterTyped, LockedToFlush, FlushState, BytesTotal, BytesTotal',
         HeldBlocks, DiskEnds, [Next]_vars
  PROVE  DiskEnds'
<1>1. write_error => write_error'
  BY DEF Next, Main, Writer, Deflate, WriteFileFrag, StartFile, PlaceBlock, KeepFile,
     DropFile, Truncate, EnterUnlock, UnlockOne, UnlockDone, FillTail, Finish, Drain,
     AwaitDrained, Write, AnswerFlush, TakeFragment, SettleFragment, AddPendingFragment,
     vars, writeVars
<1>2. block_device' = block_device
  BY DEF Next, Main, Writer, Deflate, vars
<1>3. SUFFICES ASSUME ~write_error, ~write_error', ~block_device, pc' # "flush"
               PROVE  \A x : x = HandedEnd' => Reaches(x)'
  BY <1>1, <1>2 DEF DiskEnds
<1>4. pc # "flush" => Reaches(HandedEnd)
  BY <1>3 DEF DiskEnds
<1>5. TypeOK /\ HandedEnd \in Nat /\ HandedEnd' \in Nat
      /\ (pc # "file" => HandedEnd = bytes) /\ (pc' # "file" => HandedEnd' = bytes')
      /\ bytes \in Nat /\ bytes' \in Nat
  <2>1. HandedTyped /\ HandedTyped'
    BY HandedEndTyped, PTL
  <2>2. TypeOK /\ TypeOK'
    BY DEF IInv
  <2>3. bytes \in Nat /\ bytes' \in Nat
    BY <2>2 DEF TypeOK
  <2>4. QED BY <2>1, <2>2, <2>3 DEF HandedTyped
<1>6. ASSUME pc # "flush", UNCHANGED <<to_writer, disk>>, HandedEnd' = HandedEnd
      PROVE  \A x : x = HandedEnd' => Reaches(x)'
  BY <1>4, <1>6 DEF Reaches, End
<1>7. ASSUME pc \notin {"file", "flush"}, pc' # "file", UNCHANGED <<bytes, to_writer, disk>>
      PROVE  \A x : x = HandedEnd' => Reaches(x)'
  BY <1>5, <1>6, <1>7
<1>8. ASSUME pc \notin {"file", "flush"}, pc' # "file", UNCHANGED disk,
             NEW f \in Frags, NEW size \in Sizes, PlaceFragment(f, size)
      PROVE  \A x : x = HandedEnd' => Reaches(x)'
  <2> DEFINE e == Extent(FragOf(f), bytes, size)
  <2>1. to_writer' = Append(to_writer, e) /\ e \in Placeable
    BY <1>5, <1>8, PlacedTyped
  <2>2. bytes' = bytes + size /\ End(e) = bytes + size /\ bytes <= bytes + size
    BY <1>5, <1>8 DEF PlaceFragment, End, Extent
  <2> HIDE DEF e
  <2>3. ASSUME NEW x, x = bytes' PROVE Reaches(x)'
    BY <1>4, <1>5, <1>8, <2>1, <2>2, <2>3, ReachesMore
  <2>4. QED BY <1>5, <1>8, <2>3
<1>9. CASE Main
  <2>1. CASE WriteFileFrag \/ FillTail \/ Finish \/ EnterUnlock \/ AwaitDrained
    BY <1>7, <2>1 DEF WriteFileFrag, FillTail, Finish, EnterUnlock, AwaitDrained, mainVars,
       writeVars
  <2>2. CASE UnlockDone
    <3>1. pc' # "file"
      BY <1>5, <2>2 DEF UnlockDone, TypeOK, CurType
    <3>2. QED BY <1>7, <2>2, <3>1 DEF UnlockDone, writeVars
  <2>3. CASE UnlockOne
    <3>1. Head(frag_locked_list) \in PendingType
      BY <1>5, <2>3 DEF UnlockOne, TypeOK
    <3>2. QED BY <1>8, <2>3, <3>1 DEF UnlockOne, PendingType, mainVars
  <2>4. ASSUME NEW dup_check \in BOOLEAN, NEW thresh \in 0 .. MaxBlocks,
               StartFile(dup_check, thresh)
        PROVE  \A x : x = HandedEnd' => Reaches(x)'
    <3>1. /\ pc = "idle" /\ pc' = "file" /\ cur'.start = bytes /\ cur'.block_list = <<>>
          /\ cur'.thresh = thresh /\ UNCHANGED <<to_writer, disk>>
      BY <2>4 DEF StartFile, NoFile, writeVars
    <3>2. Handed' = 0
      BY <3>1 DEF Handed
    <3>3. HandedEnd' = bytes + Before(<<>>, 1)
      BY <3>1, <3>2 DEF HandedEnd
    <3>4. Before(<<>>, 1) = 0
      <4>1. <<>> \in Seq(Sizes)
        OBVIOUS
      <4>2. QED BY <4>1, BeforeNext
    <3>5. QED BY <1>5, <1>6, <3>1, <3>3, <3>4
  <2>5. ASSUME NEW size \in Sizes, PlaceBlock(size)
        PROVE  \A x : x = HandedEnd' => Reaches(x)'
    <3> DEFINE l == cur.block_list
               m == cur'.block_list
    <3>1. /\ pc = "file" /\ pc' = "file" /\ bytes' = bytes + size
          /\ m = Append(l, size) /\ Len(m) = NextBlock /\ NextBlock = Len(l) + 1
          /\ cur'.start = cur.start /\ cur.start \in Nat /\ l \in Seq(Sizes) /\ m \in Seq(Sizes)
          /\ Len(l) \in Nat
          /\ BlockAt(cur', NextBlock) = Extent(BlockOf(cur.id, NextBlock), bytes, size)
          /\ UNCHANGED disk /\ size \in Nat
      <4>1. cur.start \in Nat /\ l \in Seq(Sizes) /\ Len(l) \in Nat
        BY <1>5 DEF TypeOK, CurType
      <4>2. UNCHANGED disk
        BY <2>5 DEF PlaceBlock
      <4>3. /\ pc = "file" /\ pc' = "file" /\ bytes' = bytes + size
            /\ m = Append(l, size) /\ Len(m) = NextBlock /\ cur'.start = cur.start
            /\ BlockAt(cur', NextBlock) = Extent(BlockOf(cur.id, NextBlock), bytes, size)
        BY <2>5, BlockAdded
      <4>4. m \in Seq(Sizes)
        BY <4>1, <4>3
      <4>5. NextBlock = Len(l) + 1
        BY DEF NextBlock
      <4>6. QED BY <4>1, <4>2, <4>3, <4>4, <4>5
    <3>2. /\ Handed \in Nat /\ Handed <= Len(l)
          /\ HandedEnd = cur.start + Before(l, Handed + 1)
          /\ HandedEnd' = cur'.start + Before(m, Handed' + 1)
      BY <1>5, <3>1, HandedRange DEF HandedEnd
    <3>3. CASE /\ Handed = Len(l) /\ Handed' = NextBlock
               /\ to_writer' = Append(to_writer, BlockAt(cur', NextBlock))
      <4> DEFINE e == Extent(BlockOf(cur.id, NextBlock), bytes, size)
      <4>1. e \in Placeable /\ End(e) = bytes + size /\ to_writer' = Append(to_writer, e)
        BY <1>5, <3>1, <3>3, BlockTyped DEF Extent, End
      <4>2. HandedEnd = bytes /\ HandedEnd' = bytes + size
        <5>1. Before(l, Len(l) + 1) = Total(l) /\ Before(m, Len(m) + 1) = Total(m)
          BY <3>1, BeforeNext
        <5>2. Total(m) = Total(l) + size /\ bytes = cur.start + Total(l)
          <6>1. Total(Append(l, size)) = Total(l) + size
            BY <3>1, TotalAppend
          <6>2. QED BY <3>1, <6>1 DEF IInv, Contiguous, BytesTotal
        <5>3. Total(l) \in Nat
          <6>1. Len(l) + 1 \in 1 .. Len(l) + 1
            BY <3>1
          <6>2. Before(l, Len(l) + 1) \in Nat
            BY <3>1, <6>1, BeforeTyped
          <6>3. QED BY <5>1, <6>2
        <5> HIDE DEF l, m
        <5>4. QED BY <1>5, <3>1, <3>2, <3>3, <5>1, <5>2, <5>3
      <4> HIDE DEF e
      <4>3. bytes <= bytes + size /\ bytes + size \in Nat
        BY <1>5, <3>1
      <4>4. ASSUME NEW x, x = bytes + size PROVE Reaches(x)'
        BY <1>4, <1>5, <3>1, <4>1, <4>2, <4>3, <4>4, ReachesMore
      <4>5. QED BY <4>2, <4>4
    <3>4. CASE Handed' = Handed /\ UNCHANGED to_writer
      <4>1. Handed + 1 \in 1 .. Len(l) + 1
        BY <3>1, <3>2
      <4>2. Before(m, Handed + 1) = Before(l, Handed + 1)
        BY <3>1, <4>1, BeforeAppend
      <4>3. HandedEnd' = HandedEnd
        BY <3>1, <3>2, <3>4, <4>2
      <4>4. QED BY <1>6, <3>1, <3>4, <4>3
    <3>5. QED BY <2>5, <3>3, <3>4, BlockHanded
  <2>6. ASSUME NEW tail \in BOOLEAN, KeepFile(tail)
        PROVE  \A x : x = HandedEnd' => Reaches(x)'
    <3>1. /\ pc = "file" /\ pc' # "file" /\ UNCHANGED <<bytes, disk>>
          /\ to_writer' = to_writer \o cur.buffer_list
      BY <2>6 DEF KeepFile
    <3>2. \A x : x = bytes => Reaches(x)'
      BY <1>4, <3>1, ReachesKept
    <3>3. QED BY <1>5, <3>1, <3>2
  <2>7. CASE DropFile
    <3>1. /\ pc = "file" /\ pc' # "file" /\ bytes' = cur.start /\ UNCHANGED <<to_writer, disk>>
          /\ cur.dup_check /\ cur.thresh = 0
      <4>1. cur.thresh \in Nat /\ cur.dup_check \in BOOLEAN
        BY <1>5 DEF TypeOK, CurType
      <4>2. ~NeedsFlush
        BY <1>3, <2>7 DEF DropFile
      <4>3. cur.dup_check /\ cur.thresh = 0
        BY <1>3, <4>1, <4>2 DEF NeedsFlush
      <4>4. QED BY <2>7, <4>2, <4>3 DEF DropFile
    <3>2. Handed = 0
      BY <1>5, <3>1, HandedRange DEF Handed
    <3>3. HandedEnd = cur.start + Before(cur.block_list, 1)
      BY <3>1, <3>2 DEF HandedEnd
    <3>4. HandedEnd = cur.start
      <4>1. cur.block_list \in Seq(Sizes) /\ cur.start \in Nat
        BY <1>5 DEF TypeOK, CurType
      <4>2. QED BY <3>3, <4>1, BeforeNext
    <3>5. QED BY <1>5, <1>6, <3>1, <3>4
  <2>8. CASE Truncate
    <3>1. /\ pc = "flush" /\ to_writer = <<>> /\ to_writer' = <<>> /\ bytes' = bytes
      BY <2>8 DEF Truncate, FlushState
    <3>2. CASE from_writer = "error"
      BY <1>3, <2>8, <3>2 DEF Truncate, FlushState
    <3>3. CASE from_writer # "error"
      <4>1. pc' # "file" /\ disk' = [p \in 1 .. bytes |->
                                       IF p <= Len(disk) THEN disk[p] ELSE Unwritten]
        BY <2>8, <3>3 DEF Truncate
      <4>2. Len(disk') = bytes
        <5> DEFINE g(p) == IF p <= Len(disk) THEN disk[p] ELSE Unwritten
        <5>1. disk' = [p \in 1 .. bytes |-> g(p)]
          BY <4>1
        <5> HIDE DEF g
        <5>2. Len([p \in 1 .. bytes |-> g(p)]) = bytes
          BY <1>5
        <5>3. QED BY <5>1, <5>2
      <4>3. ASSUME NEW x, x = bytes PROVE Reaches(x)'
        BY <1>5, <3>1, <4>2, <4>3 DEF Reaches
      <4>4. QED BY <1>5, <3>1, <4>1, <4>3
    <3>4. QED BY <3>2, <3>3
  <2>9. CASE Drain
    <3>1. /\ pc = "drain" /\ pc' # "file" /\ UNCHANGED <<bytes, disk>>
          /\ to_writer' = Append(to_writer, Flush)
      BY <2>9 DEF Drain
    <3>2. End(Flush) = 0 /\ Flush \in {Flush} \cup Placeable /\ bytes <= bytes /\ 0 <= bytes
      BY <1>5 DEF End, Flush, Extent
    <3>3. ASSUME NEW x, x = bytes PROVE Reaches(x)'
      <4>1. Reaches(x) /\ x \in Nat /\ End(Flush) <= x /\ x <= x
        BY <1>4, <1>5, <3>1, <3>2, <3>3
      <4>2. QED BY <3>1, <3>2, <4>1, ReachesMore
    <3>4. QED BY <1>5, <3>1, <3>3
  <2>10. QED BY <1>9, <2>1, <2>2, <2>3, <2>4, <2>5, <2>6, <2>7, <2>8, <2>9 DEF Main
<1>10. CASE Writer
  <2>1. /\ to_writer # <<>> /\ to_writer' = Tail(to_writer)
        /\ \/ Head(to_writer) # Flush /\ disk' = Written(disk, Head(to_writer))
           \/ Head(to_writer) = Flush /\ UNCHANGED disk
        /\ UNCHANGED <<pc, cur, bytes>>
    BY <1>3, <1>10 DEF Writer, Write, AnswerFlush, mainVars
  <2>2. HandedEnd' = HandedEnd
    BY <2>1 DEF HandedEnd, Handed
  <2>3. ASSUME NEW x, x = HandedEnd PROVE Reaches(x)'
    BY <1>3, <1>4, <1>5, <2>1, <2>3, ReachesTaken
  <2>4. QED BY <2>2, <2>3
<1>11. ASSUME NEW d \in FragDeflators, Deflate(d)
       PROVE  \A x : x = HandedEnd' => Reaches(x)'
  <2>1. CASE SettleFragment(d) /\ MayPlace(d)
    <3>1. frag_deflator[d].frag \in Frags /\ frag_deflator[d].size \in Sizes
      BY <1>5, <2>1 DEF SettleFragment, TypeOK, DeflatorType, Idle
    <3>2. /\ pc \notin {"file", "flush"} /\ pc' = pc /\ UNCHANGED disk
          /\ PlaceFragment(frag_deflator[d].frag, frag_deflator[d].size)
      BY <2>1 DEF SettleFragment, MayPlace, IInv, LockHeld, LockedToFlush, mainVars
    <3>3. QED BY <1>8, <3>1, <3>2
  <2>2. CASE ~(SettleFragment(d) /\ MayPlace(d))
    <3>1. UNCHANGED <<pc, cur, bytes, to_writer, disk>>
      BY <1>11, <2>2 DEF Deflate, TakeFragment, SettleFragment, AddPendingFragment,
         mainVars, writeVars
    <3>2. HandedEnd' = HandedEnd
      BY <3>1 DEF HandedEnd, Handed
    <3>3. QED BY <1>3, <1>6, <3>1, <3>2
  <2>3. QED BY <2>1, <2>2
<1>12. CASE UNCHANGED vars
  <2>1. UNCHANGED <<pc, cur, bytes, to_writer, disk>>
    BY <1>12 DEF vars, mainVars, writeVars
  <2>2. HandedEnd' = HandedEnd
    BY <2>1 DEF HandedEnd, Handed
  <2>3. QED BY <1>3, <1>6, <2>1, <2>2
<1>13. QED BY <1>9, <1>10, <1>11, <1>12 DEF Next

-----------------------------------------------------------------------------
LEMMA ReadInit == Init => ReadInv
<1> SUFFICES ASSUME Init PROVE ReadInv
  OBVIOUS
<1>1. /\ pc = "idle" /\ files = <<>> /\ bytes = Base /\ fragments = 0 /\ to_writer = <<>>
      /\ from_writer = "empty" /\ write_error = FALSE /\ Base \in Nat
      /\ fragment_table = [f \in 0 .. MaxFragments - 1 |-> NoEntry]
      /\ disk = [p \in 1 .. Base |-> "superblock"]
  BY DEF Init
<1>2. Len(disk) = Base /\ DOMAIN disk = 1 .. Base
  BY <1>1
<1>3. WriterTyped /\ LockedToFlush /\ FragsKnown /\ BytesTotal /\ HeldBlocks
  BY <1>1, <1>2 DEF WriterTyped, LockedToFlush, FragsKnown, BytesTotal, HeldBlocks
<1>4. FlushState
  BY <1>1 DEF FlushState, Asked
<1>5. AllSafe
  <2>1. FileBlocks = {} /\ CurBlocks = {}
    BY <1>1 DEF FileBlocks, CurBlocks
  <2>2. FragBlocks = {}
    BY <1>1 DEF FragBlocks, Placed, Frags
  <2>3. QED BY <2>1, <2>2 DEF AllSafe, Live
<1>6. DiskEnds
  BY <1>1, <1>2 DEF DiskEnds, Reaches, HandedEnd
<1>7. QED BY <1>3, <1>4, <1>5, <1>6 DEF ReadInv

LEMMA ReadStep ==
  ASSUME IInv, IInv', OutstandingExact, ReadInv, [Next]_vars
  PROVE  ReadInv'
<1>1. /\ WriterTyped /\ LockedToFlush /\ FlushState /\ FragsKnown
      /\ BytesTotal /\ HeldBlocks /\ AllSafe /\ DiskEnds
  BY DEF ReadInv
<1>2. WriterTyped' /\ LockedToFlush' /\ FragsKnown' /\ BytesTotal' /\ HeldBlocks'
  BY <1>1, WriterTypedStep, LockedStep, FragsStep, TotalStep, HeldStep
<1>3. FlushState'
  BY <1>1, FlushStep
<1>4. AllSafe'
  BY <1>1, SafeStep
<1>5. DiskEnds'
  BY <1>1, <1>2, EndsStep
<1>6. QED BY <1>2, <1>3, <1>4, <1>5 DEF ReadInv

(* At the end nothing is outstanding and the writer's queue is empty.      *)
LEMMA ReadAtEnd == IInv /\ OutstandingExact /\ ReadInv => ImageReadable
<1> SUFFICES ASSUME IInv, OutstandingExact, ReadInv, pc = "done" PROVE ImageReadable
  BY DEF ImageReadable
<1>1. /\ to_writer = <<>> /\ ~write_error /\ fragments_outstanding = 0 /\ TypeOK
  BY DEF ReadInv, FlushState, IInv
<1>2. ASSUME NEW e \in Live PROVE Holds(e.pos, e.size, e.owner)
  BY <1>1 DEF ReadInv, AllSafe, Safe
<1>3. ASSUME NEW i \in DOMAIN files, NEW b \in DOMAIN files[i].block_list
      PROVE  Holds(files[i].start + Before(files[i].block_list, b),
                   files[i].block_list[b], BlockOf(files[i].id, b))
  <2>1. BlockAt(files[i], b) \in Live
    BY DEF Live, FileBlocks
  <2>2. QED BY <1>2, <2>1 DEF BlockAt, Extent
<1>4. Pending = {}
  <2>1. /\ Len(to_frag) \in Nat /\ Len(frag_locked_list) \in Nat /\ Cardinality(Busy) \in Nat
        /\ 0 = Len(to_frag) + Len(frag_locked_list) + Cardinality(Busy)
    BY <1>1, BusyFinite DEF OutstandingExact, TypeOK, Busy
  <2>2. Len(to_frag) = 0 /\ Len(frag_locked_list) = 0 /\ Cardinality(Busy) = 0
    BY <2>1
  <2>3. Busy = {}
    BY <2>2, BusyFinite, FS_EmptySet
  <2>4. DOMAIN to_frag = {} /\ DOMAIN frag_locked_list = {}
    BY <1>1, <2>2 DEF TypeOK
  <2>5. QED BY <2>3, <2>4 DEF Pending
<1>5. ASSUME NEW f \in 0 .. fragments - 1
      PROVE  f \in Placed /\ Holds(fragment_table[f].pos, fragment_table[f].size, FragOf(f))
  <2>1. f \in Placed
    BY <1>4 DEF ReadInv, FragsKnown
  <2>2. FragBlock(f) \in Live
    BY <2>1 DEF Live, FragBlocks
  <2>3. QED BY <1>2, <2>1, <2>2 DEF FragBlock, Extent
<1>6. ~block_device => Len(disk) = bytes
  BY <1>1 DEF ReadInv, DiskEnds, Reaches, HandedEnd
<1>7. QED BY <1>1, <1>3, <1>5, <1>6 DEF ImageReadable

(* What mksquashfs reports as made can be read back: whatever the number   *)
(* of frag_deflators, files, blocks and fragments, the sizes and the       *)
(* interleaving with the writer, each block of each file is where its      *)
(* inode's start and list of sizes say, each fragment is where its table   *)
(* entry says, the destination ends at "bytes", and no write failed.       *)
THEOREM ImageReads == Spec => []ImageReadable
<1>1. IInv /\ IInv' /\ OutstandingExact /\ ReadInv /\ [Next]_vars => ReadInv'
  BY ReadStep
<1>2. Spec => []ReadInv
  BY <1>1, ReadInit, Invariant, OutstandingCounted, PTL DEF Spec
<1>3. QED BY <1>2, ReadAtEnd, Invariant, OutstandingCounted, PTL
=============================================================================
