-------------------------- MODULE MkPipelineProofs --------------------------
(***************************************************************************)
(* The pipeline of mksquashfs, for any number of deflators and             *)
(* frag_deflators, any cache sizes, files, blocks and restats.             *)
(*                                                                         *)
(* First what the reader holds, and what is under way between the reader   *)
(* and main.  Every buffer sent is in exactly one place, and those under   *)
(* way are numbered without a gap from the one main wants to the last one  *)
(* sent; so a step of any thread adds the next number, takes the first, or *)
(* changes nothing (FlowCases).                                            *)
(*                                                                         *)
(* Then the reader and main agree on the files: the buffers under way are, *)
(* one after the other, those of the places in the input between where     *)
(* main is and where the reader is.  What main does with a file depends on *)
(* how many fragments are outstanding, so these are counted here too.      *)
(*                                                                         *)
(* Then every buffer in use is counted where it is held.  With the counts  *)
(* come the bounds of every cache and queue, and that a thread with        *)
(* fragment_mutex never waits for room.                                    *)
(***************************************************************************)
EXTENDS MkPipeline, ListLemmas, FiniteSetTheorems, SequenceTheorems

USE BuffersAssumption, DeflatorsAssumption, BoundsAssumption

-----------------------------------------------------------------------------
(* What the reader holds.                                                  *)

(* A block that main can handle: the last block of a file is the one whose *)
(* number is the file_size, which the reader of a process does not know    *)
(* before the end; the buffer of an empty file is sparse; a tail comes     *)
(* last; a file that is read again had a size.                             *)
Good(c) ==
  /\ c.file_size \in {-1, 0} \/ c.file_size >= c.block
  /\ c.file_size = 0 => c.kind = "sparse" /\ c.block = 1
  /\ c.kind = "fragment" => c.file_size = c.block /\ c.error = 0
  /\ c.error = 2 => c.file_size >= 1

(* How many buffers have been sent: the numbers the reader gave away, but  *)
(* for those of the buffers it still holds.                                *)
Sent == reader.seq - Len(reader.held)

ReaderTyped ==
  reader \in [pc : {"open", "file", "process", "send", "exit"},
              file : 1 .. MaxFiles + 1, seq : Nat, blocks : 0 .. MaxBlocks,
              tail : BOOLEAN, count : 0 .. MaxBlocks, held : Seq(Buffers)]

(* The buffers of a file are held one at a time, ...                       *)
HoldsFile(r) ==
  /\ Len(r.held) <= 1 /\ 1 <= r.blocks /\ r.count <= r.blocks
  /\ r.held = <<>> => r.count < r.blocks
  /\ r.held # <<>> =>
       LET c == r.held[1].content
       IN /\ c.block = r.count
          /\ c.file_size = r.blocks \/ (c.file_size = 0 /\ r.blocks = 1)

(* ... those of a process two at a time, ...                               *)
HoldsProcess(r) ==
  /\ Len(r.held) <= 2 /\ (r.held = <<>> <=> r.count = 0)
  /\ \A i \in 1 .. Len(r.held) :
       LET c == r.held[i].content
       IN /\ c.file_size = -1 /\ c.error = 0
          /\ c.block = r.count - Len(r.held) + i

(* ... and the last one of it alone.                                       *)
HoldsLast(r) ==
  /\ Len(r.held) = 1
  /\ LET c == r.held[1].content
     IN /\ c.error \in {0, 1} /\ c.file_size \in {-1, 0, c.block}
        /\ c.error = 0 => c.file_size # -1

HeldOf(r) ==
  \A i \in 1 .. Len(r.held) :
    /\ r.held[i].sequence = r.seq - Len(r.held) + i - 1
    /\ r.held[i].content.file = r.file
    /\ Good(r.held[i].content)

ReaderHolds(r) ==
  /\ r.pc \in {"open", "exit"} => r.held = <<>> /\ r.count = 0
  /\ r.pc \notin {"open", "exit"} => r.file <= MaxFiles
  /\ r.pc = "file" => HoldsFile(r)
  /\ r.pc = "process" => HoldsProcess(r)
  /\ r.pc = "send" => HoldsLast(r)
  /\ HeldOf(r)

ReaderInv == ReaderTyped /\ ReaderHolds(reader)

(* Nothing but the reader changes what it holds.                           *)
LEMMA ReaderOnly ==
  ASSUME [Next]_vars, ~Reader
  PROVE  reader' = reader /\ changes' = changes
<1> USE DEF vars, readerVars, deflatorKeeps, sourceVars, mainKeeps
<1>1. CASE Main
  <2>1. CASE GetBuffer
    BY <2>1 DEF GetBuffer
  <2>2. CASE Fetch \/ Fetched \/ Duplicate \/ NotDuplicate \/ FillWrites \/ Fill
    BY <2>2 DEF Fetch, Fetched, Duplicate, NotDuplicate, FillWrites, Fill
  <2>3. CASE AskFlush \/ Flushed \/ Unlock \/ Finish
    BY <2>3 DEF AskFlush, Flushed, Unlock, Finish
  <2>4. QED BY <1>1, <2>1, <2>2, <2>3 DEF Main
<1>2. CASE Writer
  BY <1>2 DEF Writer
<1>3. ASSUME NEW d \in Deflators, Deflate(d)
      PROVE  reader' = reader /\ changes' = changes
  BY <1>3 DEF Deflate, TakeBlock, Compress, PutBlock
<1>4. ASSUME NEW d \in FragDeflators, DeflateFragment(d)
      PROVE  reader' = reader /\ changes' = changes
  BY <1>4 DEF DeflateFragment, TakeFragment, CompressFragment, SettleFragment,
              AddPendingFragment
<1>5. CASE UNCHANGED vars
  BY <1>5
<1>6. QED BY <1>1, <1>2, <1>3, <1>4, <1>5 DEF Next

(* A content the reader makes up.                                          *)
LEMMA ContentTyped ==
  ASSUME NEW f \in 1 .. MaxFiles, NEW b \in 1 .. MaxBlocks, NEW s \in -1 .. MaxBlocks,
         NEW k \in {"data", "sparse", "fragment"}, NEW e \in {0, 1, 2}, NEW n \in Nat
  PROVE  Buffer(n, Content(f, b, s, k, e)) \in Buffers
BY DEF Buffer, Content, Buffers, Contents

LEMMA OneHeld ==
  ASSUME NEW b \in Buffers
  PROVE  <<b>> \in Seq(Buffers) /\ Len(<<b>>) = 1 /\ <<b>>[1] = b /\ <<b>> # <<>>
  OBVIOUS

LEMMA OneOfFile ==
  ASSUME NEW r, NEW h, NEW b, r.held = h, Len(h) = 1, h[1] = b, h # <<>>,
         1 <= r.blocks, r.count <= r.blocks, b.content.block = r.count,
         b.content.file_size = r.blocks \/ (b.content.file_size = 0 /\ r.blocks = 1)
  PROVE  HoldsFile(r)
BY DEF HoldsFile

LEMMA OneIsLast ==
  ASSUME NEW r, NEW h, NEW b, r.held = h, Len(h) = 1, h[1] = b,
         b.content.error \in {0, 1}, b.content.file_size \in {-1, 0, b.content.block},
         b.content.error = 0 => b.content.file_size # -1
  PROVE  HoldsLast(r)
BY DEF HoldsLast

LEMMA OneHeldOf ==
  ASSUME NEW r, NEW h, NEW b, r.held = h, Len(h) = 1, h[1] = b, r.seq \in Nat,
         b.sequence = r.seq - 1, b.content.file = r.file, Good(b.content)
  PROVE  HeldOf(r)
<1>1. \A i \in 1 .. Len(r.held) : i = 1
  OBVIOUS
<1>2. r.seq - Len(r.held) + 1 - 1 = r.seq - 1
  OBVIOUS
<1>3. QED BY <1>1, <1>2 DEF HeldOf

LEMMA OnlyOne ==
  ASSUME NEW n \in Nat, n # 0, n < 2 \/ n <= 1
  PROVE  n = 1
  OBVIOUS

LEMMA OneMore ==
  ASSUME NEW r, NEW q, HeldOf(r), Len(r.held) \in Nat, Len(q.held) = Len(r.held) + 1,
         \A i \in 1 .. Len(r.held) : q.held[i] = r.held[i],
         r.seq \in Nat, q.seq = r.seq + 1, q.file = r.file,
         q.held[Len(r.held) + 1].sequence = r.seq,
         q.held[Len(r.held) + 1].content.file = r.file,
         Good(q.held[Len(r.held) + 1].content)
  PROVE  HeldOf(q)
<1> DEFINE l == Len(r.held)
<1>1. ASSUME NEW i \in 1 .. l + 1
      PROVE  /\ q.held[i].sequence = q.seq - (l + 1) + i - 1
             /\ q.held[i].content.file = q.file /\ Good(q.held[i].content)
  <2>1. CASE i = l + 1
    <3>1. PICK n \in Nat, k \in Nat : n = r.seq /\ k = l
      OBVIOUS
    <3>2. q.seq - (l + 1) + i - 1 = n + 1 - (k + 1) + (k + 1) - 1
      BY <2>1, <3>1
    <3>3. n + 1 - (k + 1) + (k + 1) - 1 = n
      OBVIOUS
    <3>4. QED BY <2>1, <3>1, <3>2, <3>3
  <2>2. CASE i # l + 1
    <3>1. i \in 1 .. l
      BY <2>2
    <3>2. /\ r.held[i].sequence = r.seq - l + i - 1 /\ r.held[i].content.file = r.file
          /\ Good(r.held[i].content)
      BY <3>1 DEF HeldOf
    <3>3. q.seq - (l + 1) + i - 1 = r.seq - l + i - 1
      OBVIOUS
    <3>4. QED BY <3>1, <3>2, <3>3
  <2>3. QED BY <2>1, <2>2
<1>2. QED BY <1>1 DEF HeldOf

LEMMA OneMoreOfProcess ==
  ASSUME NEW r, NEW q, HoldsProcess(r), Len(r.held) \in Nat, Len(r.held) < 2,
         Len(q.held) = Len(r.held) + 1, q.held # <<>>,
         \A i \in 1 .. Len(r.held) : q.held[i] = r.held[i],
         r.count \in Nat, q.count = r.count + 1,
         q.held[Len(r.held) + 1].content.file_size = -1,
         q.held[Len(r.held) + 1].content.error = 0,
         q.held[Len(r.held) + 1].content.block = q.count
  PROVE  HoldsProcess(q)
<1> DEFINE l == Len(r.held)
<1>1. ASSUME NEW i \in 1 .. l + 1
      PROVE  /\ q.held[i].content.file_size = -1 /\ q.held[i].content.error = 0
             /\ q.held[i].content.block = q.count - (l + 1) + i
  <2>1. CASE i = l + 1
    <3>1. q.count - (l + 1) + i = q.count
      BY <2>1
    <3>2. QED BY <2>1, <3>1
  <2>2. CASE i # l + 1
    <3>1. i \in 1 .. l
      BY <2>2
    <3>2. /\ r.held[i].content.file_size = -1 /\ r.held[i].content.error = 0
          /\ r.held[i].content.block = r.count - l + i
      BY <3>1 DEF HoldsProcess
    <3>3. q.count - (l + 1) + i = r.count - l + i
      OBVIOUS
    <3>4. QED BY <3>1, <3>2, <3>3
  <2>3. QED BY <2>1, <2>2
<1>2. l + 1 <= 2 /\ q.count # 0
  OBVIOUS
<1>3. QED BY <1>1, <1>2 DEF HoldsProcess

LEMMA OneFewer ==
  ASSUME NEW r, NEW q, NEW h, NEW l \in Nat, HeldOf(r), l + 1 = Len(r.held),
         q.held = h, Len(h) = l, \A i \in 1 .. l : h[i] = r.held[i + 1],
         r.seq \in Nat, q.seq = r.seq, q.file = r.file
  PROVE  HeldOf(q)
<1>1. ASSUME NEW i \in 1 .. l
      PROVE  /\ h[i].sequence = q.seq - l + i - 1
             /\ h[i].content.file = q.file /\ Good(h[i].content)
  <2>1. i + 1 \in 1 .. Len(r.held)
    OBVIOUS
  <2>2. /\ r.held[i + 1].sequence = r.seq - (l + 1) + (i + 1) - 1
        /\ r.held[i + 1].content.file = r.file /\ Good(r.held[i + 1].content)
    BY <2>1 DEF HeldOf
  <2>3. r.seq - (l + 1) + (i + 1) - 1 = q.seq - l + i - 1
    OBVIOUS
  <2>4. QED BY <2>2, <2>3
<1>2. QED BY <1>1 DEF HeldOf

LEMMA ReaderInit == Init => ReaderInv
<1> SUFFICES ASSUME Init PROVE ReaderInv
  OBVIOUS
<1>1. Len(reader.held) = 0
  BY DEF Init
<1>2. 1 \in 1 .. MaxFiles + 1 /\ 0 \in 0 .. MaxBlocks /\ <<>> \in Seq(Buffers)
  OBVIOUS
<1>3. ReaderTyped
  BY <1>2 DEF Init, ReaderTyped
<1>4. ReaderHolds(reader)
  BY <1>1 DEF Init, ReaderHolds, HeldOf
<1>5. QED BY <1>3, <1>4 DEF ReaderInv

LEMMA ReaderStep ==
  ASSUME ReaderInv, [Next]_vars
  PROVE  ReaderInv'
<1>1. /\ reader = [pc |-> reader.pc, file |-> reader.file, seq |-> reader.seq,
                   blocks |-> reader.blocks, tail |-> reader.tail,
                   count |-> reader.count, held |-> reader.held]
      /\ reader.pc \in {"open", "file", "process", "send", "exit"}
      /\ reader.file \in 1 .. MaxFiles + 1 /\ reader.seq \in Nat
      /\ reader.blocks \in 0 .. MaxBlocks /\ reader.tail \in BOOLEAN
      /\ reader.count \in 0 .. MaxBlocks /\ reader.held \in Seq(Buffers)
      /\ Len(reader.held) \in Nat
      /\ (reader.held = <<>> => Len(reader.held) = 0)
      /\ (reader.held # <<>> => Len(reader.held) # 0)
  BY EmptySeq DEF ReaderInv, ReaderTyped
<1>2. ReaderHolds(reader)
  BY DEF ReaderInv
<1>3. <<>> \in Seq(Buffers) /\ Len(<<>>) = 0
  OBVIOUS
<1>4. CASE Open
  <2>1. reader.held = <<>> /\ reader.count = 0
    BY <1>2, <1>4 DEF Open, ReaderHolds
  <2>2. PICK pc \in {"exit", "file", "process"}, blocks \in 0 .. MaxBlocks,
             tail \in BOOLEAN :
          /\ reader' = [pc |-> pc, file |-> reader.file, seq |-> reader.seq,
                        blocks |-> blocks, tail |-> tail, count |-> 0, held |-> <<>>]
          /\ pc # "exit" => reader.file <= MaxFiles
          /\ pc = "file" => 1 <= blocks
    <3>1. ASSUME reader' = [reader EXCEPT !.pc = "exit"]
          PROVE  reader' = [pc |-> "exit", file |-> reader.file, seq |-> reader.seq,
                        blocks |-> reader.blocks, tail |-> reader.tail, count |-> 0,
                        held |-> <<>>]
      BY <1>1, <2>1, <3>1
    <3>2. ASSUME reader.file <= MaxFiles, NEW blocks \in 1 .. MaxBlocks,
                 NEW tail \in BOOLEAN,
                 reader' = [reader EXCEPT !.pc = "file", !.blocks = blocks, !.tail = tail]
          PROVE  reader' = [pc |-> "file", file |-> reader.file, seq |-> reader.seq,
                        blocks |-> blocks, tail |-> tail, count |-> 0, held |-> <<>>]
      BY <1>1, <2>1, <3>2
    <3>3. ASSUME reader' = [reader EXCEPT !.pc = "process"]
          PROVE  reader' = [pc |-> "process", file |-> reader.file, seq |-> reader.seq,
                        blocks |-> reader.blocks, tail |-> reader.tail, count |-> 0,
                        held |-> <<>>]
      BY <1>1, <2>1, <3>3
    <3>5. ~(reader.file > MaxFiles) => reader.file <= MaxFiles
      BY <1>1
    <3>6. CASE reader' = [reader EXCEPT !.pc = "exit"]
      BY <1>1, <3>1, <3>6
    <3>7. CASE reader.file <= MaxFiles /\ reader' = [reader EXCEPT !.pc = "process"]
      BY <1>1, <3>3, <3>7
    <3>8. CASE /\ reader.file <= MaxFiles
               /\ \E blocks \in 1 .. MaxBlocks, tail \in BOOLEAN :
                    reader' = [reader EXCEPT !.pc = "file", !.blocks = blocks,
                                             !.tail = tail]
      <4>1. PICK blocks \in 1 .. MaxBlocks, tail \in BOOLEAN :
              reader' = [reader EXCEPT !.pc = "file", !.blocks = blocks, !.tail = tail]
        BY <3>8
      <4>2. blocks \in 0 .. MaxBlocks /\ 1 <= blocks
        OBVIOUS
      <4>3. reader' = [pc |-> "file", file |-> reader.file, seq |-> reader.seq,
                       blocks |-> blocks, tail |-> tail, count |-> 0, held |-> <<>>]
        BY <3>2, <3>8, <4>1
      <4>4. QED BY <3>8, <4>2, <4>3
    <3>9. \/ reader' = [reader EXCEPT !.pc = "exit"]
          \/ reader.file <= MaxFiles /\ reader' = [reader EXCEPT !.pc = "process"]
          \/ /\ reader.file <= MaxFiles
             /\ \E blocks \in 1 .. MaxBlocks, tail \in BOOLEAN :
                  reader' = [reader EXCEPT !.pc = "file", !.blocks = blocks,
                                           !.tail = tail]
      BY <1>4, <3>5, Zenon DEF Open
    <3>10. QED BY <3>6, <3>7, <3>8, <3>9
  <2>3. ReaderTyped'
    BY <1>1, <1>3, <2>2 DEF ReaderTyped
  <2>4. /\ reader'.pc = pc /\ reader'.file = reader.file /\ reader'.blocks = blocks
        /\ reader'.count = 0 /\ reader'.held = <<>>
    BY <2>2
  <2>5. HoldsFile(reader') \/ pc # "file"
    BY <1>3, <2>2, <2>4 DEF HoldsFile
  <2>6. HoldsProcess(reader') /\ HeldOf(reader')
    BY <1>3, <2>4 DEF HoldsProcess, HeldOf
  <2>7. ReaderHolds(reader')
    BY <2>2, <2>4, <2>5, <2>6 DEF ReaderHolds
  <2>8. QED BY <2>3, <2>7 DEF ReaderInv
<1>5. CASE ReadBlock
  <2> DEFINE n == reader.count + 1
  <2>1. /\ reader.pc = "file" /\ reader.held = <<>> /\ n <= reader.blocks
        /\ n \in 1 .. MaxBlocks /\ reader.file \in 1 .. MaxFiles
    BY <1>1, <1>2, <1>5 DEF ReadBlock, ReaderHolds, HoldsFile
  <2>2. PICK kind \in {"data", "sparse", "fragment"}, error \in {0, 1, 2} :
          /\ reader' = [reader EXCEPT !.count = n, !.seq = @ + 1, !.held =
               <<Buffer(reader.seq, Content(reader.file, n, reader.blocks, kind, error))>>]
          /\ kind = "fragment" => n = reader.blocks /\ error = 0
    BY <1>5 DEF ReadBlock
  <2> DEFINE b == Buffer(reader.seq, Content(reader.file, n, reader.blocks, kind, error))
             h == <<b>>
  <2>3. b \in Buffers
    BY <1>1, <2>1, ContentTyped
  <2>4. h \in Seq(Buffers) /\ Len(h) = 1 /\ h[1] = b /\ h # <<>>
    BY <2>3, OneHeld
  <2>5. /\ b.sequence = reader.seq /\ b.content.file = reader.file
        /\ b.content.block = n /\ b.content.file_size = reader.blocks /\ Good(b.content)
    BY <1>1, <2>1, <2>2 DEF Buffer, Content, Good
  <2>6. reader' = [pc |-> "file", file |-> reader.file, seq |-> reader.seq + 1,
                   blocks |-> reader.blocks, tail |-> reader.tail,
                   count |-> n, held |-> h]
    BY <1>1, <2>1, <2>2
  <2> HIDE DEF b, h
  <2>7. ReaderTyped'
    BY <1>1, <2>1, <2>4, <2>6 DEF ReaderTyped
  <2>8. HoldsFile(reader') /\ HeldOf(reader')
    <3>1. /\ reader'.file = reader.file /\ reader'.seq = reader.seq + 1
          /\ reader'.blocks = reader.blocks /\ reader'.count = n
          /\ reader'.held = h
      BY <2>6
    <3>2. 1 <= reader'.blocks /\ reader'.count <= reader'.blocks /\ reader'.seq \in Nat
          /\ reader'.seq - 1 = reader.seq
      BY <1>1, <2>1, <3>1
    <3>3. HoldsFile(reader')
      BY <2>1, <2>4, <2>5, <3>1, <3>2, OneOfFile
    <3>4. HeldOf(reader')
      BY <2>4, <2>5, <3>1, <3>2, OneHeldOf
    <3>5. QED BY <3>3, <3>4
  <2>9. QED BY <2>1, <2>6, <2>7, <2>8 DEF ReaderInv, ReaderHolds
<1>6. CASE ReadEmpty
  <2> DEFINE b == Buffer(reader.seq, Content(reader.file, 1, 0, "sparse", 0))
             h == <<b>>
  <2>1. /\ reader.pc = "file" /\ reader.held = <<>> /\ reader.blocks = 1
        /\ reader.file \in 1 .. MaxFiles
        /\ reader' = [reader EXCEPT !.count = 1, !.seq = @ + 1, !.held = <<b>>]
    BY <1>1, <1>2, <1>6 DEF ReadEmpty, ReaderHolds
  <2>3. b \in Buffers
    <3>1. 1 \in 1 .. MaxBlocks /\ 0 \in -1 .. MaxBlocks
      OBVIOUS
    <3>2. QED BY <1>1, <2>1, <3>1, ContentTyped
  <2>4. h \in Seq(Buffers) /\ Len(h) = 1 /\ h[1] = b /\ h # <<>>
    BY <2>3, OneHeld
  <2>5. /\ b.sequence = reader.seq /\ b.content.file = reader.file
        /\ b.content.block = 1 /\ b.content.file_size = 0 /\ Good(b.content)
    BY DEF Buffer, Content, Good
  <2>6. reader' = [pc |-> "file", file |-> reader.file, seq |-> reader.seq + 1,
                   blocks |-> reader.blocks, tail |-> reader.tail,
                   count |-> 1, held |-> h]
    BY <1>1, <2>1
  <2> HIDE DEF b, h
  <2>7. ReaderTyped'
    BY <1>1, <2>1, <2>4, <2>6 DEF ReaderTyped
  <2>8. HoldsFile(reader') /\ HeldOf(reader')
    <3>1. /\ reader'.file = reader.file /\ reader'.seq = reader.seq + 1
          /\ reader'.blocks = reader.blocks /\ reader'.count = 1
          /\ reader'.held = h
      BY <2>6
    <3>2. 1 <= reader'.blocks /\ reader'.count <= reader'.blocks /\ reader'.seq \in Nat
          /\ reader'.seq - 1 = reader.seq
      BY <1>1, <2>1, <3>1
    <3>3. HoldsFile(reader')
      BY <2>1, <2>4, <2>5, <3>1, <3>2, OneOfFile
    <3>4. HeldOf(reader')
      BY <2>4, <2>5, <3>1, <3>2, OneHeldOf
    <3>5. QED BY <3>3, <3>4
  <2>9. QED BY <2>1, <2>6, <2>7, <2>8 DEF ReaderInv, ReaderHolds
<1>7. CASE ReadProcess
  <2> DEFINE n == reader.count + 1
  <2>1. PICK kind \in {"data", "sparse"} :
          reader' = [reader EXCEPT !.count = n, !.seq = @ + 1, !.held = Append(@,
            Buffer(reader.seq, Content(reader.file, n, -1, kind, 0)))]
    BY <1>7 DEF ReadProcess
  <2> DEFINE b == Buffer(reader.seq, Content(reader.file, n, -1, kind, 0))
             h == Append(reader.held, b)
  <2>2. /\ reader.pc = "process" /\ Len(reader.held) < 2 /\ n \in 1 .. MaxBlocks
        /\ reader.file \in 1 .. MaxFiles /\ HoldsProcess(reader) /\ HeldOf(reader)
    BY <1>1, <1>2, <1>7 DEF ReadProcess, ReaderHolds
  <2>3. b \in Buffers
    <3>1. -1 \in -1 .. MaxBlocks
      OBVIOUS
    <3>2. QED BY <1>1, <2>2, <3>1, ContentTyped
  <2>4. /\ h \in Seq(Buffers) /\ Len(h) = Len(reader.held) + 1
        /\ \A i \in 1 .. Len(reader.held) : h[i] = reader.held[i]
        /\ h[Len(reader.held) + 1] = b
    BY <1>1, <2>3, AppendIs
  <2>5. /\ b.sequence = reader.seq /\ b.content.file = reader.file
        /\ b.content.block = n /\ b.content.file_size = -1 /\ Good(b.content)
        /\ b.content.error = 0
    BY <2>2 DEF Buffer, Content, Good
  <2>6. reader' = [pc |-> "process", file |-> reader.file, seq |-> reader.seq + 1,
                   blocks |-> reader.blocks, tail |-> reader.tail,
                   count |-> n, held |-> h]
    BY <1>1, <2>1, <2>2
  <2> HIDE DEF b, h
  <2>7. ReaderTyped'
    BY <1>1, <2>2, <2>4, <2>6 DEF ReaderTyped
  <2>8. h # <<>> /\ n # 0
    BY <1>1, <2>4, <1>3
  <2>9. /\ reader'.file = reader.file /\ reader'.seq = reader.seq + 1
        /\ reader'.count = n /\ reader'.held = h
    BY <2>6
  <2>10. PICK r, q : r = reader /\ q = reader'
    OBVIOUS
  <2>11. /\ HoldsProcess(r) /\ HeldOf(r) /\ Len(r.held) \in Nat /\ Len(r.held) < 2
         /\ r.count \in Nat /\ r.seq \in Nat
    BY <1>1, <2>2, <2>10
  <2>12. Len(q.held) = Len(r.held) + 1 /\ q.held # <<>> /\ q.held[Len(r.held) + 1] = b
    BY <2>4, <2>8, <2>9, <2>10
  <2>13. \A i \in 1 .. Len(r.held) : q.held[i] = r.held[i]
    BY <2>4, <2>9, <2>10
  <2>14. q.count = r.count + 1 /\ q.seq = r.seq + 1 /\ q.file = r.file
    BY <2>9, <2>10
  <2>15. /\ q.held[Len(r.held) + 1].content.file_size = -1
         /\ q.held[Len(r.held) + 1].content.error = 0
         /\ q.held[Len(r.held) + 1].content.block = q.count
    BY <2>5, <2>9, <2>10, <2>12
  <2>16. /\ q.held[Len(r.held) + 1].sequence = r.seq
         /\ q.held[Len(r.held) + 1].content.file = r.file
         /\ Good(q.held[Len(r.held) + 1].content)
    BY <2>5, <2>10, <2>12
  <2>17. HoldsProcess(q)
    BY <2>11, <2>12, <2>13, <2>14, <2>15, OneMoreOfProcess
  <2>18. HeldOf(q)
    BY <2>11, <2>12, <2>13, <2>14, <2>16, OneMore
  <2>19. QED BY <2>2, <2>6, <2>7, <2>10, <2>17, <2>18 DEF ReaderInv, ReaderHolds
<1>8. CASE EndProcess
  <2>1. PICK c, n, s :
          /\ reader' = [reader EXCEPT !.pc = "send", !.held = <<Buffer(n, c)>>, !.seq = s]
          /\ n = IF reader.held = <<>> THEN reader.seq ELSE Head(reader.held).sequence
          /\ s = IF reader.held = <<>> THEN reader.seq + 1 ELSE reader.seq
          /\ \/ /\ reader.held = <<>>
                /\ \E error \in {0, 1} : c = Content(reader.file, 1, 0, "sparse", error)
             \/ /\ reader.held # <<>>
                /\ \/ c = [Head(reader.held).content EXCEPT !.error = 1]
                   \/ \E tail \in BOOLEAN :
                        c = [Head(reader.held).content EXCEPT !.file_size = reader.count,
                               !.kind = IF tail /\ @ = "data" THEN "fragment" ELSE @]
    BY <1>1, <1>8 DEF EndProcess
  <2> DEFINE b == Buffer(n, c)
             h == <<b>>
  <2>2. /\ reader.pc = "process" /\ Len(reader.held) < 2
        /\ reader.file \in 1 .. MaxFiles /\ HoldsProcess(reader) /\ HeldOf(reader)
    <3>1. reader.pc = "process" /\ Len(reader.held) < 2
      BY <1>8 DEF EndProcess
    <3>2. QED BY <1>1, <1>2, <3>1 DEF ReaderHolds
  <2>3. /\ b \in Buffers /\ n = s - 1 /\ n \in Nat /\ s \in Nat
        /\ c.file = reader.file /\ Good(c)
        /\ c.error \in {0, 1} /\ c.file_size \in {-1, 0, c.block}
        /\ (c.error = 0 => c.file_size # -1)
    <3>1. CASE reader.held = <<>>
      <4>1. PICK error \in {0, 1} : c = Content(reader.file, 1, 0, "sparse", error)
        BY <2>1, <3>1
      <4>2. 1 \in 1 .. MaxBlocks /\ 0 \in -1 .. MaxBlocks /\ n = reader.seq
        BY <2>1, <3>1
      <4>3. b \in Buffers
        BY <1>1, <2>2, <4>1, <4>2, ContentTyped
      <4>4. QED BY <1>1, <2>1, <3>1, <4>1, <4>3 DEF Content, Good
    <3>2. CASE reader.held # <<>>
      <4> DEFINE first == Head(reader.held)
                 kept == first.content
      <4>1. Len(reader.held) = 1 /\ first = reader.held[1] /\ first \in Buffers
        <5>1. Len(reader.held) = 1
          <6>1. Len(reader.held) \in Nat /\ Len(reader.held) # 0
            BY <1>1, <3>2
          <6>2. QED BY <2>2, <6>1, OnlyOne
        <5>2. QED BY <1>1, <3>2, <5>1, TailIs
      <4>2. /\ first.sequence = reader.seq - 1 /\ kept.file = reader.file /\ Good(kept)
            /\ kept.file_size = -1 /\ kept.error = 0 /\ kept.block = reader.count
        <5>1. 1 \in 1 .. Len(reader.held) /\ reader.seq \in Nat /\ reader.count \in Nat
          BY <1>1, <4>1
        <5>2. /\ first.sequence = reader.seq - Len(reader.held) + 1 - 1
              /\ kept.file = reader.file /\ Good(kept)
          BY <2>2, <4>1, <5>1 DEF HeldOf
        <5>3. /\ kept.file_size = -1 /\ kept.error = 0
              /\ kept.block = reader.count - Len(reader.held) + 1
          BY <2>2, <4>1, <5>1 DEF HoldsProcess
        <5>4. reader.seq - Len(reader.held) + 1 - 1 = reader.seq - 1
              /\ reader.count - Len(reader.held) + 1 = reader.count
          BY <4>1, <5>1
        <5>5. QED BY <5>2, <5>3, <5>4
      <4>3. /\ first.sequence \in Nat /\ kept \in Contents
        BY <4>1 DEF Buffers
      <4>4. kept.kind # "fragment"
        BY <4>2, <4>3 DEF Good, Contents
      <4>5. n = first.sequence /\ s = reader.seq
        BY <2>1, <3>2
      <4> HIDE DEF first
      <4>6. CASE c = [kept EXCEPT !.error = 1]
        <5>1. c \in Contents
          BY <4>3, <4>6 DEF Contents
        <5>2. b \in Buffers
          BY <4>3, <4>5, <5>1 DEF Buffer, Buffers
        <5>3. QED BY <1>1, <4>2, <4>3, <4>4, <4>5, <4>6, <5>2 DEF Good, Contents
      <4>7. ASSUME NEW tail \in BOOLEAN,
                   c = [kept EXCEPT !.file_size = reader.count,
                               !.kind = IF tail /\ @ = "data" THEN "fragment" ELSE @]
            PROVE  /\ b \in Buffers /\ c.file = reader.file /\ Good(c)
                   /\ c.error = 0 /\ c.file_size = c.block
        <5>1. reader.count \in 1 .. MaxBlocks
          BY <1>1, <4>2, <4>3 DEF Contents
        <5>2. c \in Contents
          <6>1. kept = [file |-> kept.file, block |-> kept.block,
                        file_size |-> kept.file_size, kind |-> kept.kind,
                        error |-> kept.error]
            BY <4>3 DEF Contents
          <6>2. c = [file |-> kept.file, block |-> kept.block,
                     file_size |-> reader.count,
                     kind |-> IF tail /\ kept.kind = "data" THEN "fragment" ELSE kept.kind,
                     error |-> kept.error]
            BY <4>7, <6>1
          <6>3. reader.count \in -1 .. MaxBlocks
            BY <5>1
          <6>4. QED BY <4>3, <6>2, <6>3 DEF Contents
        <5>3. b \in Buffers
          BY <4>3, <4>5, <5>2 DEF Buffer, Buffers
        <5>4. c.file = reader.file /\ c.error = 0 /\ c.file_size = c.block /\ c.block >= 1
              /\ c.file_size \notin {-1, 0}
          BY <4>2, <4>3, <4>7, <5>1 DEF Contents
        <5>5. QED BY <5>3, <5>4, <5>2 DEF Good, Contents
      <4>8. n = s - 1 /\ n \in Nat /\ s \in Nat
        BY <1>1, <4>2, <4>3, <4>5
      <4>9. \/ c = [kept EXCEPT !.error = 1]
            \/ \E tail \in BOOLEAN :
                 c = [kept EXCEPT !.file_size = reader.count,
                        !.kind = IF tail /\ @ = "data" THEN "fragment" ELSE @]
        BY <2>1, <3>2 DEF first
      <4>10. CASE c = [kept EXCEPT !.error = 1]
        <5>1. c.error = 1 /\ c.file_size = -1
          BY <4>2, <4>3, <4>10 DEF Contents
        <5>2. QED BY <4>6, <4>8, <4>10, <5>1
      <4>11. ASSUME NEW tail \in BOOLEAN,
                    c = [kept EXCEPT !.file_size = reader.count,
                                !.kind = IF tail /\ @ = "data" THEN "fragment" ELSE @]
             PROVE  /\ b \in Buffers /\ c.file = reader.file /\ Good(c)
                    /\ c.error = 0 /\ c.file_size = c.block /\ c.file_size # -1
        <5>1. /\ b \in Buffers /\ c.file = reader.file /\ Good(c)
              /\ c.error = 0 /\ c.file_size = c.block
          BY <4>7, <4>11
        <5>2. c.file_size = reader.count
          BY <4>3, <4>11 DEF Contents
        <5>3. QED BY <1>1, <5>1, <5>2
      <4>12. QED BY <4>8, <4>9, <4>10, <4>11
    <3>3. QED BY <3>1, <3>2
  <2>4. h \in Seq(Buffers) /\ Len(h) = 1 /\ h[1] = b /\ h # <<>>
    BY <2>3, OneHeld
  <2>5. b.sequence = n /\ b.content = c
    BY DEF Buffer
  <2>6. reader' = [pc |-> "send", file |-> reader.file, seq |-> s,
                   blocks |-> reader.blocks, tail |-> reader.tail,
                   count |-> reader.count, held |-> h]
    BY <1>1, <2>1
  <2> HIDE DEF b, h
  <2>7. ReaderTyped'
    BY <1>1, <2>3, <2>4, <2>6 DEF ReaderTyped
  <2>8. HoldsLast(reader') /\ HeldOf(reader')
    <3>1. /\ reader'.file = reader.file /\ reader'.seq = s
          /\ reader'.blocks = reader.blocks /\ reader'.count = reader.count
          /\ reader'.held = h
      BY <2>6
    <3>2. HoldsLast(reader')
      BY <2>3, <2>4, <2>5, <3>1, OneIsLast
    <3>3. HeldOf(reader')
      BY <2>3, <2>4, <2>5, <3>1, OneHeldOf
    <3>4. QED BY <3>2, <3>3
  <2>9. QED BY <2>2, <2>6, <2>7, <2>8 DEF ReaderInv, ReaderHolds
<1>9. ASSUME NEW f \in 1 .. MaxFiles + 1, reader' = Closed(f)
      PROVE  ReaderInv'
  <2>1. ReaderTyped'
    BY <1>1, <1>3, <1>9 DEF Closed, ReaderTyped
  <2>2. ReaderHolds(reader')
    BY <1>3, <1>9 DEF Closed, ReaderHolds, HeldOf
  <2>3. QED BY <2>1, <2>2 DEF ReaderInv
<1>10. reader.held # <<>> => reader.file \in 1 .. MaxFiles
  BY <1>1, <1>2 DEF ReaderHolds
<1>11. CASE SendBlock
  <2>1. reader.held # <<>> /\ reader.file \in 1 .. MaxFiles
    <3>1. reader.held # <<>>
      BY <1>3, <1>11 DEF SendBlock
    <3>2. QED BY <1>10, <3>1
  <2>2. CASE reader' = Closed(reader.file + 1)
    <3>1. reader.file + 1 \in 1 .. MaxFiles + 1
      BY <2>1
    <3>2. QED BY <1>9, <2>2, <3>1
  <2>3. CASE reader' # Closed(reader.file + 1)
    <3>1. /\ reader' = [reader EXCEPT !.held = Tail(@)]
          /\ reader.pc # "send"
          /\ ~(reader.pc = "file" /\ reader.count = reader.blocks)
      BY <1>11, <2>3 DEF SendBlock
    <3>2. reader.pc \in {"file", "process"}
      BY <1>1, <1>2, <2>1, <3>1 DEF ReaderHolds
    <3> DEFINE h == Tail(reader.held)
    <3>3. /\ h \in Seq(Buffers) /\ Len(h) = Len(reader.held) - 1
          /\ \A i \in 1 .. Len(reader.held) - 1 : h[i] = reader.held[i + 1]
      BY <1>1, <2>1, TailIs
    <3>4. reader' = [pc |-> reader.pc, file |-> reader.file, seq |-> reader.seq,
                     blocks |-> reader.blocks, tail |-> reader.tail,
                     count |-> reader.count, held |-> h]
      BY <1>1, <3>1
    <3> HIDE DEF h
    <3>5. ReaderTyped'
      BY <1>1, <3>3, <3>4 DEF ReaderTyped
    <3>6. HeldOf(reader')
      <4> DEFINE l == Len(reader.held) - 1
      <4>1. l \in Nat /\ l + 1 = Len(reader.held)
        BY <1>1, <2>1
      <4>2. HeldOf(reader)
        BY <1>2 DEF ReaderHolds
      <4>3. reader'.held = h /\ reader'.seq = reader.seq /\ reader'.file = reader.file
        BY <3>4
      <4> HIDE DEF l
      <4>4. \A i \in 1 .. l : h[i] = reader.held[i + 1]
        BY <3>3 DEF l
      <4>5. Len(h) = l
        BY <3>3 DEF l
      <4>6. reader.seq \in Nat
        BY <1>1
      <4>7. QED BY <4>1, <4>2, <4>3, <4>4, <4>5, <4>6, OneFewer
    <3>7. CASE reader.pc = "file"
      <4>5. HoldsFile(reader)
        BY <1>2, <3>7 DEF ReaderHolds
      <4>1. HoldsFile(reader) /\ Len(h) = 0
        <5>1. Len(reader.held) \in Nat /\ Len(reader.held) # 0
          BY <1>1, <2>1
        <5>2. Len(reader.held) <= 1
          BY <4>5 DEF HoldsFile
        <5>3. Len(reader.held) = 1
          BY <5>1, <5>2, OnlyOne
        <5>4. QED BY <3>3, <4>5, <5>3
      <4>2. h = <<>>
        BY <3>3, <4>1, EmptySeq
      <4>3. HoldsFile(reader')
        <5>1. /\ reader'.held = <<>> /\ reader'.count = reader.count
              /\ reader'.blocks = reader.blocks
          BY <3>4, <4>2
        <5>2. 1 <= reader.blocks /\ reader.count <= reader.blocks
          BY <4>1 DEF HoldsFile
        <5>3. reader.count < reader.blocks
          BY <1>1, <3>1, <3>7, <5>2
        <5>4. QED BY <1>3, <5>1, <5>2, <5>3 DEF HoldsFile
      <4>4. QED BY <2>1, <3>4, <3>5, <3>6, <3>7, <4>3 DEF ReaderInv, ReaderHolds
    <3>8. CASE reader.pc = "process"
      <4>1. HoldsProcess(reader) /\ Len(reader.held) = 2
        BY <1>2, <1>11, <3>8 DEF ReaderHolds, SendBlock
      <4>2. Len(h) = 1 /\ h # <<>> /\ h[1] = reader.held[2]
        <5>1. Len(h) = 1 /\ 1 \in 1 .. Len(reader.held) - 1
          BY <3>3, <4>1
        <5>2. h[1] = reader.held[1 + 1]
          BY <3>3, <5>1
        <5>3. QED BY <1>3, <5>1, <5>2
      <4>3. reader.count # 0
        BY <2>1, <4>1 DEF HoldsProcess
      <4>4. HoldsProcess(reader')
        <5>1. reader'.held = h /\ reader'.count = reader.count
          BY <3>4
        <5>2. 2 \in 1 .. Len(reader.held)
          BY <4>1
        <5>3. /\ h[1].content.file_size = -1 /\ h[1].content.error = 0
              /\ h[1].content.block = reader.count - 2 + 2
          BY <4>1, <4>2, <5>2 DEF HoldsProcess
        <5>4. reader.count - 2 + 2 = reader.count - 1 + 1
          BY <1>1
        <5>5. \A i \in 1 .. Len(h) : i = 1
          BY <4>2
        <5>6. \A i \in 1 .. Len(h) : /\ h[i].content.file_size = -1
                                     /\ h[i].content.error = 0
                                     /\ h[i].content.block = reader.count - Len(h) + i
          BY <4>2, <5>3, <5>4, <5>5
        <5>7. Len(h) <= 2
          BY <4>2
        <5>8. QED BY <4>2, <4>3, <5>1, <5>6, <5>7 DEF HoldsProcess
      <4>5. QED BY <2>1, <3>4, <3>5, <3>6, <3>8, <4>4 DEF ReaderInv, ReaderHolds
    <3>9. QED BY <3>2, <3>7, <3>8
  <2>4. QED BY <2>2, <2>3
<1>12. CASE SendError
  <2>1. reader.held # <<>> /\ reader.file \in 1 .. MaxFiles
    BY <1>10, <1>12 DEF SendError
  <2>2. CASE reader' = Closed(reader.file + 1)
    <3>1. reader.file + 1 \in 1 .. MaxFiles + 1
      BY <2>1
    <3>2. QED BY <1>9, <2>2, <3>1
  <2>3. CASE reader' # Closed(reader.file + 1)
    <3>1. PICK blocks \in 1 .. MaxBlocks, tail \in BOOLEAN :
            reader' = [Closed(reader.file) EXCEPT !.pc = "file", !.blocks = blocks,
                                                  !.tail = tail]
      BY <1>12, <2>3 DEF SendError
    <3>2. reader' = [pc |-> "file", file |-> reader.file, seq |-> reader.seq,
                     blocks |-> blocks, tail |-> tail, count |-> 0, held |-> <<>>]
      BY <3>1 DEF Closed
    <3>3. ReaderTyped'
      BY <1>1, <1>3, <3>2 DEF ReaderTyped
    <3>4. ReaderHolds(reader')
      BY <1>3, <2>1, <3>2 DEF ReaderHolds, HoldsFile, HeldOf
    <3>5. QED BY <3>3, <3>4 DEF ReaderInv
  <2>4. QED BY <2>2, <2>3
<1>13. CASE ~Reader
  BY <1>13, ReaderOnly DEF ReaderInv, ReaderTyped
<1>14. QED BY <1>4, <1>5, <1>6, <1>7, <1>8, <1>11, <1>12, <1>13 DEF Reader

LEMMA ReaderAlways == Spec => []ReaderInv
<1>1. ReaderInv /\ [Next]_vars => ReaderInv'
  BY ReaderStep
<1>2. QED BY ReaderInit, <1>1, PTL DEF Spec

-----------------------------------------------------------------------------
(* What is under way between the reader and main.                          *)

FlowTyped ==
  /\ from_reader \in Seq(Buffers) /\ from_deflate \in Seq(Buffers)
  /\ block_hash \in SUBSET Buffers /\ sequence \in Nat
  /\ deflator \in [Deflators -> {Fresh} \cup [state : {"compress", "put"}, buffer : Buffers]]

Busy(d) == deflator[d].state # "idle"

(* Each buffer under way is in one place.                                  *)
Apart ==
  /\ IsInjective(from_reader) /\ IsInjective(from_deflate)
  /\ \A d, e \in Deflators :
       Busy(d) /\ Busy(e) /\ deflator[d].buffer = deflator[e].buffer => d = e
  /\ Range(from_reader) \cap Carried = {}
  /\ Range(from_reader) \cap Range(from_deflate) = {}
  /\ Range(from_reader) \cap block_hash = {}
  /\ Carried \cap Range(from_deflate) = {}
  /\ Carried \cap block_hash = {}
  /\ Range(from_deflate) \cap block_hash = {}

(* Those under way are numbered from the one main wants to the last sent.  *)
Numbered ==
  /\ sequence <= Sent
  /\ \A b \in InFlight : sequence <= b.sequence /\ b.sequence < Sent
  /\ \A b, e \in InFlight : b.sequence = e.sequence => b = e
  /\ \A n \in sequence .. Sent - 1 : \E b \in InFlight : b.sequence = n

(* What main can handle, and what the deflators can.                       *)
Sound ==
  /\ \A b \in InFlight : Good(b.content)
  /\ \A b \in Range(from_reader) : b.content.error = 0
  /\ \A d \in Deflators : deflator[d].state = "compress" => IsData(deflator[d].buffer)

FlowInv == FlowTyped /\ Apart /\ Numbered /\ Sound

(* What a step does to the buffers under way: nothing, the reader sends    *)
(* the first it holds, or main gets the one it wants.                      *)
Kept == InFlight' = InFlight /\ sequence' = sequence /\ Sent' = Sent
Sends(b) == /\ InFlight' = InFlight \cup {b} /\ sequence' = sequence /\ Sent' = Sent + 1
            /\ reader.held # <<>> /\ b = Head(reader.held)
Gets(b) == /\ b \in InFlight /\ b.sequence = sequence /\ InFlight' = InFlight \ {b}
           /\ sequence' = sequence + 1 /\ Sent' = Sent
           /\ main.pc = "get" /\ Handle(b.content)

LEMMA FlowInit == Init => FlowInv
<1> SUFFICES ASSUME Init PROVE FlowInv
  OBVIOUS
<1>1. \A d \in Deflators : deflator[d] = Fresh /\ ~Busy(d)
  BY DEF Init, Busy, Fresh
<1>2. Carried = {}
  BY <1>1 DEF Carried, Busy
<1>3. Range(from_reader) = {} /\ Range(from_deflate) = {} /\ block_hash = {}
  BY DEF Init, Range
<1>4. InFlight = {}
  BY <1>2, <1>3 DEF InFlight
<1>5. FlowTyped
  <2>1. <<>> \in Seq(Buffers) /\ {} \in SUBSET Buffers /\ 0 \in Nat
    OBVIOUS
  <2>2. deflator \in [Deflators -> {Fresh}]
    BY DEF Init
  <2>3. QED BY <2>1, <2>2 DEF Init, FlowTyped
<1>6. Apart
  <2>1. IsInjective(from_reader) /\ IsInjective(from_deflate)
    BY DEF Init, IsInjective
  <2>2. QED BY <1>1, <1>2, <1>3, <2>1 DEF Apart
<1>7. Sent = 0 /\ sequence = 0
  <2>1. Len(<<>>) = 0
    OBVIOUS
  <2>2. QED BY <2>1 DEF Init, Sent
<1>8. Numbered
  BY <1>4, <1>7 DEF Numbered
<1>9. Sound
  BY <1>1, <1>3, <1>4 DEF Sound, Fresh
<1>10. QED BY <1>5, <1>6, <1>8, <1>9 DEF FlowInv

(* How the numbers change.                                                 *)
LEMMA SentTyped ==
  ASSUME ReaderInv
  PROVE  Sent \in Int
<1>1. Len(reader.held) \in Nat /\ reader.seq \in Nat
  BY DEF ReaderInv, ReaderTyped
<1>2. QED BY <1>1 DEF Sent

LEMMA NumberedStep ==
  ASSUME Numbered, sequence \in Nat, Sent \in Int, \A b \in InFlight : b.sequence \in Nat,
         \/ Kept
         \/ \E b : Sends(b) /\ b.sequence = Sent
         \/ \E b : Gets(b)
  PROVE  Numbered'
<1>1. CASE Kept
  BY <1>1 DEF Numbered, Kept
<1>2. ASSUME NEW b, Sends(b), b.sequence = Sent PROVE Numbered'
  <2>1. InFlight' = InFlight \cup {b} /\ sequence' = sequence /\ Sent' = Sent + 1
    BY <1>2 DEF Sends
  <2>2. sequence' <= Sent'
    BY <2>1 DEF Numbered
  <2>3. \A e \in InFlight' : sequence' <= e.sequence /\ e.sequence < Sent'
    BY <1>2, <2>1 DEF Numbered
  <2>4. \A e, f \in InFlight' : e.sequence = f.sequence => e = f
    <3>1. \A e \in InFlight : e.sequence # b.sequence
      BY <1>2 DEF Numbered
    <3>2. QED BY <2>1, <3>1 DEF Numbered
  <2>5. \A n \in sequence' .. Sent' - 1 : \E e \in InFlight' : e.sequence = n
    <3>1. \A n \in sequence' .. Sent' - 1 : n \in sequence .. Sent - 1 \/ n = Sent
      BY <2>1
    <3>2. QED BY <1>2, <2>1, <3>1 DEF Numbered
  <2>6. QED BY <2>2, <2>3, <2>4, <2>5 DEF Numbered
<1>3. ASSUME NEW b, Gets(b) PROVE Numbered'
  <2>1. /\ b \in InFlight /\ b.sequence = sequence /\ InFlight' = InFlight \ {b}
        /\ sequence' = sequence + 1 /\ Sent' = Sent
    BY <1>3 DEF Gets
  <2>2. sequence' <= Sent'
    BY <2>1 DEF Numbered
  <2>3. \A e \in InFlight' : sequence' <= e.sequence /\ e.sequence < Sent'
    <3>1. \A e \in InFlight' : e \in InFlight /\ e.sequence # sequence
      BY <2>1 DEF Numbered
    <3>2. QED BY <2>1, <3>1 DEF Numbered
  <2>4. \A e, f \in InFlight' : e.sequence = f.sequence => e = f
    BY <2>1 DEF Numbered
  <2>5. \A n \in sequence' .. Sent' - 1 : \E e \in InFlight' : e.sequence = n
    <3>1. ASSUME NEW n \in sequence' .. Sent' - 1
          PROVE  \E e \in InFlight' : e.sequence = n
      <4>1. n \in sequence .. Sent - 1 /\ n # sequence
        BY <2>1
      <4>2. QED BY <2>1, <4>1 DEF Numbered
    <3>2. QED BY <3>1
  <2>6. QED BY <2>2, <2>3, <2>4, <2>5 DEF Numbered
<1>4. QED BY <1>1, <1>2, <1>3

(* The deflators' buffers.                                                 *)
LEMMA BusyTyped ==
  ASSUME FlowTyped, NEW d \in Deflators, Busy(d)
  PROVE  /\ deflator[d] \in [state : {"compress", "put"}, buffer : Buffers]
         /\ deflator[d].buffer \in Buffers /\ deflator[d].buffer \in Carried
<1>1. deflator[d] \in [state : {"compress", "put"}, buffer : Buffers]
  BY DEF FlowTyped, Busy, Fresh
<1>2. QED BY <1>1 DEF Carried, Busy

LEMMA InFlightTyped ==
  ASSUME FlowTyped
  PROVE  InFlight \in SUBSET Buffers
<1>1. Range(from_reader) \subseteq Buffers /\ Range(from_deflate) \subseteq Buffers
  BY DEF FlowTyped, Range
<1>2. Carried \subseteq Buffers
  BY BusyTyped DEF Carried, Busy
<1>3. QED BY <1>1, <1>2 DEF InFlight, FlowTyped

LEMMA CarriedMore ==
  ASSUME FlowTyped, Apart, NEW d \in Deflators, ~Busy(d), NEW b, NEW s \in {"compress", "put"},
         deflator' = [deflator EXCEPT ![d] = [state |-> s, buffer |-> b]],
         b \notin Carried
  PROVE  /\ Carried' = Carried \cup {b}
         /\ \A x, y \in Deflators :
              Busy(x)' /\ Busy(y)' /\ deflator'[x].buffer = deflator'[y].buffer => x = y
<1>1. DOMAIN deflator = Deflators
  BY DEF FlowTyped
<1>2. \A x \in Deflators : /\ x # d => deflator'[x] = deflator[x]
                           /\ x = d => deflator'[x] = [state |-> s, buffer |-> b]
  BY <1>1
<1>3. \A x \in Deflators : Busy(x)' <=> Busy(x) \/ x = d
  BY <1>2 DEF Busy
<1>4. \A x \in Deflators : Busy(x) => x # d /\ deflator[x].buffer \in Carried
  BY DEF Carried, Busy
<1>5. Carried' = Carried \cup {b}
  <2>1. ASSUME NEW e \in Carried' PROVE e \in Carried \cup {b}
    <3>1. PICK x \in Deflators : Busy(x)' /\ e = deflator'[x].buffer
      BY <2>1 DEF Carried, Busy
    <3>2. QED BY <1>2, <1>3, <1>4, <3>1
  <2>2. ASSUME NEW e \in Carried PROVE e \in Carried'
    <3>1. PICK x \in Deflators : Busy(x) /\ e = deflator[x].buffer
      BY <2>2 DEF Carried, Busy
    <3>2. Busy(x)' /\ e = deflator'[x].buffer
      BY <1>2, <1>3, <1>4, <3>1
    <3>3. QED BY <3>2 DEF Carried, Busy
  <2>3. b \in Carried'
    <3>1. Busy(d)' /\ b = deflator'[d].buffer
      BY <1>2, <1>3
    <3>2. QED BY <3>1 DEF Carried, Busy
  <2>4. QED BY <2>1, <2>2, <2>3
<1>6. ASSUME NEW x \in Deflators, NEW y \in Deflators, Busy(x)', Busy(y)',
             deflator'[x].buffer = deflator'[y].buffer
      PROVE  x = y
  BY <1>2, <1>3, <1>4, <1>6 DEF Apart
<1>7. QED BY <1>5, <1>6

LEMMA CarriedFewer ==
  ASSUME FlowTyped, Apart, NEW d \in Deflators, Busy(d),
         deflator' = [deflator EXCEPT ![d] = Fresh]
  PROVE  /\ Carried' = Carried \ {deflator[d].buffer}
         /\ \A x, y \in Deflators :
              Busy(x)' /\ Busy(y)' /\ deflator'[x].buffer = deflator'[y].buffer => x = y
<1>1. DOMAIN deflator = Deflators
  BY DEF FlowTyped
<1>2. \A x \in Deflators : /\ x # d => deflator'[x] = deflator[x]
                           /\ x = d => deflator'[x] = Fresh
  BY <1>1
<1>3. \A x \in Deflators : Busy(x)' <=> Busy(x) /\ x # d
  BY <1>2 DEF Busy, Fresh
<1>4. Carried' = Carried \ {deflator[d].buffer}
  <2>1. ASSUME NEW e \in Carried' PROVE e \in Carried \ {deflator[d].buffer}
    <3>1. PICK x \in Deflators : Busy(x)' /\ e = deflator'[x].buffer
      BY <2>1 DEF Carried, Busy
    <3>2. Busy(x) /\ x # d /\ e = deflator[x].buffer
      BY <1>2, <1>3, <3>1
    <3>3. e # deflator[d].buffer
      BY <3>2 DEF Apart
    <3>4. QED BY <3>2, <3>3 DEF Carried, Busy
  <2>2. ASSUME NEW e \in Carried, e # deflator[d].buffer PROVE e \in Carried'
    <3>1. PICK x \in Deflators : Busy(x) /\ e = deflator[x].buffer
      BY <2>2 DEF Carried, Busy
    <3>2. Busy(x)' /\ e = deflator'[x].buffer
      BY <1>2, <1>3, <2>2, <3>1
    <3>3. QED BY <3>2 DEF Carried, Busy
  <2>3. QED BY <2>1, <2>2
<1>5. QED BY <1>2, <1>3, <1>4 DEF Apart

LEMMA CarriedSame ==
  ASSUME FlowTyped, Apart, NEW d \in Deflators, deflator[d].state = "compress",
         deflator' = [deflator EXCEPT ![d].state = "put"]
  PROVE  /\ Carried' = Carried
         /\ \A x, y \in Deflators :
              Busy(x)' /\ Busy(y)' /\ deflator'[x].buffer = deflator'[y].buffer => x = y
<1>1. DOMAIN deflator = Deflators
  BY DEF FlowTyped
<1>2. deflator[d] \in [state : {"compress", "put"}, buffer : Buffers]
  BY BusyTyped DEF Busy
<1>3. deflator'[d] = [state |-> "put", buffer |-> deflator[d].buffer]
  BY <1>1, <1>2
<1>4. \A x \in Deflators : x # d => deflator'[x] = deflator[x]
  BY <1>1
<1>5. \A x \in Deflators : (Busy(x)' <=> Busy(x)) /\ deflator'[x].buffer = deflator[x].buffer
  BY <1>3, <1>4 DEF Busy
<1>6. Carried' = Carried
  <2>1. ASSUME NEW e \in Carried' PROVE e \in Carried
    <3>1. PICK x \in Deflators : Busy(x)' /\ e = deflator'[x].buffer
      BY <2>1 DEF Carried, Busy
    <3>2. QED BY <1>5, <3>1 DEF Carried, Busy
  <2>2. ASSUME NEW e \in Carried PROVE e \in Carried'
    <3>1. PICK x \in Deflators : Busy(x) /\ e = deflator[x].buffer
      BY <2>2 DEF Carried, Busy
    <3>2. Busy(x)' /\ e = deflator'[x].buffer
      BY <1>5, <3>1
    <3>3. QED BY <3>2 DEF Carried, Busy
  <2>3. QED BY <2>1, <2>2
<1>7. QED BY <1>5, <1>6 DEF Apart

(* What the reader does to its numbers.                                    *)
LEMMA ReaderFields ==
  ASSUME ReaderInv
  PROVE  /\ reader = [pc |-> reader.pc, file |-> reader.file, seq |-> reader.seq,
                      blocks |-> reader.blocks, tail |-> reader.tail,
                      count |-> reader.count, held |-> reader.held]
         /\ reader.pc \in {"open", "file", "process", "send", "exit"}
         /\ reader.file \in 1 .. MaxFiles + 1 /\ reader.seq \in Nat
         /\ reader.blocks \in 0 .. MaxBlocks /\ reader.tail \in BOOLEAN
         /\ reader.count \in 0 .. MaxBlocks /\ reader.held \in Seq(Buffers)
         /\ Len(reader.held) \in Nat
         /\ (reader.held = <<>> <=> Len(reader.held) = 0)
BY EmptySeq DEF ReaderInv, ReaderTyped

LEMMA HeadHeld ==
  ASSUME ReaderInv, reader.held # <<>>
  PROVE  /\ Head(reader.held) = reader.held[1] /\ Head(reader.held) \in Buffers
         /\ Head(reader.held).sequence = Sent
         /\ Head(reader.held).content.file = reader.file
         /\ Good(Head(reader.held).content)
         /\ Len(reader.held) \in Nat \ {0}
<1>1. reader.held \in Seq(Buffers) /\ reader.seq \in Nat
  BY DEF ReaderInv, ReaderTyped
<1>2. /\ Len(reader.held) \in Nat \ {0} /\ Head(reader.held) = reader.held[1]
      /\ Head(reader.held) \in Buffers
  BY <1>1, TailIs
<1>3. HeldOf(reader) /\ 1 \in 1 .. Len(reader.held)
  BY <1>2 DEF ReaderInv, ReaderHolds
<1>4. /\ reader.held[1].sequence = reader.seq - Len(reader.held) + 1 - 1
      /\ reader.held[1].content.file = reader.file /\ Good(reader.held[1].content)
  BY <1>3 DEF HeldOf
<1>5. reader.seq - Len(reader.held) + 1 - 1 = Sent
  BY <1>1, <1>2 DEF Sent
<1>6. QED BY <1>2, <1>4, <1>5

(* Only the reader of a process holds two buffers, and no error in either. *)
LEMMA HeldAlone ==
  ASSUME ReaderInv, reader.held # <<>>,
         reader.pc # "process" \/ Head(reader.held).content.error # 0
  PROVE  Len(reader.held) = 1 /\ reader.pc \in {"file", "send"}
<1>1. ReaderHolds(reader) /\ Len(reader.held) \in Nat \ {0} /\ Head(reader.held) = reader.held[1]
  BY HeadHeld DEF ReaderInv
<1>2. reader.pc \in {"open", "file", "process", "send", "exit"}
  BY ReaderFields
<1>3. CASE reader.pc = "process"
  <2>1. HoldsProcess(reader) /\ 1 \in 1 .. Len(reader.held)
    BY <1>1, <1>3 DEF ReaderHolds
  <2>2. reader.held[1].content.error = 0
    BY <2>1 DEF HoldsProcess
  <2>3. QED BY <1>1, <1>3, <2>2
<1>4. CASE reader.pc = "file"
  <2>1. Len(reader.held) <= 1
    BY <1>1, <1>4 DEF ReaderHolds, HoldsFile
  <2>2. QED BY <1>1, <1>4, <2>1, OnlyOne
<1>5. CASE reader.pc = "send"
  BY <1>1, <1>5 DEF ReaderHolds, HoldsLast
<1>6. CASE reader.pc \in {"open", "exit"}
  BY <1>1, <1>6 DEF ReaderHolds
<1>7. QED BY <1>2, <1>3, <1>4, <1>5, <1>6

LEMMA SentKept ==
  ASSUME ReaderInv, Open \/ ReadBlock \/ ReadEmpty \/ ReadProcess \/ EndProcess
  PROVE  Sent' = Sent
<1> DEFINE held == reader.held
<1>1. /\ reader.seq \in Nat /\ held \in Seq(Buffers) /\ Len(held) \in Nat
      /\ (held = <<>> <=> Len(held) = 0)
      /\ reader = [pc |-> reader.pc, file |-> reader.file, seq |-> reader.seq,
                   blocks |-> reader.blocks, tail |-> reader.tail,
                   count |-> reader.count, held |-> reader.held]
  BY ReaderFields
<1>2. CASE Open
  <2>1. reader'.seq = reader.seq /\ reader'.held = reader.held
    BY <1>1, <1>2 DEF Open
  <2>2. QED BY <2>1 DEF Sent
<1>3. ASSUME NEW b, held = <<>>, reader'.held = <<b>>, reader'.seq = reader.seq + 1
      PROVE  Sent' = Sent
  <2>1. Len(<<b>>) = 1 /\ Len(held) = 0
    BY <1>1, <1>3
  <2>2. QED BY <1>1, <1>3, <2>1 DEF Sent
<1>4. CASE ReadBlock
  <2>1. \E b : held = <<>> /\ reader'.held = <<b>> /\ reader'.seq = reader.seq + 1
    <3>1. PICK kind, error :
            reader' = [reader EXCEPT !.count = reader.count + 1, !.seq = @ + 1, !.held =
              <<Buffer(reader.seq, Content(reader.file, reader.count + 1, reader.blocks,
                                           kind, error))>>]
      BY <1>4, Zenon DEF ReadBlock
    <3>2. held = <<>>
      BY <1>4 DEF ReadBlock
    <3>3. QED BY <1>1, <3>1, <3>2
  <2>2. QED BY <1>3, <2>1
<1>5. CASE ReadEmpty
  <2>1. \E b : held = <<>> /\ reader'.held = <<b>> /\ reader'.seq = reader.seq + 1
    BY <1>1, <1>5 DEF ReadEmpty
  <2>2. QED BY <1>3, <2>1
<1>6. CASE ReadProcess
  <2>1. PICK kind \in {"data", "sparse"} :
          /\ reader'.held = Append(held, Buffer(reader.seq,
               Content(reader.file, reader.count + 1, -1, kind, 0)))
          /\ reader'.seq = reader.seq + 1
    BY <1>1, <1>6 DEF ReadProcess
  <2> DEFINE b == Buffer(reader.seq, Content(reader.file, reader.count + 1, -1, kind, 0))
  <2> HIDE DEF b
  <2>2. Len(Append(held, b)) = Len(held) + 1
    BY <1>1
  <2>3. reader'.held = Append(held, b)
    BY <2>1 DEF b
  <2>4. reader.seq + 1 - (Len(held) + 1) = reader.seq - Len(held)
    BY <1>1
  <2>5. QED BY <1>1, <2>1, <2>2, <2>3, <2>4 DEF Sent
<1>7. CASE EndProcess
  <2>1. CASE held = <<>>
    <3>1. \E b : held = <<>> /\ reader'.held = <<b>> /\ reader'.seq = reader.seq + 1
      <4>1. PICK error :
              reader' = [reader EXCEPT !.pc = "send", !.held = <<Buffer(reader.seq,
                Content(reader.file, 1, 0, "sparse", error))>>, !.seq = reader.seq + 1]
        BY <1>7, <2>1 DEF EndProcess
      <4>2. QED BY <1>1, <2>1, <4>1
    <3>2. QED BY <1>3, <3>1
  <2>2. CASE held # <<>>
    <3>1. PICK b : reader'.held = <<b>> /\ reader'.seq = reader.seq
      BY <1>1, <1>7, <2>2 DEF EndProcess
    <3>2. Len(held) < 2
      BY <1>7 DEF EndProcess
    <3>3. Len(held) = 1
      BY <1>1, <2>2, <3>2, OnlyOne
    <3>4. Len(<<b>>) = 1
      OBVIOUS
    <3>5. QED BY <3>1, <3>3, <3>4 DEF Sent
  <2>3. QED BY <2>1, <2>2
<1>8. QED BY <1>2, <1>4, <1>5, <1>6, <1>7

LEMMA SentMore ==
  ASSUME ReaderInv, SendBlock \/ SendError
  PROVE  Sent' = Sent + 1 /\ reader.held # <<>>
<1>1. /\ reader.seq \in Nat /\ reader.held \in Seq(Buffers) /\ Len(reader.held) \in Nat
      /\ (reader.held = <<>> <=> Len(reader.held) = 0)
      /\ reader = [pc |-> reader.pc, file |-> reader.file, seq |-> reader.seq,
                   blocks |-> reader.blocks, tail |-> reader.tail,
                   count |-> reader.count, held |-> reader.held]
  BY ReaderFields
<1>2. reader.held # <<>>
  <2>1. CASE SendBlock
    <3>1. Len(reader.held) = 2 \/ reader.held # <<>>
      BY <2>1 DEF SendBlock
    <3>2. Len(<<>>) = 0 /\ 2 # 0
      OBVIOUS
    <3>3. QED BY <3>1, <3>2, Zenon
  <2>2. CASE SendError
    BY <2>2 DEF SendError
  <2>3. QED BY <2>1, <2>2
<1>3. ASSUME Len(reader.held) = 1, reader'.seq = reader.seq, reader'.held = <<>>
      PROVE  Sent' = Sent + 1
  <2>1. Len(<<>>) = 0
    OBVIOUS
  <2>2. QED BY <1>1, <1>3, <2>1 DEF Sent
<1>4. CASE SendBlock
  <2>1. CASE reader.pc = "process"
    <3>1. reader'.seq = reader.seq /\ reader'.held = Tail(reader.held)
      BY <1>1, <1>4, <2>1 DEF SendBlock
    <3>2. Len(Tail(reader.held)) = Len(reader.held) - 1
      BY <1>1, <1>2, TailIs
    <3>3. reader.seq - (Len(reader.held) - 1) = reader.seq - Len(reader.held) + 1
      BY <1>1
    <3>4. QED BY <1>2, <3>1, <3>2, <3>3 DEF Sent
  <2>2. CASE reader.pc # "process"
    <3>1. Len(reader.held) = 1
      BY <1>2, <2>2, HeldAlone
    <3>2. Tail(reader.held) = <<>>
      <4>1. Tail(reader.held) \in Seq(Buffers) /\ Len(Tail(reader.held)) = 0
        BY <1>1, <1>2, <3>1, TailIs
      <4>2. QED BY <4>1, EmptySeq
    <3>3. reader'.seq = reader.seq /\ reader'.held = <<>>
      BY <1>1, <1>4, <3>2 DEF SendBlock, Closed
    <3>4. QED BY <1>2, <1>3, <3>1, <3>3
  <2>3. QED BY <2>1, <2>2
<1>5. CASE SendError
  <2>1. Head(reader.held).content.error # 0
    BY <1>5 DEF SendError
  <2>2. Len(reader.held) = 1
    BY <1>2, <2>1, HeldAlone
  <2>3. reader'.seq = reader.seq /\ reader'.held = <<>>
    <3>1. CASE reader' = Closed(reader.file + 1)
      BY <3>1 DEF Closed
    <3>2. ASSUME NEW blocks, NEW tail,
                 reader' = [Closed(reader.file) EXCEPT !.pc = "file", !.blocks = blocks,
                                                       !.tail = tail]
          PROVE  reader'.seq = reader.seq /\ reader'.held = <<>>
      BY <3>2 DEF Closed
    <3>3. QED BY <1>5, <3>1, <3>2 DEF SendError
  <2>4. QED BY <1>2, <1>3, <2>2, <2>3
<1>6. QED BY <1>4, <1>5

(* What changes the queues between the reader and main.                    *)
flowVars == <<from_reader, from_deflate, deflator, block_hash, sequence>>

LEMMA FlowStill ==
  ASSUME [Next]_vars, ~SendBlock, ~SendError, ~GetBuffer, \A d \in Deflators : ~Deflate(d)
  PROVE  UNCHANGED flowVars
<1> USE DEF flowVars, vars, readerKeeps, fragVars, mainVars, writerVars, deflatorKeeps,
            sourceVars, mainKeeps
<1>1. CASE Open \/ ReadBlock \/ ReadEmpty \/ ReadProcess \/ EndProcess
  BY <1>1 DEF Open, ReadBlock, ReadEmpty, ReadProcess, EndProcess
<1>2. CASE Main
  <2>1. CASE Fetch \/ Fetched \/ Duplicate \/ NotDuplicate \/ FillWrites \/ Fill
    BY <2>1 DEF Fetch, Fetched, Duplicate, NotDuplicate, FillWrites, Fill
  <2>2. CASE AskFlush \/ Flushed \/ Unlock \/ Finish
    BY <2>2 DEF AskFlush, Flushed, Unlock, Finish
  <2>3. QED BY <1>2, <2>1, <2>2 DEF Main
<1>3. CASE Writer
  BY <1>3 DEF Writer
<1>4. ASSUME NEW d \in FragDeflators, DeflateFragment(d)
      PROVE  UNCHANGED flowVars
  BY <1>4 DEF DeflateFragment, TakeFragment, CompressFragment, SettleFragment,
              AddPendingFragment
<1>5. CASE UNCHANGED vars
  BY <1>5
<1>6. QED BY <1>1, <1>2, <1>3, <1>4, <1>5 DEF Next, Reader

LEMMA FlowSame ==
  ASSUME FlowInv, UNCHANGED flowVars
  PROVE  FlowTyped' /\ Apart' /\ Sound' /\ InFlight' = InFlight /\ sequence' = sequence
<1> USE DEF flowVars
<1>1. Carried' = Carried
  BY DEF Carried
<1>2. InFlight' = InFlight
  BY <1>1 DEF InFlight
<1>3. FlowTyped'
  BY DEF FlowInv, FlowTyped
<1>4. Apart'
  BY <1>1 DEF FlowInv, Apart, Busy
<1>5. Sound'
  BY <1>2 DEF FlowInv, Sound
<1>6. QED BY <1>2, <1>3, <1>4, <1>5

(* A buffer that is not under way has a new number.                        *)
LEMMA NotYet ==
  ASSUME Numbered, sequence \in Nat, Sent \in Int, NEW b, b.sequence = Sent
  PROVE  b \notin InFlight
BY DEF Numbered

LEMMA SendFlow ==
  ASSUME ReaderInv, FlowInv, SendBlock \/ SendError
  PROVE  /\ FlowTyped' /\ Apart' /\ Sound'
         /\ \E b : Sends(b) /\ b.sequence = Sent
<1> DEFINE b == Head(reader.held)
<1>1. Sent' = Sent + 1 /\ reader.held # <<>>
  BY SentMore
<1>2. b \in Buffers /\ b.sequence = Sent /\ Good(b.content)
  BY <1>1, HeadHeld
<1>3. /\ UNCHANGED <<deflator, block_hash, sequence>>
      /\ \/ from_reader' = Append(from_reader, b) /\ from_deflate' = from_deflate
            /\ b.content.error = 0
         \/ from_reader' = from_reader /\ from_deflate' = Append(from_deflate, b)
  BY DEF SendBlock, SendError, readerKeeps, mainVars
<1> HIDE DEF b
<1>4. b \notin InFlight
  BY <1>2, NotYet, SentTyped DEF FlowInv, FlowTyped
<1>5. /\ b \notin Range(from_reader) /\ b \notin Range(from_deflate)
      /\ b \notin Carried /\ b \notin block_hash
  BY <1>4 DEF InFlight
<1>6. Carried' = Carried
  BY <1>3 DEF Carried
<1>7. /\ from_reader \in Seq(Buffers) /\ from_deflate \in Seq(Buffers)
      /\ IsInjective(from_reader) /\ IsInjective(from_deflate)
  BY DEF FlowInv, FlowTyped, Apart
<1>8. CASE /\ from_reader' = Append(from_reader, b) /\ from_deflate' = from_deflate
           /\ b.content.error = 0
  <2>1. Range(from_reader') = Range(from_reader) \cup {b} /\ IsInjective(from_reader')
    BY <1>2, <1>5, <1>7, <1>8, AppendOnce
  <2>2. InFlight' = InFlight \cup {b}
    BY <1>3, <1>6, <1>8, <2>1 DEF InFlight
  <2>3. FlowTyped'
    <3>1. from_reader' \in Seq(Buffers)
      BY <1>2, <1>7, <1>8, AppendIs
    <3>2. QED BY <1>3, <1>8, <3>1 DEF FlowInv, FlowTyped
  <2>4. Apart'
    BY <1>3, <1>5, <1>6, <1>8, <2>1 DEF FlowInv, Apart, Busy
  <2>5. Sound'
    BY <1>2, <1>3, <1>8, <2>1, <2>2 DEF FlowInv, Sound
  <2>6. Sends(b)
    BY <1>1, <1>3, <2>2 DEF Sends, b
  <2>7. QED BY <1>2, <2>3, <2>4, <2>5, <2>6
<1>9. CASE from_reader' = from_reader /\ from_deflate' = Append(from_deflate, b)
  <2>1. Range(from_deflate') = Range(from_deflate) \cup {b} /\ IsInjective(from_deflate')
    BY <1>2, <1>5, <1>7, <1>9, AppendOnce
  <2>2. InFlight' = InFlight \cup {b}
    BY <1>3, <1>6, <1>9, <2>1 DEF InFlight
  <2>3. FlowTyped'
    <3>1. from_deflate' \in Seq(Buffers)
      BY <1>2, <1>7, <1>9, AppendIs
    <3>2. QED BY <1>3, <1>9, <3>1 DEF FlowInv, FlowTyped
  <2>4. Apart'
    BY <1>3, <1>5, <1>6, <1>9, <2>1 DEF FlowInv, Apart, Busy
  <2>5. Sound'
    BY <1>2, <1>3, <1>9, <2>1, <2>2 DEF FlowInv, Sound
  <2>6. Sends(b)
    BY <1>1, <1>3, <2>2 DEF Sends, b
  <2>7. QED BY <1>2, <2>3, <2>4, <2>5, <2>6
<1>10. QED BY <1>3, <1>8, <1>9

LEMMA DeflateFlow ==
  ASSUME FlowInv, NEW d \in Deflators, Deflate(d)
  PROVE  FlowTyped' /\ Apart' /\ Sound' /\ InFlight' = InFlight /\ sequence' = sequence
<1> USE DEF deflatorKeeps, mainVars
<1>1. /\ from_reader \in Seq(Buffers) /\ from_deflate \in Seq(Buffers)
      /\ IsInjective(from_reader) /\ IsInjective(from_deflate)
      /\ FlowTyped /\ Apart /\ Sound
      /\ deflator \in [Deflators -> {Fresh} \cup [state : {"compress", "put"}, buffer : Buffers]]
  BY DEF FlowInv, FlowTyped, Apart
<1>2. CASE TakeBlock(d)
  <2> DEFINE b == Head(from_reader)
             s == IF b.content.kind = "data" THEN "compress" ELSE "put"
  <2>1. /\ ~Busy(d) /\ from_reader # <<>> /\ from_reader' = Tail(from_reader)
        /\ UNCHANGED <<from_deflate, block_hash, sequence>>
        /\ deflator' = [deflator EXCEPT ![d] = [state |-> s, buffer |-> b]]
    BY <1>2 DEF TakeBlock, Busy
  <2>2. /\ IsInjective(from_reader') /\ Range(from_reader') = Range(from_reader) \ {b}
        /\ b \in Range(from_reader)
    BY <1>1, <2>1, TailOnce
  <2>3. b \notin Carried /\ s \in {"compress", "put"} /\ b \in InFlight
    BY <1>1, <2>2 DEF Apart, InFlight
  <2>4. b \in Buffers /\ from_reader' \in Seq(Buffers)
    BY <1>1, <2>1, TailIs
  <2>5. IsData(b) \/ s # "compress"
    BY <1>1, <2>2 DEF Sound, IsData
  <2> HIDE DEF b, s
  <2>6. /\ Carried' = Carried \cup {b}
        /\ \A x, y \in Deflators :
             Busy(x)' /\ Busy(y)' /\ deflator'[x].buffer = deflator'[y].buffer => x = y
    BY <1>1, <2>1, <2>3, CarriedMore
  <2>7. InFlight' = InFlight
    BY <2>1, <2>2, <2>6 DEF InFlight
  <2>8. FlowTyped'
    <3>1. [state |-> s, buffer |-> b] \in [state : {"compress", "put"}, buffer : Buffers]
      BY <2>3, <2>4
    <3>2. deflator' \in [Deflators -> {Fresh} \cup [state : {"compress", "put"}, buffer : Buffers]]
      BY <1>1, <2>1, <3>1
    <3>3. QED BY <1>1, <2>1, <2>4, <3>2 DEF FlowTyped
  <2>9. Apart'
    BY <1>1, <2>1, <2>2, <2>6 DEF Apart
  <2>10. Sound'
    <3>1. \A x \in Deflators : deflator'[x].state = "compress" => IsData(deflator'[x].buffer)
      <4>1. \A x \in Deflators : /\ x # d => deflator'[x] = deflator[x]
                                 /\ x = d => deflator'[x] = [state |-> s, buffer |-> b]
        BY <1>1, <2>1
      <4>2. QED BY <1>1, <2>5, <4>1 DEF Sound
    <3>2. QED BY <1>1, <2>2, <2>7, <3>1 DEF Sound
  <2>11. QED BY <2>1, <2>7, <2>8, <2>9, <2>10
<1>3. CASE Compress(d)
  <2>1. /\ deflator[d].state = "compress" /\ deflator' = [deflator EXCEPT ![d].state = "put"]
        /\ UNCHANGED <<from_reader, from_deflate, block_hash, sequence>>
    BY <1>3 DEF Compress
  <2>2. /\ Carried' = Carried
        /\ \A x, y \in Deflators :
             Busy(x)' /\ Busy(y)' /\ deflator'[x].buffer = deflator'[y].buffer => x = y
    BY <1>1, <2>1, CarriedSame
  <2>3. InFlight' = InFlight
    BY <2>1, <2>2 DEF InFlight
  <2>4. deflator[d] \in [state : {"compress", "put"}, buffer : Buffers]
    BY <1>1, <2>1, BusyTyped DEF Busy
  <2>5. /\ deflator' = [deflator EXCEPT ![d] = [state |-> "put", buffer |-> deflator[d].buffer]]
        /\ [state |-> "put", buffer |-> deflator[d].buffer]
             \in [state : {"compress", "put"}, buffer : Buffers]
    <3>1. [deflator[d] EXCEPT !.state = "put"] = [state |-> "put", buffer |-> deflator[d].buffer]
      BY <2>4
    <3>2. deflator' = [deflator EXCEPT ![d] = [deflator[d] EXCEPT !.state = "put"]]
      BY <2>1
    <3>3. deflator[d].buffer \in Buffers
      BY <2>4
    <3>4. QED BY <3>1, <3>2, <3>3
  <2>6. FlowTyped'
    BY <1>1, <2>1, <2>5 DEF FlowTyped
  <2>7. Apart'
    BY <1>1, <2>1, <2>2 DEF Apart
  <2>8. Sound'
    <3>1. \A x \in Deflators : deflator'[x].state = "compress" => deflator'[x] = deflator[x]
      BY <1>1, <2>5
    <3>2. QED BY <1>1, <2>1, <2>3, <3>1 DEF Sound
  <2>9. QED BY <2>1, <2>3, <2>6, <2>7, <2>8
<1>4. CASE PutBlock(d)
  <2> DEFINE b == deflator[d].buffer
  <2>1. /\ Busy(d) /\ from_deflate' = Append(from_deflate, b)
        /\ deflator' = [deflator EXCEPT ![d] = Fresh]
        /\ UNCHANGED <<from_reader, block_hash, sequence>>
    BY <1>4 DEF PutBlock, Busy
  <2>2. b \in Buffers /\ b \in Carried
    BY <1>1, <2>1, BusyTyped
  <2>3. /\ Carried' = Carried \ {b}
        /\ \A x, y \in Deflators :
             Busy(x)' /\ Busy(y)' /\ deflator'[x].buffer = deflator'[y].buffer => x = y
    BY <1>1, <2>1, CarriedFewer
  <2>4. b \notin Range(from_deflate) /\ b \notin Range(from_reader) /\ b \notin block_hash
    BY <1>1, <2>2 DEF Apart
  <2> HIDE DEF b
  <2>5. /\ Range(from_deflate') = Range(from_deflate) \cup {b} /\ IsInjective(from_deflate')
        /\ from_deflate' \in Seq(Buffers)
    BY <1>1, <2>1, <2>2, <2>4, AppendOnce, AppendIs
  <2>6. InFlight' = InFlight
    BY <2>1, <2>2, <2>3, <2>5 DEF InFlight
  <2>7. FlowTyped'
    <3>1. deflator' \in [Deflators -> {Fresh} \cup [state : {"compress", "put"}, buffer : Buffers]]
      BY <1>1, <2>1
    <3>2. QED BY <1>1, <2>1, <2>5, <3>1 DEF FlowTyped
  <2>8. Apart'
    BY <1>1, <2>1, <2>3, <2>4, <2>5 DEF Apart
  <2>9. Sound'
    <3>1. \A x \in Deflators : deflator'[x].state = "compress" => deflator'[x] = deflator[x]
      BY <1>1, <2>1 DEF Fresh
    <3>2. QED BY <1>1, <2>1, <2>6, <3>1 DEF Sound
  <2>10. QED BY <2>1, <2>6, <2>7, <2>8, <2>9
<1>5. QED BY <1>2, <1>3, <1>4 DEF Deflate

LEMMA GetFlow ==
  ASSUME ReaderInv, FlowInv, GetBuffer
  PROVE  /\ FlowTyped' /\ Apart' /\ Sound'
         /\ \/ Kept /\ UNCHANGED <<main, fragments_locked, reader_buffer, to_writer>>
            \/ \E b : Gets(b)
<1>1. /\ from_deflate \in Seq(Buffers) /\ block_hash \in SUBSET Buffers
      /\ IsInjective(from_deflate) /\ sequence \in Nat
      /\ FlowTyped /\ Apart /\ Sound /\ Numbered
  BY DEF FlowInv, FlowTyped, Apart
<1>2. /\ UNCHANGED <<reader, from_reader, deflator>> /\ main.pc = "get"
      /\ Carried' = Carried /\ Sent' = Sent
  BY DEF GetBuffer, readerVars, Carried, Sent
<1>3. CASE InHash # {}
  <2>1. PICK b \in InHash : Handle(b.content)
    BY <1>3 DEF GetBuffer
  <2>2. block_hash' = block_hash \ InHash /\ from_deflate' = from_deflate
    BY <1>3 DEF GetBuffer
  <2>3. b \in InFlight /\ b \in block_hash /\ b.sequence = sequence
    BY <2>1 DEF InFlight, InHash
  <2>4. InHash = {b}
    <3>1. \A e \in InHash : e \in InFlight /\ e.sequence = sequence
      BY DEF InHash, InFlight
    <3>2. \A e \in InHash : e = b
      BY <1>1, <2>3, <3>1 DEF Numbered
    <3>3. QED BY <2>1, <3>2
  <2>5. InFlight' = InFlight \ {b}
    BY <1>1, <1>2, <2>2, <2>3, <2>4 DEF InFlight, Apart
  <2>6. sequence' = sequence + 1
    BY <2>1 DEF Handle
  <2>7. Gets(b)
    BY <1>2, <2>1, <2>3, <2>5, <2>6 DEF Gets
  <2>8. FlowTyped'
    BY <1>1, <1>2, <2>2, <2>6 DEF FlowTyped
  <2>9. Apart'
    BY <1>1, <1>2, <2>2 DEF Apart, Busy
  <2>10. Sound'
    BY <1>1, <1>2, <2>2, <2>5 DEF Sound
  <2>11. QED BY <2>7, <2>8, <2>9, <2>10
<1>4. CASE InHash = {}
  <2> DEFINE b == Head(from_deflate)
  <2>1. /\ from_deflate # <<>> /\ from_deflate' = Tail(from_deflate)
        /\ \/ b.sequence = sequence /\ Handle(b.content) /\ block_hash' = block_hash
           \/ /\ block_hash' = block_hash \cup {b}
              /\ UNCHANGED <<main, sequence, fragments_locked, reader_buffer, to_writer>>
    BY <1>4 DEF GetBuffer
  <2>2. /\ IsInjective(from_deflate') /\ Range(from_deflate') = Range(from_deflate) \ {b}
        /\ b \in Range(from_deflate) /\ b \in Buffers /\ from_deflate' \in Seq(Buffers)
    BY <1>1, <2>1, TailOnce, TailIs
  <2>3. b \in InFlight
    BY <2>2 DEF InFlight
  <2> HIDE DEF b
  <2>4. CASE b.sequence = sequence /\ Handle(b.content) /\ block_hash' = block_hash
    <3>1. InFlight' = InFlight \ {b}
      BY <1>1, <1>2, <2>2, <2>4 DEF InFlight, Apart
    <3>2. sequence' = sequence + 1
      BY <2>4 DEF Handle
    <3>3. Gets(b)
      BY <1>2, <2>3, <2>4, <3>1, <3>2 DEF Gets
    <3>4. FlowTyped'
      BY <1>1, <1>2, <2>2, <2>4, <3>2 DEF FlowTyped
    <3>5. Apart'
      BY <1>1, <1>2, <2>2, <2>4 DEF Apart, Busy
    <3>6. Sound'
      BY <1>1, <1>2, <3>1 DEF Sound
    <3>7. QED BY <3>3, <3>4, <3>5, <3>6
  <2>5. CASE /\ block_hash' = block_hash \cup {b}
             /\ UNCHANGED <<main, sequence, fragments_locked, reader_buffer, to_writer>>
    <3>1. InFlight' = InFlight
      BY <1>2, <2>2, <2>5 DEF InFlight
    <3>2. Kept
      BY <1>2, <2>5, <3>1 DEF Kept
    <3>3. FlowTyped'
      BY <1>1, <1>2, <2>2, <2>5 DEF FlowTyped
    <3>4. Apart'
      BY <1>1, <1>2, <2>2, <2>5 DEF Apart, Busy
    <3>5. Sound'
      BY <1>1, <1>2, <3>1 DEF Sound
    <3>6. QED BY <2>5, <3>2, <3>3, <3>4, <3>5
  <2>6. QED BY <2>1, <2>4, <2>5
<1>5. QED BY <1>3, <1>4

(* Every step is one of the three.                                         *)
LEMMA FlowCases ==
  ASSUME ReaderInv, FlowInv, [Next]_vars
  PROVE  /\ FlowTyped' /\ Apart' /\ Sound'
         /\ \/ Kept /\ ~(SendBlock \/ SendError)
            \/ \E b : Sends(b) /\ b.sequence = Sent /\ (SendBlock \/ SendError)
            \/ \E b : Gets(b) /\ GetBuffer
<1>1. CASE SendBlock \/ SendError
  BY <1>1, SendFlow
<1>2. CASE GetBuffer /\ ~(SendBlock \/ SendError)
  BY <1>2, GetFlow
<1>3. ASSUME NEW d \in Deflators, Deflate(d)
      PROVE  FlowTyped' /\ Apart' /\ Sound' /\ Kept
  <2>1. reader' = reader
    BY <1>3 DEF Deflate, TakeBlock, Compress, PutBlock, deflatorKeeps, readerVars
  <2>2. QED BY <1>3, <2>1, DeflateFlow DEF Kept, Sent
<1>4. CASE /\ ~SendBlock /\ ~SendError /\ ~GetBuffer
           /\ \A d \in Deflators : ~Deflate(d)
  <2>1. UNCHANGED flowVars
    BY <1>4, FlowStill
  <2>2. Sent' = Sent
    <3>1. CASE Reader
      BY <1>4, <3>1, SentKept DEF Reader
    <3>2. CASE ~Reader
      BY <3>2, ReaderOnly DEF Sent
    <3>3. QED BY <3>1, <3>2
  <2>3. QED BY <1>4, <2>1, <2>2, FlowSame DEF Kept
<1>5. QED BY <1>1, <1>2, <1>3, <1>4

LEMMA FlowStep ==
  ASSUME ReaderInv, FlowInv, [Next]_vars
  PROVE  FlowInv'
<1>1. \/ Kept
      \/ \E b : Sends(b) /\ b.sequence = Sent
      \/ \E b : Gets(b)
  BY FlowCases
<1>2. FlowTyped' /\ Apart' /\ Sound'
  BY FlowCases
<1>3. Numbered /\ sequence \in Nat /\ Sent \in Int
  BY SentTyped DEF FlowInv, FlowTyped
<1>4. \A b \in InFlight : b.sequence \in Nat
  BY InFlightTyped DEF FlowInv, Buffers
<1>5. Numbered'
  BY <1>1, <1>3, <1>4, NumberedStep
<1>6. QED BY <1>2, <1>5 DEF FlowInv

LEMMA FlowAlways == Spec => []FlowInv
<1>1. ReaderInv /\ FlowInv /\ [Next]_vars => FlowInv'
  BY FlowStep
<1>2. QED BY FlowInit, ReaderAlways, <1>1, PTL DEF Spec

-----------------------------------------------------------------------------
(* Places in the input: the number of a file and of a block in it, and     *)
(* what is known of the size of that file (0 before its first block, -1    *)
(* for the output of a process).                                           *)
Spot(file, block, size) == [file |-> file, block |-> block, size |-> size]

(* c is the last that is sent of its file.                                 *)
Ends(c) == c.error # 0 \/ c.file_size \in {0, c.block}

(* The place after c: a file that changed is read again from its start.    *)
After(c) == IF c.error = 2 THEN Spot(c.file, 1, 0)
            ELSE IF Ends(c) THEN Spot(c.file + 1, 1, 0)
            ELSE Spot(c.file, c.block + 1, c.file_size)

Fits(p, c) ==
  /\ c.file = p.file /\ c.block = p.block
  /\ p.block > 1 => IF p.size = -1 THEN c.file_size \in {-1, c.block}
                    ELSE c.file_size = p.size

(* Where main is, ...                                                      *)
MainPlace(m) ==
  IF m.mode = "none" THEN Spot(m.files + 1, 1, 0)
  ELSE IF m.pc = "get"
  THEN Spot(m.files + 1, m.got + 1, IF m.mode = "process" THEN -1 ELSE m.blocks)
  ELSE Spot(IF m.redo THEN m.files + 1 ELSE m.files + 2, 1, 0)

(* ... and what the reader sends next.                                     *)
SentPlace(r) ==
  LET block == IF r.held # <<>> THEN r.held[1].content.block ELSE r.count + 1
  IN Spot(r.file, block,
            IF block = 1 THEN 0 ELSE IF r.pc = "file" THEN r.blocks ELSE -1)

(* From the one to the other, each buffer under way is followed by the one *)
(* for the place after it.                                                 *)
Chain ==
  /\ sequence = Sent => MainPlace(main) = SentPlace(reader)
  /\ \A b \in InFlight :
       /\ b.sequence = sequence => Fits(MainPlace(main), b.content)
       /\ b.sequence = Sent - 1 => After(b.content) = SentPlace(reader)
       /\ \A e \in InFlight :
            e.sequence = b.sequence + 1 => Fits(After(b.content), e.content)

MainTyped ==
  main \in [pc : {"get", "fill", "compare", "fetch", "decide", "truncate", "flush",
                  "unlock", "finished"},
            next : {"get", "fill"},
            mode : {"none", "fragment", "blocks", "dup", "process"},
            files : 0 .. MaxFiles, blocks : -1 .. MaxBlocks, got : Nat, thresh : Nat,
            held : Nat, tail : {0, 1}, redo : BOOLEAN]

(* What main does at each point of a file, and what it then holds.         *)
MainShape(m) ==
  /\ m.mode = "none" => /\ m.pc \in {"get", "finished"} /\ m.next = "get"
                        /\ m.got = 0 /\ m.held = 0 /\ m.tail = 0 /\ ~m.redo
  /\ m.mode # "none" => m.files < MaxFiles /\ m.pc # "finished"
  /\ m.mode = "fragment" => m.pc \in {"compare", "fetch", "decide", "fill"} /\ m.tail = 1
  /\ m.mode \in {"blocks", "process"} => m.pc \notin {"compare", "fetch", "decide"}
  /\ m.mode # "dup" => m.held = 0
  /\ m.pc \in {"get", "compare", "fetch", "decide", "fill"} => ~m.redo
  /\ m.pc = "get" => m.tail = 0 /\ m.next = "get"
  /\ m.pc = "get" /\ m.mode # "none" =>
       m.got >= 1 /\ (m.mode # "process" => m.got < m.blocks)
  /\ m.pc = "fill" => m.tail = 1 /\ m.held = 0
  /\ m.next = "fill" => m.tail = 1 /\ m.held = 0 /\ ~m.redo /\ m.mode # "dup"

(* fragment_mutex is not held, but fragments_locked set, from the first    *)
(* block of a file until unlock_fragments.                                 *)
InFile(m) == m.mode \in {"blocks", "dup", "process"} /\ (m.pc # "fill" \/ m.mode = "dup")

MainInv == MainTyped /\ MainShape(main) /\ (InFile(main) => fragments_locked)

LEMMA MainFields ==
  ASSUME MainTyped
  PROVE  /\ main = [pc |-> main.pc, next |-> main.next, mode |-> main.mode,
                    files |-> main.files, blocks |-> main.blocks, got |-> main.got,
                    thresh |-> main.thresh, held |-> main.held, tail |-> main.tail,
                    redo |-> main.redo]
         /\ main.pc \in {"get", "fill", "compare", "fetch", "decide", "truncate", "flush",
                         "unlock", "finished"}
         /\ main.next \in {"get", "fill"}
         /\ main.mode \in {"none", "fragment", "blocks", "dup", "process"}
         /\ main.files \in 0 .. MaxFiles /\ main.blocks \in -1 .. MaxBlocks
         /\ main.got \in Nat /\ main.thresh \in Nat /\ main.held \in Nat
         /\ main.tail \in {0, 1} /\ main.redo \in BOOLEAN
BY DEF MainTyped

LEMMA MainInit == Init => MainInv /\ Chain
<1> SUFFICES ASSUME Init PROVE MainInv /\ Chain
  OBVIOUS
<1>1. main = [pc |-> "get", next |-> "get", mode |-> "none", files |-> 0, blocks |-> 0,
              got |-> 0, thresh |-> 0, held |-> 0, tail |-> 0, redo |-> FALSE]
  BY DEF Init, Between
<1>2. MainTyped
  BY <1>1 DEF MainTyped
<1>3. MainShape(main) /\ ~InFile(main) /\ MainPlace(main) = Spot(1, 1, 0)
  BY <1>1 DEF MainShape, InFile, MainPlace
<1>4. SentPlace(reader) = Spot(1, 1, 0)
  BY DEF Init, SentPlace
<1>5. InFlight = {}
  <2>1. \A d \in Deflators : deflator[d].state = "idle"
    BY DEF Init, Fresh
  <2>2. Carried = {} /\ Range(<<>>) = {}
    BY <2>1 DEF Carried, Range
  <2>3. QED BY <2>2 DEF Init, InFlight
<1>6. QED BY <1>2, <1>3, <1>4, <1>5 DEF MainInv, Chain

-----------------------------------------------------------------------------
(* Main.                                                                   *)

LEMMA ThreshTyped ==
  ASSUME fragments_outstanding \in Nat, NEW n \in -1 .. MaxBlocks
  PROVE  Thresh(n) \in Nat
BY DEF Thresh

(* A block is placed in a file m of main.                                  *)
PlacedPc(m, c) == IF ~IsLast(m, c) THEN "get"
                  ELSE IF m.mode = "dup" THEN "compare" ELSE "unlock"
PlacedTail(c) == IF c.kind = "fragment" THEN 1 ELSE 0
PlacedNext(m, c) == IF c.kind = "fragment" /\ m.mode # "dup" THEN "fill" ELSE "get"
PlacedHeld(m, c) == IF c.kind = "data" /\ m.mode = "dup" /\ m.got >= m.thresh
                    THEN m.held + 1 ELSE m.held

LEMMA PlaceIs ==
  ASSUME NEW m, NEW c,
         m = [pc |-> m.pc, next |-> m.next, mode |-> m.mode, files |-> m.files,
              blocks |-> m.blocks, got |-> m.got, thresh |-> m.thresh, held |-> m.held,
              tail |-> m.tail, redo |-> m.redo],
         Place(m, c)
  PROVE  main' = [pc |-> PlacedPc(m, c), next |-> PlacedNext(m, c), mode |-> m.mode,
                  files |-> m.files, blocks |-> m.blocks, got |-> m.got + 1,
                  thresh |-> m.thresh, held |-> PlacedHeld(m, c), tail |-> PlacedTail(c),
                  redo |-> m.redo]
<1> DEFINE tail == IF c.kind = "fragment" THEN 1 ELSE 0
           hold == c.kind = "data" /\ m.mode = "dup" /\ m.got >= m.thresh
<1>1. main' = [m EXCEPT !.got = @ + 1,
                        !.held = IF hold THEN @ + 1 ELSE @,
                        !.tail = tail,
                        !.pc = IF ~IsLast(m, c) THEN "get"
                               ELSE IF m.mode = "dup" THEN "compare" ELSE "unlock",
                        !.next = IF tail = 1 /\ m.mode # "dup" THEN "fill" ELSE "get"]
  BY DEF Place
<1>2. tail = 1 <=> c.kind = "fragment"
  OBVIOUS
<1>3. main' = [m EXCEPT !.got = @ + 1, !.held = PlacedHeld(m, c), !.tail = PlacedTail(c),
                        !.pc = PlacedPc(m, c), !.next = PlacedNext(m, c)]
  BY <1>1, <1>2 DEF PlacedPc, PlacedNext, PlacedHeld, PlacedTail
<1>4. QED BY <1>3

(* The block is the next of the file; m is the file with the sizes set at  *)
(* its first block.                                                        *)
LEMMA PlaceStep ==
  ASSUME NEW m, NEW c \in Contents, Good(c), c.error = 0, Place(m, c),
         m = [pc |-> m.pc, next |-> m.next, mode |-> m.mode, files |-> m.files,
              blocks |-> m.blocks, got |-> m.got, thresh |-> m.thresh, held |-> m.held,
              tail |-> m.tail, redo |-> m.redo],
         m.mode \in {"blocks", "dup", "process"}, m.files \in 0 .. MaxFiles,
         m.files < MaxFiles, m.blocks \in -1 .. MaxBlocks, m.got \in Nat,
         m.thresh \in Nat, m.held \in Nat, m.mode # "dup" => m.held = 0, m.redo = FALSE,
         c.file = m.files + 1, c.block = m.got + 1,
         m.mode = "process" => c.file_size \in {-1, c.block} /\ c.file_size # 0,
         m.mode # "process" => c.file_size = m.blocks /\ m.blocks >= c.block
  PROVE  MainTyped' /\ MainShape(main') /\ MainPlace(main') = After(c)
         /\ main'.mode = m.mode
<1> DEFINE pc == PlacedPc(m, c)
           next == PlacedNext(m, c)
           held == PlacedHeld(m, c)
           tail == PlacedTail(c)
<1>1. /\ main' = [pc |-> pc, next |-> next, mode |-> m.mode, files |-> m.files,
                  blocks |-> m.blocks, got |-> m.got + 1, thresh |-> m.thresh,
                  held |-> held, tail |-> tail, redo |-> m.redo]
      /\ pc = IF ~IsLast(m, c) THEN "get" ELSE IF m.mode = "dup" THEN "compare"
              ELSE "unlock"
      /\ tail = IF c.kind = "fragment" THEN 1 ELSE 0
      /\ next = IF tail = 1 /\ m.mode # "dup" THEN "fill" ELSE "get"
      /\ held = IF c.kind = "data" /\ m.mode = "dup" /\ m.got >= m.thresh
                THEN m.held + 1 ELSE m.held
  BY PlaceIs DEF PlacedPc, PlacedNext, PlacedHeld, PlacedTail
<1> HIDE DEF pc, next, held, tail
<1>2. c.file_size \in -1 .. MaxBlocks /\ c.block \in 1 .. MaxBlocks /\ c.file \in 1 .. MaxFiles
      /\ c.error \in {0, 1, 2}
  BY DEF Contents
<1>3. IsLast(m, c) <=> Ends(c)
  <2>1. CASE m.mode = "process"
    BY <1>2, <2>1 DEF IsLast, Ends
  <2>2. CASE m.mode # "process"
    BY <1>2, <2>2 DEF IsLast, Ends
  <2>3. QED BY <2>1, <2>2
<1>4. held \in Nat /\ tail \in {0, 1} /\ next \in {"get", "fill"}
      /\ pc \in {"get", "compare", "unlock"}
  BY <1>1
<1>5. /\ main'.pc = pc /\ main'.next = next /\ main'.mode = m.mode /\ main'.files = m.files
      /\ main'.blocks = m.blocks /\ main'.got = m.got + 1 /\ main'.thresh = m.thresh
      /\ main'.held = held /\ main'.tail = tail /\ main'.redo = FALSE
  BY <1>1
<1>6. MainTyped'
  <2>1. m.got + 1 \in Nat /\ FALSE \in BOOLEAN
    OBVIOUS
  <2>2. main' = [pc |-> pc, next |-> next, mode |-> m.mode, files |-> m.files,
                 blocks |-> m.blocks, got |-> m.got + 1, thresh |-> m.thresh,
                 held |-> held, tail |-> tail, redo |-> FALSE]
    BY <1>1
  <2>3. QED BY <1>4, <2>1, <2>2 DEF MainTyped
<1>7. tail = 1 => Ends(c)
  BY <1>1 DEF Good, Ends
<1>8. MainShape(main')
  <2>1. pc = "get" => tail = 0 /\ next = "get"
    BY <1>1, <1>3, <1>7
  <2>2. m.mode # "dup" => held = 0
    BY <1>1
  <2>3. pc = "compare" => m.mode = "dup"
    BY <1>1
  <2>4. next = "fill" => tail = 1 /\ m.mode # "dup"
    BY <1>1
  <2>5. pc = "get" => m.got + 1 >= 1 /\ (m.mode # "process" => m.got + 1 < m.blocks)
    BY <1>1, <1>2 DEF IsLast
  <2>6. QED BY <1>4, <1>5, <2>1, <2>2, <2>3, <2>4, <2>5 DEF MainShape
<1>9. MainPlace(main') = After(c)
  <2>1. CASE Ends(c)
    <3>1. pc # "get"
      BY <1>1, <1>3, <2>1
    <3>2. MainPlace(main') = Spot(m.files + 2, 1, 0)
      BY <1>5, <3>1 DEF MainPlace
    <3>3. After(c) = Spot(c.file + 1, 1, 0)
      BY <2>1 DEF After
    <3>4. c.file + 1 = m.files + 2
      OBVIOUS
    <3>5. QED BY <3>2, <3>3, <3>4
  <2>2. CASE ~Ends(c)
    <3>1. pc = "get"
      BY <1>1, <1>3, <2>2
    <3>2. MainPlace(main') = Spot(m.files + 1, m.got + 1 + 1,
                                  IF m.mode = "process" THEN -1 ELSE m.blocks)
      BY <1>5, <3>1 DEF MainPlace
    <3>3. After(c) = Spot(c.file, c.block + 1, c.file_size)
      BY <2>2 DEF After
    <3>4. c.file_size = IF m.mode = "process" THEN -1 ELSE m.blocks
      BY <2>2 DEF Ends
    <3>5. QED BY <3>2, <3>3, <3>4
  <2>3. QED BY <2>1, <2>2
<1>10. QED BY <1>5, <1>6, <1>8, <1>9

(* Main is done with n files.                                              *)
LEMMA BetweenStep ==
  ASSUME NEW n \in 0 .. MaxFiles, main' = Between(n)
  PROVE  /\ MainTyped' /\ MainShape(main') /\ ~InFile(main')
         /\ MainPlace(main') = Spot(n + 1, 1, 0)
<1>1. main' = [pc |-> "get", next |-> "get", mode |-> "none", files |-> n, blocks |-> 0,
               got |-> 0, thresh |-> 0, held |-> 0, tail |-> 0, redo |-> FALSE]
  BY DEF Between
<1>2. 0 \in -1 .. MaxBlocks
  OBVIOUS
<1>3. MainTyped'
  BY <1>1, <1>2 DEF MainTyped
<1>4. QED BY <1>1, <1>3 DEF MainShape, InFile, MainPlace

(* What main does with the buffer it was waiting for.                      *)
LEMMA HandleStep ==
  ASSUME MainInv, fragments_outstanding \in Nat, main.pc = "get",
         NEW c \in Contents, Good(c), Fits(MainPlace(main), c), Handle(c)
  PROVE  MainInv' /\ MainPlace(main') = After(c)
<1>1. /\ main = [pc |-> main.pc, next |-> main.next, mode |-> main.mode,
                 files |-> main.files, blocks |-> main.blocks, got |-> main.got,
                 thresh |-> main.thresh, held |-> main.held, tail |-> main.tail,
                 redo |-> main.redo]
      /\ main.mode \in {"none", "fragment", "blocks", "dup", "process"}
      /\ main.files \in 0 .. MaxFiles /\ main.blocks \in -1 .. MaxBlocks
      /\ main.got \in Nat /\ main.thresh \in Nat /\ main.held \in Nat
  BY MainFields DEF MainInv
<1>2. /\ main.mode = "none" => main.got = 0 /\ main.held = 0
      /\ main.mode # "dup" => main.held = 0
      /\ main.redo = FALSE /\ main.tail = 0 /\ main.next = "get"
      /\ main.mode # "none" => /\ main.files < MaxFiles /\ main.got >= 1
                               /\ main.mode # "process" => main.got < main.blocks
                               /\ main.mode \in {"blocks", "dup", "process"}
      /\ main.mode \in {"blocks", "dup", "process"} => fragments_locked
  <2>1. MainShape(main) /\ (InFile(main) => fragments_locked)
    BY DEF MainInv
  <2>2. main.redo \in BOOLEAN
    BY MainFields DEF MainInv
  <2>3. QED BY <1>1, <2>1, <2>2 DEF MainShape, InFile
<1>3. /\ c.file_size \in -1 .. MaxBlocks /\ c.block \in 1 .. MaxBlocks
      /\ c.file \in 1 .. MaxFiles /\ c.error \in {0, 1, 2}
      /\ c.kind \in {"data", "sparse", "fragment"}
  BY DEF Contents
<1>4. CASE main.mode = "none"
  <2>1. WriteFile(c)
    BY <1>4 DEF Handle
  <2>2. c.file = main.files + 1 /\ c.block = 1
    BY <1>4 DEF Fits, MainPlace, Spot
  <2>3. main.files < MaxFiles
    BY <1>1, <1>3, <2>2
  <2>4. CASE NoBlocks(c) /\ main' = Between(IF c.error = 2 THEN main.files ELSE main.files + 1)
    <3> DEFINE n == IF c.error = 2 THEN main.files ELSE main.files + 1
    <3>1. n \in 0 .. MaxFiles
      BY <1>1, <2>3
    <3>2. main' = Between(n)
      BY <2>4
    <3>3. After(c) = Spot(n + 1, 1, 0)
      <4>1. Ends(c)
        BY <2>4 DEF NoBlocks, Ends
      <4>2. QED BY <1>1, <1>3, <2>2, <4>1 DEF After
    <3> HIDE DEF n
    <3>4. /\ MainTyped' /\ MainShape(main') /\ ~InFile(main')
          /\ MainPlace(main') = Spot(n + 1, 1, 0)
      BY <3>1, <3>2, BetweenStep
    <3>5. QED BY <3>3, <3>4 DEF MainInv
  <2>5. ASSUME ~NoBlocks(c), c.file_size # -1, c.kind = "fragment",
               NEW pc \in {"fill", "compare"},
               main' = [main EXCEPT !.pc = pc, !.mode = "fragment", !.tail = 1]
        PROVE  MainInv' /\ MainPlace(main') = After(c)
    <3>1. main' = [pc |-> pc, next |-> "get", mode |-> "fragment",
                   files |-> main.files, blocks |-> main.blocks, got |-> 0,
                   thresh |-> main.thresh, held |-> 0, tail |-> 1, redo |-> FALSE]
      BY <1>1, <1>2, <1>4, <2>5
    <3>2. MainTyped'
      BY <1>1, <3>1 DEF MainTyped
    <3>3. MainShape(main') /\ ~InFile(main')
      BY <1>1, <2>3, <3>1 DEF MainShape, InFile
    <3>4. MainPlace(main') = Spot(main.files + 2, 1, 0)
      BY <3>1 DEF MainPlace
    <3>5. c.error = 0 /\ Ends(c)
      BY <2>5 DEF Good, Ends
    <3>6. After(c) = Spot(main.files + 2, 1, 0)
      <4>1. c.file + 1 = main.files + 2
        BY <1>1, <2>2
      <4>2. QED BY <3>5, <4>1 DEF After
    <3>7. QED BY <3>2, <3>3, <3>4, <3>6 DEF MainInv
  <2>6. ASSUME ~NoBlocks(c),
               NEW mode \in IF c.file_size = -1 THEN {"process"} ELSE {"blocks", "dup"},
               Start(mode, c), fragments_locked' = TRUE
        PROVE  MainInv' /\ MainPlace(main') = After(c)
    <3> DEFINE thresh == IF mode = "dup" THEN Thresh(c.file_size) ELSE 0
               m == [main EXCEPT !.mode = mode, !.blocks = c.file_size, !.thresh = thresh]
    <3>1. Place(m, c)
      BY <2>6 DEF Start
    <3>2. thresh \in Nat
      BY <1>3, ThreshTyped
    <3> HIDE DEF thresh
    <3>3. m = [pc |-> "get", next |-> "get", mode |-> mode, files |-> main.files,
               blocks |-> c.file_size, got |-> 0, thresh |-> thresh, held |-> 0,
               tail |-> 0, redo |-> FALSE]
      <4>0. m = [main EXCEPT !.mode = mode, !.blocks = c.file_size, !.thresh = thresh]
        OBVIOUS
      <4> HIDE DEF m
      <4>1. m = [pc |-> main.pc, next |-> main.next, mode |-> mode, files |-> main.files,
                 blocks |-> c.file_size, got |-> main.got, thresh |-> thresh,
                 held |-> main.held, tail |-> main.tail, redo |-> main.redo]
        BY <1>1, <4>0
      <4>2. main.got = 0 /\ main.held = 0 /\ main.redo = FALSE /\ main.tail = 0
            /\ main.next = "get"
        BY <1>2, <1>4
      <4>3. QED BY <4>1, <4>2
    <3>4. c.error = 0 /\ c.file_size # 0
      BY <2>6 DEF NoBlocks
    <3> HIDE DEF m
    <3>5. /\ m.pc = "get" /\ m.next = "get" /\ m.mode = mode /\ m.files = main.files
          /\ m.blocks = c.file_size /\ m.got = 0 /\ m.thresh = thresh /\ m.held = 0
          /\ m.tail = 0 /\ m.redo = FALSE
          /\ m = [pc |-> m.pc, next |-> m.next, mode |-> m.mode, files |-> m.files,
              blocks |-> m.blocks, got |-> m.got, thresh |-> m.thresh, held |-> m.held,
              tail |-> m.tail, redo |-> m.redo]
      BY <3>3
    <3>6. c.block = m.got + 1 /\ c.file = m.files + 1 /\ m.got \in Nat /\ m.held \in Nat
      BY <2>2, <3>5
    <3>7. m.mode = "process" => c.file_size \in {-1, c.block} /\ c.file_size # 0
      BY <2>6, <3>5
    <3>8. m.mode # "process" => c.file_size = m.blocks /\ m.blocks >= c.block
      BY <1>3, <2>2, <2>6, <3>4, <3>5
    <3>9. m.mode \in {"blocks", "dup", "process"}
      BY <2>6, <3>5
    <3>10. MainTyped' /\ MainShape(main') /\ MainPlace(main') = After(c)
      <4>1. m.files \in 0 .. MaxFiles /\ m.files < MaxFiles /\ m.blocks \in -1 .. MaxBlocks
            /\ m.thresh \in Nat
        BY <1>1, <1>3, <2>3, <3>2, <3>5
      <4>2. QED BY <3>1, <3>4, <3>5, <3>6, <3>7, <3>8, <3>9, <4>1, PlaceStep
    <3>11. QED BY <2>6, <3>10 DEF MainInv
  <2>7. QED BY <2>1, <2>4, <2>5, <2>6 DEF WriteFile
<1>5. CASE main.mode # "none"
  <2>1. main.mode \in {"blocks", "dup", "process"} /\ main.files < MaxFiles /\ main.got >= 1
        /\ fragments_locked
    BY <1>2, <1>5
  <2>2. /\ IF c.error # 0 THEN GiveUp(main, c.error) ELSE Place(main, c)
        /\ fragments_locked' = fragments_locked
    BY <1>5 DEF Handle
  <2>3. /\ c.file = main.files + 1 /\ c.block = main.got + 1
        /\ IF main.mode = "process" THEN c.file_size \in {-1, c.block}
           ELSE c.file_size = main.blocks
    <3>1. MainPlace(main) = Spot(main.files + 1, main.got + 1,
                                 IF main.mode = "process" THEN -1 ELSE main.blocks)
      BY <1>5 DEF MainPlace
    <3>2. main.got + 1 > 1
      BY <1>1, <2>1
    <3>3. main.mode # "process" => main.blocks # -1
      BY <1>1, <1>2, <1>5
    <3>4. QED BY <3>1, <3>2, <3>3 DEF Fits, Spot
  <2>4. CASE c.error # 0
    <3>1. main' = [main EXCEPT !.pc = IF main.mode = "dup" /\ main.thresh = 0
                                      THEN "unlock" ELSE "truncate",
                               !.redo = (c.error = 2), !.tail = 1]
      BY <2>2, <2>4 DEF GiveUp
    <3>2. PICK pc \in {"unlock", "truncate"}, redo \in BOOLEAN :
            /\ main' = [main EXCEPT !.pc = pc, !.redo = redo, !.tail = 1]
            /\ redo <=> c.error = 2
      BY <3>1
    <3>3. main' = [pc |-> pc, next |-> "get", mode |-> main.mode,
                   files |-> main.files, blocks |-> main.blocks, got |-> main.got,
                   thresh |-> main.thresh, held |-> main.held, tail |-> 1, redo |-> redo]
      BY <1>1, <1>2, <3>2
    <3>4. MainTyped'
      BY <1>1, <3>3 DEF MainTyped
    <3>5. MainShape(main')
      BY <1>1, <1>2, <2>1, <3>3 DEF MainShape
    <3>6. MainPlace(main') = Spot(IF redo THEN main.files + 1 ELSE main.files + 2, 1, 0)
      BY <2>1, <3>3 DEF MainPlace
    <3>7. c.file + 1 = main.files + 2
      BY <1>1, <2>3
    <3>8. After(c) = Spot(IF redo THEN main.files + 1 ELSE main.files + 2, 1, 0)
      BY <2>3, <2>4, <3>2, <3>7 DEF After, Ends
    <3>9. QED BY <2>1, <2>2, <3>4, <3>5, <3>6, <3>8 DEF MainInv
  <2>5. CASE c.error = 0
    <3>1. Place(main, c)
      BY <2>2, <2>5
    <3>2. main.mode = "process" => c.file_size \in {-1, c.block} /\ c.file_size # 0
      BY <1>3, <2>3
    <3>3. main.mode # "process" => c.file_size = main.blocks /\ main.blocks >= c.block
      BY <1>1, <1>2, <1>5, <2>3
    <3>4. MainTyped' /\ MainShape(main') /\ MainPlace(main') = After(c)
      BY <1>1, <1>2, <2>1, <2>3, <2>5, <3>1, <3>2, <3>3, PlaceStep
    <3>5. QED BY <2>1, <2>2, <3>4 DEF MainInv
  <2>6. QED BY <2>4, <2>5
<1>6. QED BY <1>4, <1>5

-----------------------------------------------------------------------------
(* The fragments: those waiting for a frag_deflator, with one, or pending. *)

FragBusy == {d \in FragDeflators : frag_deflator[d] # "idle"}
FragDone == {d \in FragDeflators : frag_deflator[d] \in {"settle", "pend"}}

FragTyped ==
  /\ frag_deflator \in [FragDeflators -> {"idle", "compress", "settle", "pend"}]
  /\ to_frag \in 0 .. FragmentBuffers /\ frag_locked_list \in Nat
  /\ fragment_size \in {0, 1} /\ fragments \in Nat
  /\ fragment_buffer \in 0 .. FragmentBuffers

(* A fragment buffer is in use for the fragment being filled, and for each *)
(* one that waits or is compressed; it is given back when the block goes   *)
(* to the writer or the list, but it is outstanding until then.            *)
FragCounted ==
  /\ fragment_buffer = fragment_size + to_frag + Cardinality(FragBusy)
  /\ fragments_outstanding = to_frag + frag_locked_list + Cardinality(FragBusy)

FragInv == FragTyped /\ FragCounted

LEMMA FragFinite ==
  /\ IsFiniteSet(FragBusy) /\ Cardinality(FragBusy) \in Nat
  /\ IsFiniteSet(FragDone) /\ Cardinality(FragDone) \in Nat
<1>1. FragBusy \subseteq FragDeflators /\ FragDone \subseteq FragDeflators
  BY DEF FragBusy, FragDone
<1>2. IsFiniteSet(FragBusy) /\ IsFiniteSet(FragDone)
  BY <1>1, FS_Subset
<1>3. QED BY <1>2, FS_CardinalityType

LEMMA FragFiniteNext == Cardinality(FragBusy)' \in Nat /\ Cardinality(FragDone)' \in Nat
<1>1. FragBusy' \subseteq FragDeflators /\ FragDone' \subseteq FragDeflators
  BY DEF FragBusy, FragDone
<1>2. IsFiniteSet(FragBusy') /\ IsFiniteSet(FragDone')
  BY <1>1, FS_Subset
<1>3. QED BY <1>2, FS_CardinalityType

LEMMA OutstandingTyped ==
  ASSUME FragInv
  PROVE  fragments_outstanding \in Nat
BY FragFinite DEF FragInv, FragTyped, FragCounted

(* A frag_deflator goes from one state to the next.                        *)
LEMMA FragMoves ==
  ASSUME FragTyped, NEW d \in FragDeflators, NEW s \in {"idle", "compress", "settle", "pend"},
         frag_deflator' = [frag_deflator EXCEPT ![d] = s]
  PROVE  /\ frag_deflator' \in [FragDeflators -> {"idle", "compress", "settle", "pend"}]
         /\ Cardinality(FragBusy)' = Cardinality(FragBusy)
              + (IF s # "idle" THEN 1 ELSE 0)
              - (IF frag_deflator[d] # "idle" THEN 1 ELSE 0)
         /\ Cardinality(FragDone)' = Cardinality(FragDone)
              + (IF s \in {"settle", "pend"} THEN 1 ELSE 0)
              - (IF frag_deflator[d] \in {"settle", "pend"} THEN 1 ELSE 0)
<1>1. /\ frag_deflator \in [FragDeflators -> {"idle", "compress", "settle", "pend"}]
      /\ frag_deflator' \in [FragDeflators -> {"idle", "compress", "settle", "pend"}]
  BY DEF FragTyped
<1>2. \A x \in FragDeflators : frag_deflator'[x] = IF x = d THEN s ELSE frag_deflator[x]
  BY <1>1
<1>3. ASSUME NEW S, IsFiniteSet(S), NEW T, T = S \ {d} \/ T = S \cup {d} \/ T = S
      PROVE  Cardinality(T) = Cardinality(S) + (IF d \in T THEN 1 ELSE 0)
                              - (IF d \in S THEN 1 ELSE 0)
  <2>0. Cardinality(S) \in Nat
    BY <1>3, FS_CardinalityType
  <2>1. CASE d \in S /\ d \notin T
    <3>1. T = S \ {d}
      BY <1>3, <2>1
    <3>2. Cardinality(T) = Cardinality(S) - 1
      BY <1>3, <2>1, <3>1, FS_RemoveElement
    <3>3. QED BY <2>0, <2>1, <3>2
  <2>2. CASE d \notin S /\ d \in T
    <3>1. T = S \cup {d}
      BY <1>3, <2>2
    <3>2. Cardinality(T) = Cardinality(S) + 1
      BY <1>3, <2>2, <3>1, FS_AddElement
    <3>3. QED BY <2>0, <2>2, <3>2
  <2>3. CASE d \in S <=> d \in T
    <3>1. T = S
      BY <1>3, <2>3
    <3>2. QED BY <2>0, <2>3, <3>1
  <2>4. QED BY <2>1, <2>2, <2>3
<1>4. /\ FragBusy' = (IF s # "idle" THEN FragBusy \cup {d} ELSE FragBusy \ {d})
      /\ (d \in FragBusy' <=> s # "idle") /\ (d \in FragBusy <=> frag_deflator[d] # "idle")
  BY <1>2 DEF FragBusy
<1>5. /\ FragDone' = (IF s \in {"settle", "pend"} THEN FragDone \cup {d} ELSE FragDone \ {d})
      /\ (d \in FragDone' <=> s \in {"settle", "pend"})
      /\ (d \in FragDone <=> frag_deflator[d] \in {"settle", "pend"})
  BY <1>2 DEF FragDone
<1>6. Cardinality(FragBusy') = Cardinality(FragBusy) + (IF d \in FragBusy' THEN 1 ELSE 0)
                              - (IF d \in FragBusy THEN 1 ELSE 0)
  BY <1>3, <1>4, FragFinite
<1>7. Cardinality(FragDone') = Cardinality(FragDone) + (IF d \in FragDone' THEN 1 ELSE 0)
                              - (IF d \in FragDone THEN 1 ELSE 0)
  BY <1>3, <1>5, FragFinite
<1>8. QED BY <1>1, <1>4, <1>5, <1>6, <1>7

LEMMA FragInit == Init => FragInv
<1> SUFFICES ASSUME Init PROVE FragInv
  OBVIOUS
<1>1. FragBusy = {}
  BY DEF Init, FragBusy
<1>2. Cardinality(FragBusy) = 0
  BY <1>1, FS_EmptySet
<1>3. QED BY <1>2 DEF Init, FragInv, FragTyped, FragCounted

LEMMA FragStill ==
  ASSUME [Next]_vars, \A d \in FragDeflators : ~DeflateFragment(d),
         ~FillWrites, ~Fill, ~Unlock, ~Finish
  PROVE  UNCHANGED fragVars
<1> USE DEF vars, readerKeeps, fragVars, deflatorKeeps, mainKeeps
<1>1. CASE Reader
  BY <1>1 DEF Reader, Open, ReadBlock, ReadEmpty, ReadProcess, EndProcess, SendBlock, SendError
<1>2. CASE Main
  <2>1. CASE GetBuffer
    BY <2>1 DEF GetBuffer
  <2>2. CASE Fetch \/ Fetched \/ Duplicate \/ NotDuplicate \/ AskFlush \/ Flushed
    BY <2>2 DEF Fetch, Fetched, Duplicate, NotDuplicate, AskFlush, Flushed
  <2>3. QED BY <1>2, <2>1, <2>2 DEF Main
<1>3. CASE Writer
  BY <1>3 DEF Writer
<1>4. ASSUME NEW d \in Deflators, Deflate(d)
      PROVE  UNCHANGED fragVars
  BY <1>4 DEF Deflate, TakeBlock, Compress, PutBlock
<1>5. CASE UNCHANGED vars
  BY <1>5
<1>6. QED BY <1>1, <1>2, <1>3, <1>4, <1>5 DEF Next

LEMMA FragStep ==
  ASSUME FragInv, [Next]_vars
  PROVE  FragInv'
<1> DEFINE busy == Cardinality(FragBusy)
<1>1. /\ FragTyped /\ FragCounted /\ busy \in Nat
      /\ to_frag \in 0 .. FragmentBuffers /\ frag_locked_list \in Nat
      /\ fragment_size \in {0, 1} /\ fragments \in Nat
      /\ fragment_buffer \in 0 .. FragmentBuffers
      /\ fragment_buffer = fragment_size + to_frag + busy
      /\ fragments_outstanding = to_frag + frag_locked_list + busy
      /\ frag_deflator \in [FragDeflators -> {"idle", "compress", "settle", "pend"}]
  BY FragFinite DEF FragInv, FragTyped, FragCounted
<1>2. ASSUME NEW d \in FragDeflators, DeflateFragment(d)
      PROVE  FragInv'
  <2> HIDE DEF busy
  <2> USE DEF packVars
  <2>1. CASE TakeFragment(d)
    <3>1. frag_deflator' = [frag_deflator EXCEPT ![d] = "compress"] /\ frag_deflator[d] = "idle"
      BY <2>1 DEF TakeFragment
    <3>2. /\ frag_deflator' \in [FragDeflators -> {"idle", "compress", "settle", "pend"}]
          /\ Cardinality(FragBusy)' = busy + 1
      <4>1. /\ frag_deflator' \in [FragDeflators -> {"idle", "compress", "settle", "pend"}]
            /\ Cardinality(FragBusy)' = Cardinality(FragBusy)
                 + (IF "compress" # "idle" THEN 1 ELSE 0)
                 - (IF frag_deflator[d] # "idle" THEN 1 ELSE 0)
        BY <1>1, <3>1, FragMoves, Zenon
      <4>2. QED BY <1>1, <3>1, <4>1 DEF busy
    <3>3. /\ to_frag > 0 /\ to_frag' = to_frag - 1
          /\ UNCHANGED <<fragment_buffer, frag_locked_list, fragments_outstanding, packVars>>
      BY <2>1 DEF TakeFragment
    <3>4. FragTyped'
      BY <1>1, <3>2, <3>3 DEF FragTyped
    <3>5. FragCounted'
      BY <1>1, <3>2, <3>3 DEF FragCounted
    <3>6. QED BY <3>4, <3>5 DEF FragInv
  <2>2. CASE CompressFragment(d)
    <3>1. frag_deflator' = [frag_deflator EXCEPT ![d] = "settle"] /\ frag_deflator[d] = "compress"
      BY <2>2 DEF CompressFragment
    <3>2. /\ frag_deflator' \in [FragDeflators -> {"idle", "compress", "settle", "pend"}]
          /\ Cardinality(FragBusy)' = busy
      <4>1. /\ frag_deflator' \in [FragDeflators -> {"idle", "compress", "settle", "pend"}]
            /\ Cardinality(FragBusy)' = Cardinality(FragBusy)
                 + (IF "settle" # "idle" THEN 1 ELSE 0)
                 - (IF frag_deflator[d] # "idle" THEN 1 ELSE 0)
        BY <1>1, <3>1, FragMoves, Zenon
      <4>2. Cardinality(FragBusy)' \in Nat
        BY FragFiniteNext
      <4>3. QED BY <1>1, <3>1, <4>1, <4>2 DEF busy
    <3>3. UNCHANGED <<fragment_buffer, to_frag, frag_locked_list, fragments_outstanding, packVars>>
      BY <2>2 DEF CompressFragment
    <3>4. FragTyped'
      BY <1>1, <3>2, <3>3 DEF FragTyped
    <3>5. FragCounted'
      BY <1>1, <3>2, <3>3 DEF FragCounted
    <3>6. QED BY <3>4, <3>5 DEF FragInv
  <2>3. CASE SettleFragment(d) /\ fragments_locked
    <3>1. frag_deflator' = [frag_deflator EXCEPT ![d] = "pend"] /\ frag_deflator[d] = "settle"
      BY <2>3 DEF SettleFragment
    <3>2. /\ frag_deflator' \in [FragDeflators -> {"idle", "compress", "settle", "pend"}]
          /\ Cardinality(FragBusy)' = busy
      <4>1. /\ frag_deflator' \in [FragDeflators -> {"idle", "compress", "settle", "pend"}]
            /\ Cardinality(FragBusy)' = Cardinality(FragBusy)
                 + (IF "pend" # "idle" THEN 1 ELSE 0)
                 - (IF frag_deflator[d] # "idle" THEN 1 ELSE 0)
        BY <1>1, <3>1, FragMoves, Zenon
      <4>2. Cardinality(FragBusy)' \in Nat
        BY FragFiniteNext
      <4>3. QED BY <1>1, <3>1, <4>1, <4>2 DEF busy
    <3>3. UNCHANGED <<fragment_buffer, to_frag, frag_locked_list, fragments_outstanding, packVars>>
      BY <2>3 DEF SettleFragment
    <3>4. FragTyped'
      BY <1>1, <3>2, <3>3 DEF FragTyped
    <3>5. FragCounted'
      BY <1>1, <3>2, <3>3 DEF FragCounted
    <3>6. QED BY <3>4, <3>5 DEF FragInv
  <2>4. CASE SettleFragment(d) /\ ~fragments_locked
    <3>1. frag_deflator' = [frag_deflator EXCEPT ![d] = "idle"] /\ frag_deflator[d] = "settle"
      BY <2>4 DEF SettleFragment
    <3>2. /\ frag_deflator' \in [FragDeflators -> {"idle", "compress", "settle", "pend"}]
          /\ Cardinality(FragBusy)' = busy - 1 /\ Cardinality(FragBusy)' \in Nat
      <4>1. /\ frag_deflator' \in [FragDeflators -> {"idle", "compress", "settle", "pend"}]
            /\ Cardinality(FragBusy)' = Cardinality(FragBusy)
                 + (IF "idle" # "idle" THEN 1 ELSE 0)
                 - (IF frag_deflator[d] # "idle" THEN 1 ELSE 0)
        BY <1>1, <3>1, FragMoves, Zenon
      <4>2. Cardinality(FragBusy)' \in Nat
        BY FragFiniteNext
      <4>3. QED BY <1>1, <3>1, <4>1, <4>2 DEF busy
    <3>3. /\ UNCHANGED <<to_frag, frag_locked_list, packVars>>
          /\ fragments_outstanding' = fragments_outstanding - 1
          /\ fragment_buffer' = fragment_buffer - 1
      BY <2>4 DEF SettleFragment
    <3>4. FragTyped'
      BY <1>1, <3>2, <3>3 DEF FragTyped
    <3>5. FragCounted'
      BY <1>1, <3>2, <3>3 DEF FragCounted
    <3>6. QED BY <3>4, <3>5 DEF FragInv
  <2>5. CASE AddPendingFragment(d)
    <3>1. frag_deflator' = [frag_deflator EXCEPT ![d] = "idle"] /\ frag_deflator[d] = "pend"
      BY <2>5 DEF AddPendingFragment
    <3>2. /\ frag_deflator' \in [FragDeflators -> {"idle", "compress", "settle", "pend"}]
          /\ Cardinality(FragBusy)' = busy - 1 /\ Cardinality(FragBusy)' \in Nat
      <4>1. /\ frag_deflator' \in [FragDeflators -> {"idle", "compress", "settle", "pend"}]
            /\ Cardinality(FragBusy)' = Cardinality(FragBusy)
                 + (IF "idle" # "idle" THEN 1 ELSE 0)
                 - (IF frag_deflator[d] # "idle" THEN 1 ELSE 0)
        BY <1>1, <3>1, FragMoves, Zenon
      <4>2. Cardinality(FragBusy)' \in Nat
        BY FragFiniteNext
      <4>3. QED BY <1>1, <3>1, <4>1, <4>2 DEF busy
    <3>3. /\ UNCHANGED <<to_frag, fragments_outstanding, packVars>>
          /\ frag_locked_list' = frag_locked_list + 1
          /\ fragment_buffer' = fragment_buffer - 1
      BY <2>5 DEF AddPendingFragment
    <3>4. FragTyped'
      BY <1>1, <3>2, <3>3 DEF FragTyped
    <3>5. FragCounted'
      BY <1>1, <3>2, <3>3 DEF FragCounted
    <3>6. QED BY <3>4, <3>5 DEF FragInv
  <2>6. QED BY <1>2, <2>1, <2>2, <2>3, <2>4, <2>5 DEF DeflateFragment
<1>3. ASSUME frag_deflator' = frag_deflator
      PROVE  Cardinality(FragBusy)' = busy
  BY <1>3 DEF FragBusy
<1>4. ASSUME PutFragment, fragment_size = 1
      PROVE  FragInv'
  <2>1. /\ to_frag < FragmentBuffers /\ to_frag' = to_frag + 1 /\ fragments' = fragments + 1
        /\ fragments_outstanding' = fragments_outstanding + 1 /\ fragment_size' = 0
        /\ UNCHANGED <<fragment_buffer, frag_deflator, frag_locked_list>>
    BY <1>4 DEF PutFragment
  <2>2. Cardinality(FragBusy)' = busy
    BY <1>3, <2>1
  <2> HIDE DEF busy
  <2>3. FragTyped'
    BY <1>1, <2>1 DEF FragTyped
  <2>4. FragCounted'
    BY <1>1, <1>4, <2>1, <2>2 DEF FragCounted
  <2>5. QED BY <2>3, <2>4 DEF FragInv
<1>5. CASE FillWrites
  BY <1>4, <1>5 DEF FillWrites
<1>6. CASE Fill
  <2>1. /\ fragment_size' = 1
        /\ \/ fragment_size = 1 /\ fragment_buffer' = fragment_buffer
           \/ /\ fragment_size = 0 /\ fragment_buffer < FragmentBuffers
              /\ fragment_buffer' = fragment_buffer + 1
        /\ UNCHANGED <<fragments, to_frag, frag_deflator, frag_locked_list,
                       fragments_outstanding>>
    BY <1>6 DEF Fill
  <2>2. Cardinality(FragBusy)' = busy
    BY <1>3, <2>1
  <2> HIDE DEF busy
  <2>3. FragTyped'
    BY <1>1, <2>1 DEF FragTyped
  <2>4. FragCounted'
    BY <1>1, <2>1, <2>2 DEF FragCounted
  <2>5. QED BY <2>3, <2>4 DEF FragInv
<1>7. CASE Unlock
  <2>1. /\ fragments_outstanding' = fragments_outstanding - frag_locked_list
        /\ frag_locked_list' = 0
        /\ UNCHANGED <<fragment_buffer, to_frag, frag_deflator, fragments, fragment_size>>
    BY <1>7 DEF Unlock, packVars
  <2>2. Cardinality(FragBusy)' = busy
    BY <1>3, <2>1
  <2> HIDE DEF busy
  <2>3. FragTyped'
    BY <1>1, <2>1 DEF FragTyped
  <2>4. FragCounted'
    BY <1>1, <2>1, <2>2 DEF FragCounted
  <2>5. QED BY <2>3, <2>4 DEF FragInv
<1>8. CASE UNCHANGED fragVars
  <2>1. UNCHANGED <<fragment_buffer, to_frag, frag_deflator, frag_locked_list,
                    fragments_outstanding, fragments, fragment_size>>
    BY <1>8 DEF fragVars
  <2>2. Cardinality(FragBusy)' = busy
    BY <1>3, <2>1
  <2> HIDE DEF busy
  <2>3. FragTyped'
    BY <1>1, <2>1 DEF FragTyped
  <2>4. FragCounted'
    BY <1>1, <2>1, <2>2 DEF FragCounted
  <2>5. QED BY <2>3, <2>4 DEF FragInv
<1>9. CASE Finish
  BY <1>1, <1>4, <1>8, <1>9 DEF Finish
<1>10. QED BY <1>2, <1>5, <1>6, <1>7, <1>8, <1>9, FragStill

LEMMA FragAlways == Spec => []FragInv
<1>1. FragInv /\ [Next]_vars => FragInv'
  BY FragStep
<1>2. QED BY FragInit, <1>1, PTL DEF Spec

-----------------------------------------------------------------------------
(* The rest of what main does, which gets no buffer, ...                   *)
MainOther == Fetch \/ Fetched \/ Duplicate \/ NotDuplicate \/ FillWrites \/ Fill
             \/ AskFlush \/ Flushed \/ Unlock \/ Finish

(* ... leaves it at the same place in the input.                           *)
LEMMA MainOtherStep ==
  ASSUME MainInv, MainOther
  PROVE  MainInv' /\ MainPlace(main') = MainPlace(main)
<1>1. /\ main = [pc |-> main.pc, next |-> main.next, mode |-> main.mode,
                 files |-> main.files, blocks |-> main.blocks, got |-> main.got,
                 thresh |-> main.thresh, held |-> main.held, tail |-> main.tail,
                 redo |-> main.redo]
      /\ main.next \in {"get", "fill"}
      /\ main.mode \in {"none", "fragment", "blocks", "dup", "process"}
      /\ main.files \in 0 .. MaxFiles /\ main.blocks \in -1 .. MaxBlocks
      /\ main.got \in Nat /\ main.thresh \in Nat /\ main.held \in Nat
      /\ main.tail \in {0, 1} /\ main.redo \in BOOLEAN
  BY MainFields DEF MainInv
<1>2. MainShape(main) /\ (InFile(main) => fragments_locked)
  BY DEF MainInv
<1>3. ASSUME NEW pc \in {"fill", "fetch", "decide", "truncate", "flush", "unlock"},
             NEW held \in {0, main.held},
             main' = [main EXCEPT !.pc = pc, !.held = held],
             main.mode # "none", main.pc # "get",
             main.mode = "fragment" => pc \in {"fetch", "decide", "fill"},
             pc \in {"fetch", "decide"} => main.pc \in {"compare", "fetch", "decide"},
             pc = "fill" => main.tail = 1 /\ held = 0 /\ ~main.redo,
             InFile(main') => fragments_locked'
      PROVE  MainInv' /\ MainPlace(main') = MainPlace(main)
  <2>1. main' = [pc |-> pc, next |-> main.next, mode |-> main.mode,
                 files |-> main.files, blocks |-> main.blocks, got |-> main.got,
                 thresh |-> main.thresh, held |-> held, tail |-> main.tail,
                 redo |-> main.redo]
    BY <1>1, <1>3
  <2>2. MainTyped'
    BY <1>1, <1>3, <2>1 DEF MainTyped
  <2>3. MainShape(main')
    BY <1>1, <1>2, <1>3, <2>1 DEF MainShape
  <2>4. MainPlace(main') = MainPlace(main)
    BY <1>3, <2>1 DEF MainPlace
  <2>5. QED BY <1>3, <2>2, <2>3, <2>4 DEF MainInv
<1>4. ASSUME main.mode # "none", main.pc # "get",
             NEW n, n = IF main.redo THEN main.files ELSE main.files + 1, main' = Between(n)
      PROVE  MainInv' /\ MainPlace(main') = MainPlace(main)
  <2>1. main.files < MaxFiles
    BY <1>2, <1>4 DEF MainShape
  <2>2. n \in 0 .. MaxFiles
    BY <1>1, <1>4, <2>1
  <2>3. MainTyped' /\ MainShape(main') /\ ~InFile(main') /\ MainPlace(main') = Spot(n + 1, 1, 0)
    BY <1>4, <2>2, BetweenStep
  <2>4. MainPlace(main) = Spot(n + 1, 1, 0)
    <3>1. n + 1 = IF main.redo THEN main.files + 1 ELSE main.files + 2
      BY <1>1, <1>4
    <3>2. QED BY <1>4, <3>1 DEF MainPlace
  <2>5. QED BY <2>3, <2>4 DEF MainInv
<1>5. main.pc \in {"compare", "fetch", "decide", "fill", "truncate", "flush", "unlock"}
        => main.mode # "none" /\ main.pc # "get"
  BY <1>2 DEF MainShape
<1>6. main.pc \in {"compare", "fetch", "decide", "fill"} => main.redo = FALSE
  BY <1>1, <1>2 DEF MainShape
<1>7. main = [main EXCEPT !.held = main.held]
  BY <1>1
<1>8. CASE Fetch \/ Fetched
  <2>1. PICK pc \in {"fetch", "decide"} : main' = [main EXCEPT !.pc = pc]
    BY <1>8 DEF Fetch, Fetched
  <2>2. main.pc \in {"compare", "fetch"} /\ fragments_locked' = fragments_locked
    BY <1>8 DEF Fetch, Fetched
  <2>3. main' = [main EXCEPT !.pc = pc, !.held = main.held]
    BY <1>1, <2>1
  <2>4. InFile(main') => InFile(main)
    BY <1>1, <2>2, <2>3 DEF InFile
  <2>5. QED BY <1>2, <1>3, <1>5, <2>2, <2>3, <2>4
<1>9. CASE Duplicate
  <2>1. main.pc \in {"compare", "decide"} /\ fragments_locked' = fragments_locked
    BY <1>9 DEF Duplicate
  <2>2. CASE main.mode = "fragment"
    <3>1. main' = Between(main.files + 1)
      BY <1>9, <2>2 DEF Duplicate
    <3>2. QED BY <1>4, <1>5, <1>6, <2>1, <3>1
  <2>3. CASE main.mode # "fragment"
    <3>1. PICK pc \in {"truncate", "unlock"} : main' = [main EXCEPT !.pc = pc, !.held = 0]
      BY <1>9, <2>3 DEF Duplicate
    <3>2. InFile(main') => InFile(main)
      BY <1>1, <2>1, <3>1 DEF InFile
    <3>3. QED BY <1>2, <1>3, <1>5, <2>1, <2>3, <3>1, <3>2
  <2>4. QED BY <2>2, <2>3
<1>10. CASE NotDuplicate
  <2>1. /\ main.pc \in {"compare", "decide"} /\ fragments_locked' = fragments_locked
        /\ main' = [main EXCEPT !.pc = IF main.tail = 1 THEN "fill" ELSE "unlock", !.held = 0]
    BY <1>10 DEF NotDuplicate
  <2>2. PICK pc \in {"fill", "unlock"} : /\ main' = [main EXCEPT !.pc = pc, !.held = 0]
                                         /\ pc = "fill" <=> main.tail = 1
    BY <2>1
  <2>3. main.mode = "fragment" => pc = "fill"
    BY <1>2, <2>2 DEF MainShape
  <2>4. InFile(main') => InFile(main)
    BY <1>1, <2>1, <2>2 DEF InFile
  <2>5. pc \notin {"fetch", "decide"} /\ pc = "fill" => main.tail = 1 /\ ~main.redo
    BY <1>6, <2>1, <2>2
  <2>6. InFile(main') => fragments_locked'
    BY <1>2, <2>1, <2>4
  <2>7. QED BY <1>3, <1>5, <2>1, <2>2, <2>3, <2>5, <2>6
<1>11. CASE FillWrites
  <2>1. main' = main /\ fragments_locked' = fragments_locked
    BY <1>11 DEF FillWrites
  <2>2. QED BY <2>1 DEF MainInv, MainTyped
<1>12. CASE Fill
  <2>1. /\ main.pc = "fill" /\ fragments_locked' = fragments_locked
        /\ IF main.mode = "dup" THEN main' = [main EXCEPT !.pc = "unlock"]
                                ELSE main' = Between(main.files + 1)
    BY <1>12 DEF Fill
  <2>2. CASE main.mode = "dup"
    <3>1. main' = [main EXCEPT !.pc = "unlock", !.held = main.held]
      BY <1>1, <2>1, <2>2
    <3>2. InFile(main)
      BY <2>2 DEF InFile
    <3>3. QED BY <1>2, <1>3, <1>5, <2>1, <2>2, <3>1, <3>2
  <2>3. CASE main.mode # "dup"
    BY <1>4, <1>5, <1>6, <2>1, <2>3
  <2>4. QED BY <2>2, <2>3
<1>13. CASE AskFlush \/ Flushed
  <2>1. PICK pc \in {"flush", "unlock"} : main' = [main EXCEPT !.pc = pc]
    BY <1>13 DEF AskFlush, Flushed
  <2>2. main.pc \in {"truncate", "flush"} /\ fragments_locked' = fragments_locked
    BY <1>13 DEF AskFlush, Flushed
  <2>3. main' = [main EXCEPT !.pc = pc, !.held = main.held]
    BY <1>1, <2>1
  <2>4. InFile(main') => InFile(main)
    BY <1>1, <2>2, <2>3 DEF InFile
  <2>5. main.mode # "fragment"
    BY <1>2, <2>2 DEF MainShape
  <2>6. QED BY <1>2, <1>3, <1>5, <2>2, <2>3, <2>4, <2>5
<1>14. CASE Unlock
  <2>1. /\ main.pc = "unlock"
        /\ IF main.next = "fill" THEN main' = [main EXCEPT !.pc = "fill"]
           ELSE main' = Between(IF main.redo THEN main.files ELSE main.files + 1)
    BY <1>14 DEF Unlock
  <2>2. CASE main.next = "fill"
    <3>1. main.tail = 1 /\ main.held = 0 /\ ~main.redo /\ main.mode # "dup"
      BY <1>2, <2>2 DEF MainShape
    <3>2. main' = [main EXCEPT !.pc = "fill", !.held = main.held]
      BY <1>1, <2>1, <2>2
    <3>3. ~InFile(main')
      BY <1>1, <3>1, <3>2 DEF InFile
    <3>4. main.mode # "fragment"
      BY <1>2, <2>1 DEF MainShape
    <3>5. QED BY <1>3, <1>5, <2>1, <3>1, <3>2, <3>3, <3>4
  <2>3. CASE main.next # "fill"
    BY <1>4, <1>5, <2>1, <2>3
  <2>4. QED BY <2>2, <2>3
<1>15. CASE Finish
  <2>1. main.pc = "get" /\ main.mode = "none" /\ main' = [main EXCEPT !.pc = "finished"]
    BY <1>15 DEF Finish
  <2>2. main' = [pc |-> "finished", next |-> main.next, mode |-> main.mode,
                 files |-> main.files, blocks |-> main.blocks, got |-> main.got,
                 thresh |-> main.thresh, held |-> main.held, tail |-> main.tail,
                 redo |-> main.redo]
    BY <1>1, <2>1
  <2>3. MainTyped'
    BY <1>1, <2>2 DEF MainTyped
  <2>4. MainShape(main') /\ ~InFile(main')
    BY <1>2, <2>1, <2>2 DEF MainShape, InFile
  <2>5. MainPlace(main') = MainPlace(main)
    BY <2>1, <2>2 DEF MainPlace
  <2>6. QED BY <2>3, <2>4, <2>5 DEF MainInv
<1>16. QED BY <1>8, <1>9, <1>10, <1>11, <1>12, <1>13, <1>14, <1>15 DEF MainOther

(* Nobody else moves it.                                                   *)
LEMMA MainStill ==
  ASSUME [Next]_vars, ~Main
  PROVE  UNCHANGED mainVars
<1> USE DEF vars, readerKeeps, mainVars, deflatorKeeps, sourceVars
<1>1. CASE Reader
  BY <1>1 DEF Reader, Open, ReadBlock, ReadEmpty, ReadProcess, EndProcess, SendBlock, SendError
<1>2. CASE Writer
  BY <1>2 DEF Writer
<1>3. ASSUME NEW d \in Deflators, Deflate(d)
      PROVE  UNCHANGED mainVars
  BY <1>3 DEF Deflate, TakeBlock, Compress, PutBlock
<1>4. ASSUME NEW d \in FragDeflators, DeflateFragment(d)
      PROVE  UNCHANGED mainVars
  BY <1>4 DEF DeflateFragment, TakeFragment, CompressFragment, SettleFragment,
              AddPendingFragment
<1>5. CASE UNCHANGED vars
  BY <1>5
<1>6. QED BY <1>1, <1>2, <1>3, <1>4, <1>5 DEF Next

-----------------------------------------------------------------------------
(* The reader, seen from where it sends.                                   *)

LEMMA HeldFits ==
  ASSUME ReaderInv, reader.held # <<>>
  PROVE  Fits(SentPlace(reader), Head(reader.held).content)
<1> DEFINE c == reader.held[1].content
<1>1. /\ Head(reader.held) = reader.held[1] /\ c.file = reader.file /\ Good(c)
      /\ Len(reader.held) \in Nat \ {0} /\ reader.held[1] \in Buffers
  BY HeadHeld
<1>2. c.block \in 1 .. MaxBlocks /\ c.file_size \in -1 .. MaxBlocks
  BY <1>1 DEF Buffers, Contents
<1>3. SentPlace(reader) = Spot(reader.file, c.block, IF c.block = 1 THEN 0
                               ELSE IF reader.pc = "file" THEN reader.blocks ELSE -1)
  BY DEF SentPlace
<1>4. reader.pc \in {"file", "process", "send"} /\ ReaderHolds(reader)
  BY ReaderFields DEF ReaderInv, ReaderHolds
<1>5. CASE reader.pc = "file"
  <2>1. (c.file_size = reader.blocks \/ c.file_size = 0) /\ reader.blocks \in Nat \ {0}
    BY <1>4, <1>5, ReaderFields DEF ReaderHolds, HoldsFile
  <2>2. c.block > 1 => c.file_size = reader.blocks
    BY <1>1, <1>2, <2>1 DEF Good
  <2> HIDE DEF c
  <2>3. Fits(SentPlace(reader), c)
    BY <1>1, <1>3, <1>5, <2>1, <2>2 DEF Fits, Spot
  <2>4. QED BY <1>1, <2>3 DEF c
<1>6. CASE reader.pc # "file"
  <2>1. c.file_size \in {-1, 0, c.block}
    <3>1. CASE reader.pc = "process"
      <4>1. HoldsProcess(reader) /\ 1 \in 1 .. Len(reader.held)
        BY <1>1, <1>4, <3>1 DEF ReaderHolds
      <4>2. QED BY <4>1 DEF HoldsProcess
    <3>2. CASE reader.pc = "send"
      BY <1>4, <3>2 DEF ReaderHolds, HoldsLast
    <3>3. QED BY <1>4, <1>6, <3>1, <3>2
  <2>2. c.block > 1 => c.file_size \in {-1, c.block}
    BY <1>1, <1>2, <2>1 DEF Good
  <2> HIDE DEF c
  <2>3. Fits(SentPlace(reader), c)
    BY <1>1, <1>3, <1>6, <2>2 DEF Fits, Spot
  <2>4. QED BY <1>1, <2>3 DEF c
<1>7. QED BY <1>5, <1>6

LEMMA SendPlace ==
  ASSUME ReaderInv, SendBlock \/ SendError
  PROVE  SentPlace(reader') = After(Head(reader.held).content)
<1> DEFINE c == Head(reader.held).content
<1>1. reader.held # <<>>
  BY SentMore
<1>2. /\ Head(reader.held) = reader.held[1] /\ c.file = reader.file /\ Good(c)
      /\ Len(reader.held) \in Nat \ {0} /\ Head(reader.held) \in Buffers
  BY <1>1, HeadHeld
<1>3. c.block \in 1 .. MaxBlocks /\ c.file_size \in -1 .. MaxBlocks /\ c.error \in {0, 1, 2}
  BY <1>2 DEF Buffers, Contents
<1>4. /\ reader = [pc |-> reader.pc, file |-> reader.file, seq |-> reader.seq,
                   blocks |-> reader.blocks, tail |-> reader.tail,
                   count |-> reader.count, held |-> reader.held]
      /\ reader.file \in 1 .. MaxFiles + 1 /\ reader.count \in 0 .. MaxBlocks
      /\ reader.blocks \in 0 .. MaxBlocks /\ reader.held \in Seq(Buffers)
  BY ReaderFields
<1>5. reader.pc \in {"file", "process", "send"} /\ ReaderHolds(reader)
  BY <1>1, ReaderFields DEF ReaderInv, ReaderHolds
<1>6. ASSUME reader' = Closed(reader.file + 1) PROVE SentPlace(reader') = Spot(reader.file + 1, 1, 0)
  BY <1>6 DEF SentPlace, Closed
<1> HIDE DEF c
<1>7. CASE SendError
  <2>1. c.error # 0
    BY <1>7 DEF SendError, c
  <2>2. CASE c.error = 2
    <3>1. PICK blocks, tail :
            reader' = [Closed(reader.file) EXCEPT !.pc = "file", !.blocks = blocks,
                                                  !.tail = tail]
      BY <1>7, <2>2 DEF SendError, c
    <3>2. reader'.held = <<>> /\ reader'.count = 0 /\ reader'.file = reader.file
      BY <3>1 DEF Closed
    <3>3. SentPlace(reader') = Spot(reader.file, 1, 0)
      BY <3>2 DEF SentPlace
    <3>4. QED BY <1>2, <2>2, <3>3 DEF After, c
  <2>3. CASE c.error # 2
    <3>1. reader' = Closed(reader.file + 1)
      BY <1>7, <2>3 DEF SendError, c
    <3>2. After(c) = Spot(reader.file + 1, 1, 0)
      BY <1>2, <2>1, <2>3 DEF After, Ends
    <3>3. QED BY <1>6, <3>1, <3>2 DEF c
  <2>4. QED BY <2>2, <2>3
<1>8. CASE SendBlock
  <2>1. c.error = 0
    BY <1>8 DEF SendBlock, c
  <2>2. CASE reader.pc = "send" \/ (reader.pc = "file" /\ reader.count = reader.blocks)
    <3>1. reader' = Closed(reader.file + 1)
      BY <1>8, <2>2 DEF SendBlock
    <3>2. c.file_size \in {0, c.block}
      BY <1>2, <1>3, <1>5, <2>1, <2>2 DEF ReaderHolds, HoldsFile, HoldsLast, c
    <3>3. After(c) = Spot(reader.file + 1, 1, 0)
      BY <1>2, <2>1, <3>2 DEF After, Ends
    <3>4. QED BY <1>6, <3>1, <3>3 DEF c
  <2>3. CASE ~(reader.pc = "send" \/ (reader.pc = "file" /\ reader.count = reader.blocks))
    <3>1. reader' = [reader EXCEPT !.held = Tail(@)]
      BY <1>8, <2>3 DEF SendBlock
    <3>2. /\ reader'.held = Tail(reader.held) /\ reader'.count = reader.count
          /\ reader'.file = reader.file /\ reader'.pc = reader.pc
          /\ reader'.blocks = reader.blocks
      BY <1>4, <3>1
    <3>3. /\ Len(Tail(reader.held)) = Len(reader.held) - 1
          /\ \A i \in 1 .. Len(reader.held) - 1 : Tail(reader.held)[i] = reader.held[i + 1]
      BY <1>1, <1>4, TailIs
    <3>4. CASE reader.pc = "file"
      <4>1. /\ Len(reader.held) = 1 /\ c.block = reader.count
            /\ c.file_size = reader.blocks \/ (c.file_size = 0 /\ reader.blocks = 1)
            /\ reader.count <= reader.blocks
        <5>1. HoldsFile(reader)
          BY <1>5, <3>4 DEF ReaderHolds
        <5>2. Len(reader.held) <= 1
          BY <5>1 DEF HoldsFile
        <5>3. Len(reader.held) = 1
          BY <1>2, <5>2, OnlyOne
        <5>4. QED BY <1>1, <1>2, <5>1, <5>3 DEF HoldsFile, c
      <4>2. c.file_size = reader.blocks /\ c.file_size # c.block /\ c.file_size # 0
        BY <1>3, <1>4, <2>3, <3>4, <4>1
      <4>3. reader'.held = <<>>
        <5>1. Tail(reader.held) \in Seq(Buffers) /\ Len(Tail(reader.held)) = 0
          BY <1>1, <1>4, <3>3, <4>1, TailIs
        <5>2. QED BY <3>2, <5>1, EmptySeq
      <4>4. SentPlace(reader') = Spot(reader.file, reader.count + 1, reader.blocks)
        <5>1. reader.count + 1 # 1
          BY <1>3, <4>1
        <5>2. QED BY <3>2, <3>4, <4>3, <5>1 DEF SentPlace
      <4>5. After(c) = Spot(reader.file, reader.count + 1, reader.blocks)
        BY <1>2, <2>1, <4>1, <4>2 DEF After, Ends, c
      <4>6. QED BY <4>4, <4>5 DEF c
    <3>5. CASE reader.pc = "process"
      <4>1. Len(reader.held) = 2 /\ HoldsProcess(reader)
        BY <1>5, <1>8, <3>5 DEF SendBlock, ReaderHolds
      <4>2. /\ reader.held[1].content.file_size = -1
            /\ reader.held[1].content.block = reader.count - 2 + 1
            /\ reader.held[2].content.block = reader.count - 2 + 2
        <5>1. 1 \in 1 .. Len(reader.held) /\ 2 \in 1 .. Len(reader.held)
          BY <4>1
        <5>2. QED BY <4>1, <5>1 DEF HoldsProcess
      <4>3. Tail(reader.held)[1] = reader.held[2] /\ Tail(reader.held) # <<>>
        <5>1. Len(Tail(reader.held)) = 1 /\ Len(<<>>) = 0
          BY <3>3, <4>1
        <5>2. 1 \in 1 .. Len(reader.held) - 1 /\ 1 + 1 = 2
          BY <4>1
        <5>3. Tail(reader.held)[1] = reader.held[2]
          BY <3>3, <5>2
        <5>4. QED BY <5>1, <5>3
      <4>4. /\ c.block = reader.count - 1 /\ c.file_size = -1
            /\ reader.held[2].content.block = reader.count
        BY <1>2, <1>4, <4>2 DEF c
      <4>5. SentPlace(reader') = Spot(reader.file, reader.count, -1)
        <5>1. reader.count # 1
          BY <1>3, <1>4, <4>4
        <5>2. reader'.held[1].content.block = reader.count /\ reader'.held # <<>>
          BY <3>2, <4>3, <4>4
        <5>3. QED BY <3>2, <3>5, <5>1, <5>2 DEF SentPlace
      <4>6. After(c) = Spot(reader.file, reader.count, -1)
        <5>1. ~Ends(c) /\ c.block + 1 = reader.count
          BY <1>3, <1>4, <2>1, <4>4 DEF Ends
        <5>2. QED BY <1>2, <2>1, <4>4, <5>1 DEF After, c
      <4>7. QED BY <4>5, <4>6 DEF c
    <3>6. QED BY <1>5, <2>3, <3>4, <3>5
  <2>4. QED BY <2>2, <2>3
<1>9. QED BY <1>7, <1>8

LEMMA ReadPlace ==
  ASSUME ReaderInv, Open \/ ReadBlock \/ ReadEmpty \/ ReadProcess \/ EndProcess
  PROVE  SentPlace(reader') = SentPlace(reader)
<1>1. /\ reader = [pc |-> reader.pc, file |-> reader.file, seq |-> reader.seq,
                   blocks |-> reader.blocks, tail |-> reader.tail,
                   count |-> reader.count, held |-> reader.held]
      /\ reader.count \in 0 .. MaxBlocks /\ reader.held \in Seq(Buffers)
      /\ Len(reader.held) \in Nat
      /\ (reader.held = <<>> <=> Len(reader.held) = 0)
  BY ReaderFields
<1>2. ReaderHolds(reader)
  BY DEF ReaderInv
<1>3. ASSUME NEW b, reader'.held = <<b>>, reader.held = <<>>,
             b.content.block = reader.count + 1, reader'.file = reader.file,
             reader.count = 0 \/ (reader.pc = "file" /\ reader'.pc = "file"
                                  /\ reader'.blocks = reader.blocks)
      PROVE  SentPlace(reader') = SentPlace(reader)
  <2>1. reader'.held # <<>> /\ reader'.held[1].content.block = reader.count + 1
    BY <1>3
  <2>2. CASE reader.count = 0
    <3>1. reader.count + 1 = 1
      BY <2>2
    <3>2. QED BY <1>3, <2>1, <3>1 DEF SentPlace
  <2>3. CASE reader.pc = "file" /\ reader'.pc = "file" /\ reader'.blocks = reader.blocks
    BY <1>3, <2>1, <2>3 DEF SentPlace
  <2>4. QED BY <1>3, <2>2, <2>3
<1>4. CASE Open
  <2>1. reader.held = <<>> /\ reader.count = 0
    BY <1>2, <1>4 DEF Open, ReaderHolds
  <2>2. reader'.held = reader.held /\ reader'.count = reader.count /\ reader'.file = reader.file
    BY <1>1, <1>4 DEF Open
  <2>3. reader.count + 1 = 1
    BY <2>1
  <2>4. QED BY <2>1, <2>2, <2>3 DEF SentPlace
<1>5. CASE ReadBlock
  <2>1. reader.held = <<>> /\ reader.pc = "file"
    BY <1>5 DEF ReadBlock
  <2>2. PICK kind, error :
          reader' = [reader EXCEPT !.count = reader.count + 1, !.seq = @ + 1, !.held =
            <<Buffer(reader.seq, Content(reader.file, reader.count + 1, reader.blocks,
                                         kind, error))>>]
    BY <1>5, Zenon DEF ReadBlock
  <2> DEFINE b == Buffer(reader.seq, Content(reader.file, reader.count + 1, reader.blocks,
                                             kind, error))
  <2>3. b.content.block = reader.count + 1 /\ reader' =
          [reader EXCEPT !.count = reader.count + 1, !.seq = @ + 1, !.held = <<b>>]
    BY <2>2 DEF Buffer, Content
  <2> HIDE DEF b
  <2>4. /\ reader'.held = <<b>> /\ reader'.file = reader.file /\ reader'.pc = reader.pc
        /\ reader'.blocks = reader.blocks
    BY <1>1, <2>3
  <2>5. QED BY <1>3, <2>1, <2>3, <2>4
<1>6. CASE ReadEmpty
  <2>1. reader.held = <<>> /\ reader.pc = "file" /\ reader.count = 0
    BY <1>6 DEF ReadEmpty
  <2> DEFINE b == Buffer(reader.seq, Content(reader.file, 1, 0, "sparse", 0))
  <2>2. b.content.block = reader.count + 1 /\ reader' =
          [reader EXCEPT !.count = 1, !.seq = @ + 1, !.held = <<b>>]
    BY <1>6, <2>1 DEF ReadEmpty, Buffer, Content
  <2> HIDE DEF b
  <2>3. reader'.held = <<b>> /\ reader'.file = reader.file
    BY <1>1, <2>2
  <2>4. QED BY <1>3, <2>1, <2>2, <2>3
<1>7. CASE ReadProcess
  <2>1. reader.pc = "process" /\ HoldsProcess(reader)
    BY <1>2, <1>7 DEF ReadProcess, ReaderHolds
  <2>0. PICK kind \in {"data", "sparse"} :
          reader' = [reader EXCEPT !.count = reader.count + 1, !.seq = @ + 1, !.held = Append(@,
            Buffer(reader.seq, Content(reader.file, reader.count + 1, -1, kind, 0)))]
    BY <1>7, Zenon DEF ReadProcess
  <2> DEFINE b == Buffer(reader.seq, Content(reader.file, reader.count + 1, -1, kind, 0))
  <2>2. b.content.block = reader.count + 1 /\ reader' =
          [reader EXCEPT !.count = reader.count + 1, !.seq = @ + 1, !.held = Append(@, b)]
    BY <2>0 DEF Buffer, Content
  <2> HIDE DEF b
  <2>3. /\ reader'.held = Append(reader.held, b) /\ reader'.file = reader.file
        /\ reader'.pc = reader.pc
    BY <1>1, <2>2
  <2>4. CASE reader.held = <<>>
    <3>1. reader.count = 0 /\ reader'.held = <<b>>
      BY <2>1, <2>3, <2>4 DEF HoldsProcess
    <3>2. QED BY <1>3, <2>2, <2>3, <2>4, <3>1
  <2>5. CASE reader.held # <<>>
    <3>1. reader'.held[1] = reader.held[1] /\ reader'.held # <<>>
      BY <1>1, <2>3, <2>5
    <3>2. QED BY <2>1, <2>3, <2>5, <3>1 DEF SentPlace
  <2>6. QED BY <2>4, <2>5
<1>8. CASE EndProcess
  <2>1. reader.pc = "process" /\ HoldsProcess(reader)
    BY <1>2, <1>8 DEF EndProcess, ReaderHolds
  <2>2. CASE reader.held = <<>>
    <3>1. PICK error \in {0, 1} :
            reader' = [reader EXCEPT !.pc = "send", !.held = <<Buffer(
              IF @ = <<>> THEN reader.seq ELSE Head(@).sequence,
              Content(reader.file, 1, 0, "sparse", error))>>,
              !.seq = IF reader.held = <<>> THEN @ + 1 ELSE @]
      BY <1>8, <2>2, Zenon DEF EndProcess
    <3>2. reader.count = 0
      BY <2>1, <2>2 DEF HoldsProcess
    <3> DEFINE b == Buffer(reader.seq, Content(reader.file, 1, 0, "sparse", error))
    <3>3. b.content.block = 1 /\ reader' =
            [reader EXCEPT !.pc = "send", !.held = <<b>>, !.seq = reader.seq + 1]
      BY <1>1, <2>2, <3>1 DEF Buffer, Content
    <3> HIDE DEF b
    <3>4. reader'.held = <<b>> /\ reader'.file = reader.file /\ b.content.block = reader.count + 1
      BY <1>1, <3>2, <3>3
    <3>5. QED BY <1>3, <2>2, <3>2, <3>4
  <2>3. CASE reader.held # <<>>
    <3>1. PICK c : /\ reader' = [reader EXCEPT !.pc = "send", !.held = <<Buffer(
                       IF @ = <<>> THEN reader.seq ELSE Head(@).sequence, c)>>,
                       !.seq = IF reader.held = <<>> THEN @ + 1 ELSE @]
                   /\ c.block = Head(reader.held).content.block
      <4> DEFINE kept == Head(reader.held).content
      <4>0. kept = [file |-> kept.file, block |-> kept.block, file_size |-> kept.file_size,
                    kind |-> kept.kind, error |-> kept.error]
        BY <2>3, HeadHeld DEF Buffers, Contents
      <4>1. PICK c : /\ reader' = [reader EXCEPT !.pc = "send", !.held = <<Buffer(
                         IF @ = <<>> THEN reader.seq ELSE Head(@).sequence, c)>>,
                         !.seq = IF reader.held = <<>> THEN @ + 1 ELSE @]
                     /\ \/ c = [kept EXCEPT !.error = 1]
                        \/ \E tail \in BOOLEAN :
                             c = [kept EXCEPT !.file_size = reader.count, !.kind =
                                    IF tail /\ @ = "data" THEN "fragment" ELSE @]
        BY <1>8, <2>3, Zenon DEF EndProcess
      <4> HIDE DEF kept
      <4>2. c.block = kept.block
        BY <4>0, <4>1
      <4>3. QED BY <4>1, <4>2 DEF kept
    <3> DEFINE b == Buffer(Head(reader.held).sequence, c)
    <3>2. /\ reader' = [reader EXCEPT !.pc = "send", !.held = <<b>>]
          /\ b.content.block = reader.held[1].content.block
      <4>1. Head(reader.held) = reader.held[1]
        BY <2>3, HeadHeld
      <4>2. reader' = [reader EXCEPT !.pc = "send", !.held =
                                       <<Buffer(Head(reader.held).sequence, c)>>]
        BY <1>1, <2>3, <3>1
      <4>3. QED BY <3>1, <4>1, <4>2 DEF Buffer
    <3> HIDE DEF b
    <3>3. /\ reader'.held # <<>> /\ reader'.held[1].content.block = reader.held[1].content.block
          /\ reader'.file = reader.file /\ reader'.pc # "file"
      BY <1>1, <3>2
    <3>4. QED BY <2>1, <2>3, <3>3 DEF SentPlace
  <2>4. QED BY <2>2, <2>3
<1>9. QED BY <1>4, <1>5, <1>6, <1>7, <1>8

-----------------------------------------------------------------------------
(* The two, and what is between them.                                      *)

LEMMA ChainKept ==
  ASSUME Chain, Kept, MainPlace(main') = MainPlace(main), SentPlace(reader') = SentPlace(reader)
  PROVE  Chain'
BY DEF Chain, Kept

LEMMA ChainSends ==
  ASSUME Chain, Numbered, NEW b, Sends(b), b.sequence = Sent, sequence \in Nat, Sent \in Int,
         \A e \in InFlight : e.sequence \in Nat,
         Fits(SentPlace(reader), b.content), SentPlace(reader') = After(b.content),
         MainPlace(main') = MainPlace(main)
  PROVE  Chain'
<1>1. /\ InFlight' = InFlight \cup {b} /\ sequence' = sequence /\ Sent' = Sent + 1
      /\ sequence <= Sent /\ Sent \in Nat
  BY DEF Sends, Numbered
<1>2. \A x \in InFlight : x.sequence \in Nat /\ sequence <= x.sequence /\ x.sequence < Sent
  BY DEF Numbered
<1>3. sequence' # Sent'
  BY <1>1
<1>4. ASSUME NEW x \in InFlight', x.sequence = sequence'
      PROVE  Fits(MainPlace(main'), x.content)
  <2>1. CASE x \in InFlight
    BY <1>1, <1>4, <2>1 DEF Chain
  <2>2. CASE x = b
    BY <1>1, <1>4, <2>2 DEF Chain
  <2>3. QED BY <1>1, <2>1, <2>2
<1>5. ASSUME NEW x \in InFlight', x.sequence = Sent' - 1
      PROVE  After(x.content) = SentPlace(reader')
  <2>1. x \notin InFlight
    BY <1>1, <1>2, <1>5
  <2>2. QED BY <1>1, <2>1
<1>6. ASSUME NEW x \in InFlight', NEW e \in InFlight', e.sequence = x.sequence + 1
      PROVE  Fits(After(x.content), e.content)
  <2>1. CASE x \in InFlight /\ e \in InFlight
    BY <1>6, <2>1 DEF Chain
  <2>2. CASE x \in InFlight /\ e = b
    <3>1. x.sequence = Sent - 1
      BY <1>1, <1>2, <1>6, <2>2
    <3>2. QED BY <2>2, <3>1 DEF Chain
  <2>3. x # b
    BY <1>1, <1>2, <1>6
  <2>4. QED BY <1>1, <2>1, <2>2, <2>3
<1>7. QED BY <1>3, <1>4, <1>5, <1>6 DEF Chain

LEMMA ChainGets ==
  ASSUME Chain, NEW b, Gets(b), sequence \in Nat, Sent \in Int,
         SentPlace(reader') = SentPlace(reader), MainPlace(main') = After(b.content)
  PROVE  Chain'
<1>1. /\ b \in InFlight /\ b.sequence = sequence /\ InFlight' = InFlight \ {b}
      /\ sequence' = sequence + 1 /\ Sent' = Sent
  BY DEF Gets
<1>2. sequence' = Sent' => MainPlace(main') = SentPlace(reader')
  <2>1. sequence' = Sent' => b.sequence = Sent - 1
    BY <1>1
  <2>2. QED BY <1>1, <2>1 DEF Chain
<1>3. \A x \in InFlight' : x.sequence = sequence' => Fits(MainPlace(main'), x.content)
  BY <1>1 DEF Chain
<1>4. QED BY <1>1, <1>2, <1>3 DEF Chain

LEMMA MainStep ==
  ASSUME ReaderInv, FlowInv, FragInv, MainInv, [Next]_vars
  PROVE  \/ MainInv' /\ MainPlace(main') = MainPlace(main)
         \/ \E b : Gets(b) /\ GetBuffer
<1>1. CASE GetBuffer
  <2>1. \/ UNCHANGED <<main, fragments_locked>>
        \/ \E b : Gets(b)
    BY <1>1, GetFlow
  <2>2. ASSUME UNCHANGED <<main, fragments_locked>>
        PROVE  MainInv' /\ MainPlace(main') = MainPlace(main)
    BY <2>2 DEF MainInv, MainTyped
  <2>3. QED BY <1>1, <2>1, <2>2
<1>2. CASE MainOther
  BY <1>2, MainOtherStep
<1>3. CASE ~Main
  <2>1. UNCHANGED <<main, fragments_locked>>
    BY <1>3, MainStill DEF mainVars
  <2>2. QED BY <2>1 DEF MainInv, MainTyped
<1>4. QED BY <1>1, <1>2, <1>3 DEF Main, MainOther

LEMMA ChainStep ==
  ASSUME ReaderInv, FlowInv, FragInv, MainInv, Chain, [Next]_vars
  PROVE  MainInv' /\ Chain'
<1>1. /\ Numbered /\ sequence \in Nat /\ Sent \in Int
      /\ \A e \in InFlight : e \in Buffers /\ e.sequence \in Nat /\ e.content \in Contents
      /\ \A e \in InFlight : Good(e.content)
  BY SentTyped, InFlightTyped DEF FlowInv, FlowTyped, Sound, Buffers
<1>2. CASE SendBlock \/ SendError
  <2>1. UNCHANGED <<main, fragments_locked>>
    BY <1>2 DEF SendBlock, SendError, readerKeeps, mainVars
  <2>2. MainInv' /\ MainPlace(main') = MainPlace(main)
    BY <2>1 DEF MainInv, MainTyped
  <2>3. \E b : Sends(b) /\ b.sequence = Sent
    BY <1>2, SendFlow
  <2>4. PICK b : Sends(b) /\ b.sequence = Sent
    BY <2>3
  <2>5. b = Head(reader.held) /\ reader.held # <<>>
    BY <2>4 DEF Sends
  <2>6. Fits(SentPlace(reader), b.content) /\ SentPlace(reader') = After(b.content)
    BY <1>2, <2>5, HeldFits, SendPlace
  <2>7. Chain'
    BY <1>1, <2>2, <2>4, <2>6, ChainSends
  <2>8. QED BY <2>2, <2>7
<1>3. CASE ~(SendBlock \/ SendError)
  <2>1. SentPlace(reader') = SentPlace(reader)
    <3>1. CASE Reader
      BY <1>3, <3>1, ReadPlace DEF Reader
    <3>2. CASE ~Reader
      BY <3>2, ReaderOnly
    <3>3. QED BY <3>1, <3>2
  <2>2. CASE \E b : Gets(b) /\ GetBuffer
    <3>1. PICK b : Gets(b)
      BY <2>2
    <3>2. /\ b \in InFlight /\ b.sequence = sequence /\ main.pc = "get" /\ Handle(b.content)
      BY <3>1 DEF Gets
    <3>3. Fits(MainPlace(main), b.content) /\ b.content \in Contents /\ Good(b.content)
      BY <1>1, <3>2 DEF Chain
    <3>4. MainInv' /\ MainPlace(main') = After(b.content)
      BY <3>2, <3>3, OutstandingTyped, HandleStep
    <3>5. Chain'
      BY <1>1, <2>1, <3>1, <3>4, ChainGets
    <3>6. QED BY <3>4, <3>5
  <2>3. CASE MainInv' /\ MainPlace(main') = MainPlace(main) /\ ~\E b : Gets(b) /\ GetBuffer
    <3>1. Kept
      BY <1>3, <2>3, FlowCases
    <3>2. QED BY <2>1, <2>3, <3>1, ChainKept
  <2>4. QED BY <2>2, <2>3, MainStep
<1>4. QED BY <1>2, <1>3

MainChain == MainInv /\ Chain

LEMMA ChainAlways == Spec => []MainChain
<1>1. Init => MainChain
  BY MainInit DEF MainChain
<1>2. ReaderInv /\ FlowInv /\ FragInv /\ MainChain /\ [Next]_vars => MainChain'
  BY ChainStep DEF MainChain
<1>3. QED BY ReaderAlways, FlowAlways, FragAlways, <1>1, <1>2, PTL DEF Spec

-----------------------------------------------------------------------------
(* The buffers under way, sorted.                                          *)

(* The numbers of those under way are an interval, so those below one of   *)
(* them are as many as the numbers between.                                *)
LEMMA BelowCount ==
  ASSUME Numbered, sequence \in Nat, Sent \in Int, \A b \in InFlight : b.sequence \in Nat,
         NEW n \in sequence .. Sent
  PROVE  /\ IsFiniteSet({e \in InFlight : e.sequence < n})
         /\ Cardinality({e \in InFlight : e.sequence < n}) = n - sequence
<1> DEFINE S == sequence .. n - 1
           T == {e \in InFlight : e.sequence < n}
           f == [i \in S |-> CHOOSE b \in InFlight : b.sequence = i]
<1>1. \A i \in S : \E b \in InFlight : b.sequence = i
  <2>1. S \subseteq sequence .. Sent - 1
    OBVIOUS
  <2>2. QED BY <2>1 DEF Numbered
<1>2. \A i \in S : f[i] \in InFlight /\ f[i].sequence = i
  BY <1>1
<1>3. \A i \in S : i < n
  OBVIOUS
<1>4. \A t \in T : t.sequence \in S
  BY DEF Numbered
<1>5. f \in [S -> T]
  BY <1>2, <1>3
<1> HIDE DEF S, f
<1>6. \A t \in T : f[t.sequence] = t
  BY <1>2, <1>4 DEF Numbered
<1>7. f \in Injection(S, T)
  BY <1>2, <1>5 DEF Injection, IsInjective
<1>8. f \in Surjection(S, T)
  BY <1>4, <1>5, <1>6 DEF Surjection
<1>9. ExistsBijection(S, T)
  BY <1>7, <1>8 DEF ExistsBijection, Bijection
<1>10. IsFiniteSet(S) /\ Cardinality(S) = n - sequence
  <2>1. sequence \in Int /\ n - 1 \in Int
    OBVIOUS
  <2>2. IsFiniteSet(sequence .. n - 1)
        /\ Cardinality(sequence .. n - 1)
             = IF sequence > n - 1 THEN 0 ELSE n - 1 - sequence + 1
    BY <2>1, FS_Interval
  <2>3. QED BY <2>2 DEF S
<1>11. QED BY <1>9, <1>10, FS_Bijection

LEMMA InFlightCount ==
  ASSUME Numbered, sequence \in Nat, Sent \in Int, \A b \in InFlight : b.sequence \in Nat
  PROVE  IsFiniteSet(InFlight) /\ Cardinality(InFlight) = Sent - sequence
<1>1. Sent \in sequence .. Sent
  BY DEF Numbered
<1>2. {e \in InFlight : e.sequence < Sent} = InFlight
  BY DEF Numbered
<1>3. /\ IsFiniteSet({e \in InFlight : e.sequence < Sent})
      /\ Cardinality({e \in InFlight : e.sequence < Sent}) = Sent - sequence
  BY <1>1, BelowCount
<1>4. QED BY <1>2, <1>3

LEMMA TurnIs ==
  ASSUME Numbered, sequence \in Nat, Sent \in Int, \A b \in InFlight : b.sequence \in Nat,
         NEW b \in InFlight
  PROVE  Turn(b) = b.sequence - sequence + 1
<1>1. b.sequence \in sequence .. Sent
  BY DEF Numbered
<1>2. Cardinality({e \in InFlight : e.sequence < b.sequence}) = b.sequence - sequence
  BY <1>1, BelowCount
<1>3. QED BY <1>2 DEF Turn

LEMMA SortedIs ==
  ASSUME FlowInv, ReaderInv
  PROVE  /\ DOMAIN Sorted = 1 .. Sent - sequence
         /\ \A i \in 1 .. Sent - sequence :
              Sorted[i] \in InFlight /\ Sorted[i].sequence = sequence + i - 1
<1>1. /\ Numbered /\ sequence \in Nat /\ Sent \in Int
      /\ \A b \in InFlight : b.sequence \in Nat
  BY SentTyped, InFlightTyped DEF FlowInv, FlowTyped, Buffers
<1>2. Cardinality(InFlight) = Sent - sequence
  BY <1>1, InFlightCount
<1>3. Sorted = [i \in 1 .. Sent - sequence |-> CHOOSE b \in InFlight : Turn(b) = i]
  BY <1>2 DEF Sorted
<1>4. ASSUME NEW i \in 1 .. Sent - sequence
      PROVE  Sorted[i] \in InFlight /\ Sorted[i].sequence = sequence + i - 1
  <2>1. sequence + i - 1 \in sequence .. Sent - 1
    BY <1>1
  <2>2. PICK b \in InFlight : b.sequence = sequence + i - 1
    BY <1>1, <2>1 DEF Numbered
  <2>3. Turn(b) = b.sequence - sequence + 1
    BY <1>1, TurnIs
  <2>4. Turn(b) = i
    BY <1>1, <2>2, <2>3
  <2>5. Sorted[i] \in InFlight /\ Turn(Sorted[i]) = i
    BY <1>3, <2>4
  <2>6. Turn(Sorted[i]) = Sorted[i].sequence - sequence + 1 /\ Sorted[i].sequence \in Nat
    BY <1>1, <2>5, TurnIs
  <2>7. QED BY <1>1, <2>5, <2>6
<1>5. QED BY <1>3, <1>4

(* The reader and main agree where a file ends: the oldest buffer under    *)
(* way is the first of a file when main is between two files, and the next *)
(* of the file main is in the middle of otherwise, also when the file      *)
(* shrank, grew, failed or was empty as it was read (reader_read_file,     *)
(* reader_read_process, write_file_process, write_file_blocks).            *)
THEOREM FilesAgree == Spec => []FileWhole
<1>1. ReaderInv /\ FlowInv /\ MainChain => FileWhole
  <2> SUFFICES ASSUME ReaderInv, FlowInv, MainChain, InFlight # {}
               PROVE  LET c == Sorted[1].content
                          inside == main.pc = "get" /\ main.mode # "none"
                      IN /\ c.file = IF main.mode = "none" \/ inside \/ main.redo
                                     THEN main.files + 1 ELSE main.files + 2
                         /\ c.block = IF inside THEN main.got + 1 ELSE 1
    BY DEF FileWhole
  <2>1. /\ Numbered /\ sequence \in Nat /\ Sent \in Int
    BY SentTyped DEF FlowInv, FlowTyped
  <2>2. PICK b \in InFlight : sequence <= b.sequence /\ b.sequence < Sent /\ b.sequence \in Nat
    BY <2>1, InFlightTyped DEF FlowInv, Numbered, Buffers
  <2>3. 1 \in 1 .. Sent - sequence
    BY <2>1, <2>2
  <2>4. Sorted[1] \in InFlight /\ Sorted[1].sequence = sequence + 1 - 1
    BY <2>3, SortedIs
  <2>5. Fits(MainPlace(main), Sorted[1].content)
    BY <2>1, <2>4 DEF MainChain, Chain
  <2>6. main.mode = "none" => main.pc = "get" \/ main.pc = "finished"
    BY DEF MainChain, MainInv, MainShape
  <2>7. QED BY <2>5, <2>6 DEF Fits, MainPlace, Spot
<1>2. QED BY <1>1, ReaderAlways, FlowAlways, ChainAlways, PTL

-----------------------------------------------------------------------------
(* What the writer has to do: blocks, or blocks and then the NULL that     *)
(* main waits for the answer to.                                           *)
Plain(q) == \A i \in 1 .. Len(q) : q[i] = "buffer"
Asking(q) == /\ q # <<>> /\ q[Len(q)] = "NULL"
             /\ \A i \in 1 .. Len(q) - 1 : q[i] = "buffer"

LEMMA PlainMore ==
  ASSUME NEW q \in Seq({"buffer", "NULL"}), Plain(q), NEW n \in Nat
  PROVE  LET more == q \o [i \in 1 .. n |-> "buffer"]
         IN more \in Seq({"buffer", "NULL"}) /\ Len(more) = Len(q) + n /\ Plain(more)
<1> DEFINE m == [i \in 1 .. n |-> "buffer"]
<1>1. m \in Seq({"buffer", "NULL"}) /\ Len(m) = n /\ \A i \in 1 .. n : m[i] = "buffer"
  OBVIOUS
<1> HIDE DEF m
<1>2. Len(q) \in Nat
  OBVIOUS
<1>3. /\ q \o m \in Seq({"buffer", "NULL"}) /\ Len(q \o m) = Len(q) + n
      /\ \A i \in 1 .. Len(q) + n :
           (q \o m)[i] = IF i <= Len(q) THEN q[i] ELSE m[i - Len(q)]
  BY <1>1, ConcatProperties
<1>4. ASSUME NEW i \in 1 .. Len(q) + n PROVE (q \o m)[i] = "buffer"
  <2>1. CASE i <= Len(q)
    BY <1>2, <1>3, <2>1 DEF Plain
  <2>2. CASE ~(i <= Len(q))
    <3>1. i - Len(q) \in 1 .. n
      BY <1>2, <2>2
    <3>2. QED BY <1>1, <1>3, <2>2, <3>1
  <2>3. QED BY <2>1, <2>2
<1>5. QED BY <1>3, <1>4 DEF Plain, m

LEMMA PlainAppend ==
  ASSUME NEW q \in Seq({"buffer", "NULL"}), Plain(q)
  PROVE  /\ Plain(Append(q, "buffer")) /\ Asking(Append(q, "NULL"))
         /\ Len(Append(q, "buffer")) = Len(q) + 1 /\ Len(Append(q, "NULL")) = Len(q) + 1
         /\ Append(q, "buffer") \in Seq({"buffer", "NULL"})
         /\ Append(q, "NULL") \in Seq({"buffer", "NULL"})
<1>1. ASSUME NEW x \in {"buffer", "NULL"}
      PROVE  /\ Append(q, x) \in Seq({"buffer", "NULL"}) /\ Len(Append(q, x)) = Len(q) + 1
             /\ \A i \in 1 .. Len(q) : Append(q, x)[i] = q[i]
             /\ Append(q, x)[Len(q) + 1] = x /\ Len(q) \in Nat
  BY AppendIs
<1>2. Plain(Append(q, "buffer"))
  <2>1. \A i \in 1 .. Len(q) + 1 : i \in 1 .. Len(q) \/ i = Len(q) + 1
    BY <1>1
  <2>2. QED BY <1>1, <2>1 DEF Plain
<1>3. Asking(Append(q, "NULL"))
  <2>1. Len(q) + 1 - 1 = Len(q) /\ Len(q) + 1 # 0 /\ Len(<<>>) = 0
    BY <1>1
  <2>2. Append(q, "NULL") # <<>>
    BY <1>1, <2>1
  <2>3. QED BY <1>1, <2>1, <2>2 DEF Plain, Asking
<1>4. QED BY <1>1, <1>2, <1>3

LEMMA TailPlain ==
  ASSUME NEW q \in Seq({"buffer", "NULL"}), q # <<>>
  PROVE  /\ Tail(q) \in Seq({"buffer", "NULL"}) /\ Len(Tail(q)) = Len(q) - 1
         /\ Plain(q) => Plain(Tail(q)) /\ Head(q) = "buffer"
         /\ Asking(q) /\ Head(q) = "buffer" => Asking(Tail(q))
         /\ Asking(q) /\ Head(q) = "NULL" => Len(q) = 1
<1>1. /\ Len(q) \in Nat \ {0} /\ Tail(q) \in Seq({"buffer", "NULL"})
      /\ Len(Tail(q)) = Len(q) - 1 /\ Head(q) = q[1]
      /\ \A i \in 1 .. Len(q) - 1 : Tail(q)[i] = q[i + 1]
  BY TailIs
<1>2. Plain(q) => Plain(Tail(q)) /\ Head(q) = "buffer"
  <2>1. \A i \in 1 .. Len(q) - 1 : i + 1 \in 1 .. Len(q)
    BY <1>1
  <2>2. 1 \in 1 .. Len(q)
    BY <1>1
  <2>3. QED BY <1>1, <2>1, <2>2 DEF Plain
<1>3. ASSUME Asking(q), Head(q) = "NULL" PROVE Len(q) = 1
  <2>1. ~(1 \in 1 .. Len(q) - 1)
    BY <1>1, <1>3 DEF Asking
  <2>2. QED BY <1>1, <2>1
<1>4. ASSUME Asking(q), Head(q) = "buffer" PROVE Asking(Tail(q))
  <2>1. Len(q) # 1
    BY <1>1, <1>4 DEF Asking
  <2>2. Len(Tail(q)) \in 1 .. Len(q) - 1 /\ Len(Tail(q)) + 1 = Len(q)
    BY <1>1, <2>1
  <2>3. Tail(q)[Len(Tail(q))] = "NULL"
    BY <1>1, <1>4, <2>2 DEF Asking
  <2>4. Tail(q) # <<>>
    <3>1. Len(<<>>) = 0 /\ Len(Tail(q)) # 0
      BY <2>2
    <3>2. QED BY <3>1
  <2>5. ASSUME NEW i \in 1 .. Len(Tail(q)) - 1 PROVE Tail(q)[i] = "buffer"
    <3>1. i \in 1 .. Len(q) - 1 /\ i + 1 \in 1 .. Len(q) - 1
      BY <1>1, <2>2
    <3>2. QED BY <1>1, <1>4, <3>1 DEF Asking
  <2>6. QED BY <2>3, <2>4, <2>5 DEF Asking
<1>5. QED BY <1>1, <1>2, <1>3, <1>4

(* The blocks of the queue, by their number.                               *)
LEMMA PlainCount ==
  ASSUME NEW q \in Seq({"buffer", "NULL"})
  PROVE  /\ Plain(q) => Cardinality({i \in DOMAIN q : q[i] = "buffer"}) = Len(q)
         /\ Asking(q) => Cardinality({i \in DOMAIN q : q[i] = "buffer"}) = Len(q) - 1
<1>1. DOMAIN q = 1 .. Len(q) /\ Len(q) \in Nat
  OBVIOUS
<1>2. \A n \in Nat : Cardinality(1 .. n) = n
  <2>1. ASSUME NEW n \in Nat PROVE Cardinality(1 .. n) = n
    <3>1. Cardinality(1 .. n) = IF 1 > n THEN 0 ELSE n - 1 + 1
      BY FS_Interval
    <3>2. QED BY <3>1
  <2>2. QED BY <2>1
<1>3. ASSUME Plain(q) PROVE Cardinality({i \in DOMAIN q : q[i] = "buffer"}) = Len(q)
  <2>1. {i \in DOMAIN q : q[i] = "buffer"} = 1 .. Len(q)
    BY <1>1, <1>3 DEF Plain
  <2>2. QED BY <1>1, <1>2, <2>1
<1>4. ASSUME Asking(q) PROVE Cardinality({i \in DOMAIN q : q[i] = "buffer"}) = Len(q) - 1
  <2>1. Len(q) - 1 \in Nat
    BY <1>1, <1>4, EmptySeq DEF Asking
  <2>2. {i \in DOMAIN q : q[i] = "buffer"} = 1 .. Len(q) - 1
    <3>0. \A l \in Nat : \A i : i \in 1 .. l - 1 <=> i \in 1 .. l /\ i # l
      OBVIOUS
    <3>1. \A i : i \in 1 .. Len(q) - 1 <=> i \in 1 .. Len(q) /\ i # Len(q)
      BY <1>1, <3>0
    <3>2. \A i \in 1 .. Len(q) : q[i] = "buffer" <=> i # Len(q)
      BY <1>4, <3>1 DEF Asking
    <3>3. QED BY <1>1, <3>1, <3>2
  <2>3. QED BY <1>2, <2>1, <2>2
<1>5. QED BY <1>3, <1>4

-----------------------------------------------------------------------------
(* The writer.                                                             *)

(* Main has asked for the flush and has no answer yet.                     *)
Asked == main.pc = "flush" /\ from_writer = <<>>

WriterInv ==
  /\ to_writer \in Seq({"buffer", "NULL"}) /\ Len(to_writer) <= WriterBuffers
  /\ from_writer \in Seq({"ok"}) /\ Len(from_writer) <= 1
  /\ main.pc # "flush" => from_writer = <<>>
  /\ IF Asked THEN Asking(to_writer) ELSE Plain(to_writer)

(* The blocks the writer has to write.                                     *)
Writes == IF Asked THEN Len(to_writer) - 1 ELSE Len(to_writer)

LEMMA WritesTyped ==
  ASSUME WriterInv
  PROVE  /\ Writes \in Nat
         /\ Writes = Cardinality({i \in DOMAIN to_writer : to_writer[i] = "buffer"})
<1>1. to_writer \in Seq({"buffer", "NULL"}) /\ Len(to_writer) \in Nat
  BY DEF WriterInv
<1>2. ASSUME Asked PROVE Len(to_writer) \in Nat \ {0} /\ Asking(to_writer)
  <2>1. Asking(to_writer)
    BY <1>2 DEF WriterInv
  <2>2. to_writer # <<>>
    BY <2>1 DEF Asking
  <2>3. QED BY <1>1, <2>1, <2>2, EmptySeq
<1>3. CASE Asked
  <2>1. Cardinality({i \in DOMAIN to_writer : to_writer[i] = "buffer"}) = Len(to_writer) - 1
    BY <1>1, <1>2, <1>3, PlainCount
  <2>2. QED BY <1>2, <1>3, <2>1 DEF Writes
<1>4. CASE ~Asked
  <2>1. Plain(to_writer)
    BY <1>4 DEF WriterInv
  <2>2. Cardinality({i \in DOMAIN to_writer : to_writer[i] = "buffer"}) = Len(to_writer)
    BY <1>1, <2>1, PlainCount
  <2>3. QED BY <1>1, <1>4, <2>2 DEF Writes
<1>5. QED BY <1>3, <1>4

WritesNat == Writes \in Nat
LEMMA WritesNow == WriterInv => WritesNat
BY WritesTyped DEF WritesNat
LEMMA WritesNext ==
  ASSUME WriterInv'
  PROVE  Writes' \in Nat
<1>1. WriterInv' => WritesNat'
  BY WritesNow, PTL
<1>2. QED BY <1>1 DEF WritesNat

LEMMA WriterInit == Init => WriterInv /\ Writes = 0
<1> SUFFICES ASSUME Init PROVE WriterInv /\ Writes = 0
  OBVIOUS
<1>1. main.pc = "get" /\ to_writer = <<>> /\ from_writer = <<>>
  BY DEF Init, Between
<1>2. Len(<<>>) = 0 /\ <<>> \in Seq({"ok"}) /\ <<>> \in Seq({"buffer", "NULL"})
  OBVIOUS
<1>3. Plain(<<>>)
  BY <1>2 DEF Plain
<1>4. QED BY <1>1, <1>2, <1>3 DEF WriterInv, Writes, Asked

LEMMA WriterSame ==
  ASSUME WriterInv, UNCHANGED <<to_writer, from_writer>>,
         main'.pc = "flush" <=> main.pc = "flush"
  PROVE  WriterInv' /\ Writes' = Writes
BY DEF WriterInv, Writes, Asked

(* Blocks are put into the queue, when main does not wait for the flush.   *)
LEMMA WriterMore ==
  ASSUME WriterInv, main.pc # "flush", main'.pc # "flush", from_writer' = from_writer,
         NEW n \in Nat, Len(to_writer) + n <= WriterBuffers,
         to_writer' = to_writer \o [i \in 1 .. n |-> "buffer"]
  PROVE  WriterInv' /\ Writes' = Writes + n
<1>1. Plain(to_writer) /\ ~Asked /\ ~Asked' /\ to_writer \in Seq({"buffer", "NULL"})
  BY DEF WriterInv, Asked
<1>2. /\ to_writer' \in Seq({"buffer", "NULL"}) /\ Len(to_writer') = Len(to_writer) + n
      /\ Plain(to_writer')
  BY <1>1, PlainMore
<1>3. QED BY <1>1, <1>2 DEF WriterInv, Writes

LEMMA WriterOneMore ==
  ASSUME WriterInv, main.pc # "flush", main'.pc # "flush", from_writer' = from_writer,
         HasRoom(to_writer, WriterBuffers), to_writer' = Append(to_writer, "buffer")
  PROVE  WriterInv' /\ Writes' = Writes + 1
<1>1. Plain(to_writer) /\ ~Asked /\ ~Asked' /\ to_writer \in Seq({"buffer", "NULL"})
  BY DEF WriterInv, Asked
<1>2. /\ to_writer' \in Seq({"buffer", "NULL"}) /\ Len(to_writer') = Len(to_writer) + 1
      /\ Plain(to_writer') /\ Len(to_writer) \in Nat
  BY <1>1, PlainAppend
<1>3. Len(to_writer) < WriterBuffers
  BY DEF HasRoom
<1>4. Len(to_writer') <= WriterBuffers
  BY <1>2, <1>3
<1>5. QED BY <1>1, <1>2, <1>4 DEF WriterInv, Writes

LEMMA WriterAsked ==
  ASSUME WriterInv, AskFlush, main'.pc = "flush"
  PROVE  WriterInv' /\ Writes' = Writes
<1>1. /\ main.pc = "truncate" /\ from_writer' = from_writer
      /\ HasRoom(to_writer, WriterBuffers) /\ to_writer' = Append(to_writer, "NULL")
  BY DEF AskFlush
<1>2. Plain(to_writer) /\ ~Asked /\ Asked' /\ to_writer \in Seq({"buffer", "NULL"})
  BY <1>1 DEF WriterInv, Asked
<1>3. /\ to_writer' \in Seq({"buffer", "NULL"}) /\ Len(to_writer') = Len(to_writer) + 1
      /\ Asking(to_writer') /\ Len(to_writer) \in Nat
  BY <1>1, <1>2, PlainAppend
<1>4. Len(to_writer) < WriterBuffers
  BY <1>1 DEF HasRoom
<1>5. Len(to_writer') <= WriterBuffers /\ Len(to_writer') - 1 = Len(to_writer)
  BY <1>3, <1>4
<1>6. QED BY <1>1, <1>2, <1>3, <1>5 DEF WriterInv, Writes

LEMMA WriterFlushed ==
  ASSUME WriterInv, Flushed, main'.pc # "flush"
  PROVE  WriterInv' /\ Writes' = Writes
<1>1. /\ from_writer # <<>> /\ from_writer' = Tail(from_writer) /\ to_writer' = to_writer
  BY DEF Flushed
<1>2. from_writer \in Seq({"ok"}) /\ Len(from_writer) <= 1 /\ Plain(to_writer)
  BY <1>1 DEF WriterInv, Asked
<1>3. from_writer' \in Seq({"ok"}) /\ Len(from_writer') = 0 /\ from_writer' = <<>>
  <2>1. Len(from_writer) \in Nat \ {0} /\ Len(Tail(from_writer)) = Len(from_writer) - 1
        /\ Tail(from_writer) \in Seq({"ok"})
    BY <1>1, <1>2, TailIs
  <2>2. Len(from_writer) = 1
    BY <1>2, <2>1
  <2>3. Len(Tail(from_writer)) = 0
    BY <2>1, <2>2
  <2>4. QED BY <1>1, <2>1, <2>3, EmptySeq
<1>4. ~Asked /\ ~Asked'
  BY <1>1 DEF Asked
<1>5. QED BY <1>1, <1>2, <1>3, <1>4 DEF WriterInv, Writes

LEMMA WriterStep ==
  ASSUME WriterInv, Writer
  PROVE  /\ WriterInv'
         /\ \/ Writes' = Writes - 1 /\ writer_buffer' = writer_buffer - 1
            \/ Writes' = Writes /\ writer_buffer' = writer_buffer
<1>1. /\ to_writer # <<>> /\ to_writer' = Tail(to_writer) /\ main' = main
      /\ to_writer \in Seq({"buffer", "NULL"}) /\ Len(to_writer) <= WriterBuffers
      /\ from_writer \in Seq({"ok"})
  BY DEF Writer, WriterInv, mainVars
<1>2. /\ Tail(to_writer) \in Seq({"buffer", "NULL"})
      /\ Len(Tail(to_writer)) = Len(to_writer) - 1
      /\ Plain(to_writer) => Plain(Tail(to_writer)) /\ Head(to_writer) = "buffer"
      /\ Asking(to_writer) /\ Head(to_writer) = "buffer" => Asking(Tail(to_writer))
      /\ Asking(to_writer) /\ Head(to_writer) = "NULL" => Len(to_writer) = 1
  BY <1>1, TailPlain
<1>3. /\ to_writer' \in Seq({"buffer", "NULL"}) /\ Len(to_writer') = Len(to_writer) - 1
      /\ Len(to_writer) \in Nat /\ Len(to_writer') <= WriterBuffers
  BY <1>1, <1>2
<1>4. CASE /\ Head(to_writer) = "buffer" /\ writer_buffer' = writer_buffer - 1
           /\ from_writer' = from_writer
  <2>1. Asked' <=> Asked
    BY <1>1, <1>4 DEF Asked
  <2>2. WriterInv'
    BY <1>1, <1>2, <1>3, <1>4, <2>1 DEF WriterInv
  <2>3. Writes' = Writes - 1
    BY <1>3, <2>1 DEF Writes
  <2>4. QED BY <1>4, <2>2, <2>3
<1>5. CASE /\ Head(to_writer) = "NULL" /\ from_writer' = Append(from_writer, "ok")
           /\ writer_buffer' = writer_buffer
  <2>1. Asked /\ Asking(to_writer)
    BY <1>2, <1>5 DEF WriterInv
  <2>2. from_writer = <<>> /\ main.pc = "flush" /\ Len(to_writer) = 1
    BY <1>2, <1>5, <2>1 DEF Asked
  <2>3. from_writer' = <<"ok">> /\ <<"ok">> # <<>> /\ <<"ok">> \in Seq({"ok"})
        /\ Len(<<"ok">>) = 1
    BY <1>5, <2>2
  <2>4. ~Asked'
    BY <2>3 DEF Asked
  <2>5. Len(to_writer') = 0 /\ Plain(to_writer')
    BY <1>3, <2>2 DEF Plain
  <2>6. WriterInv'
    BY <1>1, <1>3, <2>2, <2>3, <2>4, <2>5 DEF WriterInv
  <2>7. Writes' = Writes
    BY <2>1, <2>2, <2>4, <2>5 DEF Writes
  <2>8. QED BY <1>5, <2>6, <2>7
<1>6. QED BY <1>4, <1>5 DEF Writer

-----------------------------------------------------------------------------
(* The buffers under way that the deflators are done with.                 *)

LEMMA CompressedFinite ==
  ASSUME ReaderInv, FlowInv
  PROVE  /\ IsFiniteSet(Compressed) /\ Cardinality(Compressed) \in Nat
         /\ Cardinality(Compressed) <= Cardinality(InFlight)
         /\ Cardinality(InFlight) = Sent - sequence /\ IsFiniteSet(InFlight)
<1>1. /\ Numbered /\ sequence \in Nat /\ Sent \in Int
      /\ \A b \in InFlight : b.sequence \in Nat
  BY SentTyped, InFlightTyped DEF FlowInv, FlowTyped, Buffers
<1>2. IsFiniteSet(InFlight) /\ Cardinality(InFlight) = Sent - sequence
  BY <1>1, InFlightCount
<1>3. Compressed \subseteq InFlight
  BY DEF Compressed
<1>4. IsFiniteSet(Compressed) /\ Cardinality(Compressed) <= Cardinality(InFlight)
  BY <1>2, <1>3, FS_Subset
<1>5. QED BY <1>2, <1>4, FS_CardinalityType

FlowsWell == ReaderInv /\ FlowInv
CompressedNat == Cardinality(Compressed) \in Nat
LEMMA CompressedNow == FlowsWell => CompressedNat
BY CompressedFinite DEF FlowsWell, CompressedNat
LEMMA CompressedNext ==
  ASSUME ReaderInv', FlowInv'
  PROVE  Cardinality(Compressed)' \in Nat
<1>1. FlowsWell' => CompressedNat'
  BY CompressedNow, PTL
<1>2. QED BY <1>1 DEF FlowsWell, CompressedNat

LEMMA CompressedSame ==
  ASSUME InFlight' = InFlight, UNCHANGED <<from_reader, deflator>>
  PROVE  Compressed' = Compressed
BY DEF Compressed

LEMMA CompressedSends ==
  ASSUME ReaderInv, FlowInv, SendBlock \/ SendError
  PROVE  Compressed' = Compressed
<1>1. PICK b : Sends(b) /\ b.sequence = Sent
  BY SendFlow
<1>2. InFlight' = InFlight \cup {b} /\ reader.held # <<>> /\ b = Head(reader.held)
  BY <1>1 DEF Sends
<1>3. b \in Buffers /\ from_reader \in Seq(Buffers)
  BY <1>2, HeadHeld DEF FlowInv, FlowTyped
<1>4. b \notin InFlight
  BY <1>1, NotYet, SentTyped DEF FlowInv, FlowTyped
<1>5. deflator' = deflator
  BY DEF SendBlock, SendError, readerKeeps
<1>6. CASE SendBlock
  <2>1. from_reader' = Append(from_reader, b)
    BY <1>2, <1>6 DEF SendBlock
  <2>2. Range(from_reader') = Range(from_reader) \cup {b}
    BY <1>3, <2>1, AppendOnce
  <2>3. QED BY <1>2, <1>4, <1>5, <2>2 DEF Compressed
<1>7. CASE SendError
  <2>1. from_reader' = from_reader /\ ~IsData(b)
    BY <1>2, <1>7 DEF SendError, IsData
  <2>2. QED BY <1>2, <1>4, <1>5, <2>1 DEF Compressed
<1>8. QED BY <1>6, <1>7

(* TakeBlock and PutBlock move a buffer, Compress compresses it.           *)
LEMMA CompressedMoves ==
  ASSUME FlowInv, NEW d \in Deflators, TakeBlock(d) \/ PutBlock(d)
  PROVE  Compressed' = Compressed
<1>1. /\ from_reader \in Seq(Buffers) /\ IsInjective(from_reader) /\ Apart /\ Sound /\ FlowTyped
      /\ deflator \in [Deflators -> {Fresh} \cup [state : {"compress", "put"}, buffer : Buffers]]
  BY DEF FlowInv, FlowTyped, Apart
<1>2. Deflate(d)
  BY DEF Deflate
<1>3. InFlight' = InFlight
  BY <1>2, DeflateFlow
<1>4. CASE TakeBlock(d)
  <2> DEFINE b == Head(from_reader)
             s == IF b.content.kind = "data" THEN "compress" ELSE "put"
  <2>1. /\ deflator[d].state = "idle" /\ from_reader # <<>> /\ from_reader' = Tail(from_reader)
        /\ deflator' = [deflator EXCEPT ![d] = [state |-> s, buffer |-> b]]
    BY <1>4 DEF TakeBlock
  <2>2. /\ Range(from_reader') = Range(from_reader) \ {b} /\ b \in Range(from_reader)
    BY <1>1, <2>1, TailOnce
  <2>3. s = "compress" <=> IsData(b)
    BY <1>1, <2>2 DEF Sound, IsData
  <2> HIDE DEF b, s
  <2>4. \A x \in Deflators : deflator'[x] = IF x = d THEN [state |-> s, buffer |-> b]
                                                    ELSE deflator[x]
    BY <1>1, <2>1
  <2>5. \A e : deflator[d] # [state |-> "compress", buffer |-> e]
    BY <2>1
  <2>6. \A e : [state |-> s, buffer |-> b] = [state |-> "compress", buffer |-> e]
                 <=> e = b /\ s = "compress"
    BY SMTT(30)
  <2>7. ASSUME NEW e \in InFlight, IsData(e)
        PROVE  e \in Compressed' <=> e \in Compressed
    <3>1. CASE e = b
      <4>1. e \notin Compressed
        BY <2>2, <3>1 DEF Compressed
      <4>2. deflator'[d] = [state |-> "compress", buffer |-> e]
        BY <2>3, <2>4, <2>7, <3>1
      <4>3. e \notin Compressed'
        BY <4>2 DEF Compressed
      <4>4. QED BY <4>1, <4>3
    <3>2. CASE e # b
      <4>1. e \in Range(from_reader') <=> e \in Range(from_reader)
        BY <2>2, <3>2
      <4>2. \A x \in Deflators : deflator'[x] = [state |-> "compress", buffer |-> e]
                               <=> deflator[x] = [state |-> "compress", buffer |-> e]
        BY <2>4, <2>5, <2>6, <3>2
      <4>3. QED BY <1>3, <4>1, <4>2 DEF Compressed
    <3>3. QED BY <3>1, <3>2
  <2>8. \A e \in Compressed : e \in InFlight /\ IsData(e)
    BY DEF Compressed
  <2>9. \A e \in Compressed' : e \in InFlight /\ IsData(e)
    BY <1>3 DEF Compressed
  <2>10. QED BY <2>7, <2>8, <2>9
<1>5. CASE PutBlock(d)
  <2>1. /\ deflator[d].state = "put" /\ from_reader' = from_reader
        /\ deflator' = [deflator EXCEPT ![d] = Fresh]
    BY <1>5 DEF PutBlock
  <2>2. \A x \in Deflators : deflator'[x] = IF x = d THEN Fresh ELSE deflator[x]
    BY <1>1, <2>1
  <2>3. \A e : /\ deflator[d] # [state |-> "compress", buffer |-> e]
               /\ Fresh # [state |-> "compress", buffer |-> e]
    BY <2>1 DEF Fresh
  <2>4. \A e : \A x \in Deflators : deflator'[x] = [state |-> "compress", buffer |-> e]
                               <=> deflator[x] = [state |-> "compress", buffer |-> e]
    BY <2>2, <2>3
  <2>5. QED BY <1>3, <2>1, <2>4 DEF Compressed
<1>6. QED BY <1>4, <1>5

LEMMA CompressedMore ==
  ASSUME ReaderInv, FlowInv, NEW d \in Deflators, Compress(d)
  PROVE  Cardinality(Compressed)' = Cardinality(Compressed) + 1
<1>1. /\ deflator \in [Deflators -> {Fresh} \cup [state : {"compress", "put"}, buffer : Buffers]]
      /\ Apart /\ Sound /\ FlowTyped
  BY DEF FlowInv, FlowTyped
<1>2. /\ deflator[d].state = "compress" /\ from_reader' = from_reader
      /\ deflator' = [deflator EXCEPT ![d].state = "put"]
  BY DEF Compress, deflatorKeeps
<1>3. InFlight' = InFlight
  BY DeflateFlow DEF Deflate
<1> DEFINE b == deflator[d].buffer
<1>4. deflator[d] = [state |-> "compress", buffer |-> b] /\ b \in Carried /\ IsData(b)
  <2>1. Busy(d)
    BY <1>2 DEF Busy
  <2>2. deflator[d] \in [state : {"compress", "put"}, buffer : Buffers] /\ b \in Carried
    BY <1>1, <2>1, BusyTyped
  <2>3. deflator[d] = [state |-> "compress", buffer |-> b]
    BY <1>2, <2>2
  <2>4. QED BY <1>1, <1>2, <2>2, <2>3 DEF Sound
<1> HIDE DEF b
<1>5. \A x \in Deflators : deflator'[x] = IF x = d THEN [state |-> "put", buffer |-> b]
                                                  ELSE deflator[x]
  <2>1. [deflator[d] EXCEPT !.state = "put"] = [state |-> "put", buffer |-> b]
    BY <1>4
  <2>2. deflator' = [deflator EXCEPT ![d] = [deflator[d] EXCEPT !.state = "put"]]
    BY <1>2
  <2>3. QED BY <1>1, <2>1, <2>2
<1>6. \A e : [state |-> "put", buffer |-> b] # [state |-> "compress", buffer |-> e]
  OBVIOUS
<1>7. b \in InFlight /\ b \notin Range(from_reader)
  BY <1>1, <1>4 DEF InFlight, Apart
<1>8. \A x \in Deflators : deflator[x] = [state |-> "compress", buffer |-> b] => x = d
  <2>1. ASSUME NEW x \in Deflators, deflator[x] = [state |-> "compress", buffer |-> b]
        PROVE  x = d
    <3>1. Busy(x) /\ Busy(d) /\ deflator[x].buffer = deflator[d].buffer
      BY <1>4, <2>1 DEF Busy, b
    <3>2. QED BY <1>1, <3>1 DEF Apart
  <2>2. QED BY <2>1
<1>9. b \notin Compressed
  BY <1>4 DEF Compressed
<1>10. Compressed' = Compressed \cup {b}
  <2>1. \A x \in Deflators : deflator'[x] # [state |-> "compress", buffer |-> b]
    BY <1>5, <1>6, <1>8
  <2>2. b \in Compressed'
    BY <1>2, <1>3, <1>4, <1>7, <2>1 DEF Compressed
  <2>3. ASSUME NEW e, e # b PROVE e \in Compressed' <=> e \in Compressed
    <3>1. \A y : [state |-> "compress", buffer |-> y] = [state |-> "compress", buffer |-> e]
                   => y = e
      BY SMTT(30)
    <3>2. \A x \in Deflators : deflator'[x] = [state |-> "compress", buffer |-> e]
                           <=> deflator[x] = [state |-> "compress", buffer |-> e]
      BY <1>4, <1>5, <1>6, <2>3, <3>1
    <3>3. QED BY <1>2, <1>3, <3>2 DEF Compressed
  <2>4. QED BY <2>2, <2>3
<1>11. Cardinality(Compressed \cup {b}) = Cardinality(Compressed) + 1
  BY <1>9, CompressedFinite, FS_AddElement
<1>12. QED BY <1>10, <1>11

(* Main gets one of them, or a buffer that was not compressed.             *)
LEMMA CompressedGets ==
  ASSUME ReaderInv, FlowInv, GetBuffer, NEW b, Gets(b)
  PROVE  Cardinality(Compressed)' = Cardinality(Compressed) - (IF IsData(b) THEN 1 ELSE 0)
<1>1. /\ InFlight' = InFlight \ {b} /\ b \in InFlight
      /\ UNCHANGED <<from_reader, deflator>>
  BY DEF Gets, GetBuffer
<1>2. Range(from_reader) \subseteq InFlight' /\ Carried' = Carried /\ Carried \subseteq InFlight'
  BY <1>1 DEF InFlight, Carried
<1>3. b \notin Range(from_reader) /\ b \notin Carried
  BY <1>1, <1>2
<1>4. \A x \in Deflators : deflator[x] # [state |-> "compress", buffer |-> b]
  <2>1. ASSUME NEW x \in Deflators, deflator[x] = [state |-> "compress", buffer |-> b]
        PROVE  FALSE
    <3>1. Busy(x) /\ deflator[x].buffer = b
      BY <2>1 DEF Busy
    <3>2. QED BY <1>3, <3>1, BusyTyped DEF FlowInv
  <2>2. QED BY <2>1
<1>5. Compressed' = Compressed \ {b}
  BY <1>1 DEF Compressed
<1>6. b \in Compressed <=> IsData(b)
  BY <1>1, <1>3, <1>4 DEF Compressed
<1>7. IsFiniteSet(Compressed) /\ Cardinality(Compressed) \in Nat
  BY CompressedFinite
<1>8. CASE IsData(b)
  <2>1. Cardinality(Compressed \ {b}) = Cardinality(Compressed) - 1
    BY <1>6, <1>7, <1>8, FS_RemoveElement
  <2>2. QED BY <1>5, <1>8, <2>1
<1>9. CASE ~IsData(b)
  <2>1. Compressed \ {b} = Compressed
    BY <1>6, <1>9
  <2>2. Compressed' = Compressed
    BY <1>5, <2>1
  <2>3. Cardinality(Compressed)' = Cardinality(Compressed)
    BY <2>2
  <2>4. QED BY <1>7, <1>9, <2>3
<1>10. QED BY <1>8, <1>9

-----------------------------------------------------------------------------
(* The counts.  A number the reader gave to a buffer that main has not got *)
(* yet stands for a reader buffer, unless a deflator put the block into a  *)
(* writer buffer; main keeps the tail of a file in its reader buffer.      *)
ReaderCount ==
  /\ reader_buffer <= ReaderBuffers
  /\ reader_buffer = reader.seq - sequence - Cardinality(Compressed) + main.tail

WriterCount ==
  /\ writer_buffer <= WriterBuffers
  /\ writer_buffer = Cardinality(Compressed) + main.held + Cardinality(FragDone)
                       + frag_locked_list + Writes

CountInv == ReaderCount /\ WriterCount /\ WriterInv

(* What the counts are made of are numbers.                                *)
LEMMA CountTyped ==
  ASSUME ReaderInv, FlowInv, FragInv, MainInv, CountInv
  PROVE  /\ reader.seq \in Nat /\ sequence \in Nat /\ Cardinality(Compressed) \in Nat
         /\ main.tail \in {0, 1} /\ main.held \in Nat /\ Cardinality(FragDone) \in Nat
         /\ frag_locked_list \in Nat /\ Writes \in Nat /\ fragments_outstanding \in Nat
         /\ reader_buffer \in Int /\ writer_buffer \in Nat /\ Len(to_writer) \in Nat
         /\ to_writer \in Seq({"buffer", "NULL"})
         /\ reader_buffer <= ReaderBuffers
         /\ reader_buffer = reader.seq - sequence - Cardinality(Compressed) + main.tail
         /\ writer_buffer <= WriterBuffers
         /\ writer_buffer = Cardinality(Compressed) + main.held + Cardinality(FragDone)
                              + frag_locked_list + Writes
<1>1. reader.seq \in Nat /\ sequence \in Nat
  BY ReaderFields DEF FlowInv, FlowTyped
<1>2. main.tail \in {0, 1} /\ main.held \in Nat
  BY MainFields DEF MainInv
<1>3. frag_locked_list \in Nat /\ Cardinality(FragDone) \in Nat
  BY FragFinite DEF FragInv, FragTyped
<1>4. Writes \in Nat /\ to_writer \in Seq({"buffer", "NULL"}) /\ Len(to_writer) \in Nat
  BY WritesTyped DEF CountInv, WriterInv
<1>5. Cardinality(Compressed) \in Nat
  BY CompressedFinite
<1>6. ReaderCount /\ WriterCount
  BY DEF CountInv
<1>7. fragments_outstanding \in Nat
  BY OutstandingTyped
<1>8. reader_buffer <= ReaderBuffers
      /\ reader_buffer = reader.seq - sequence - Cardinality(Compressed) + main.tail
  BY <1>6 DEF ReaderCount
<1>9. /\ writer_buffer <= WriterBuffers
      /\ writer_buffer = Cardinality(Compressed) + main.held + Cardinality(FragDone)
                            + frag_locked_list + Writes
  BY <1>6 DEF WriterCount
<1>10. reader_buffer \in Int
  BY <1>1, <1>2, <1>5, <1>8
<1>11. writer_buffer \in Nat
  BY <1>2, <1>3, <1>4, <1>5, <1>9
<1>12. QED BY <1>1, <1>2, <1>3, <1>4, <1>5, <1>7, <1>8, <1>9, <1>10, <1>11

LEMMA CountInit == Init => CountInv
<1> SUFFICES ASSUME Init PROVE CountInv
  OBVIOUS
<1>1. WriterInv /\ Writes = 0
  BY WriterInit
<1>2. FragDone = {}
  BY DEF Init, FragDone
<1>3. Compressed = {}
  <2>1. \A d \in Deflators : deflator[d].state = "idle"
    BY DEF Init, Fresh
  <2>2. Carried = {} /\ Range(<<>>) = {}
    BY <2>1 DEF Carried, Range
  <2>3. QED BY <2>2 DEF Init, InFlight, Compressed
<1>4. Cardinality(Compressed) = 0 /\ Cardinality(FragDone) = 0
  BY <1>2, <1>3, FS_EmptySet
<1>5. main.tail = 0 /\ main.held = 0
  BY DEF Init, Between
<1>6. QED BY <1>1, <1>4, <1>5 DEF Init, CountInv, ReaderCount, WriterCount

(* The reader takes a buffer, sends it, or does neither.                   *)
LEMMA ReaderCounts ==
  ASSUME ReaderInv, FlowInv, FragInv, MainInv, CountInv, Reader
  PROVE  CountInv'
<1> DEFINE compressed == Cardinality(Compressed)
           done == Cardinality(FragDone)
<1>1. /\ reader.seq \in Nat /\ sequence \in Nat /\ compressed \in Nat
      /\ main.tail \in {0, 1} /\ reader_buffer \in Int /\ reader_buffer <= ReaderBuffers
      /\ reader_buffer = reader.seq - sequence - compressed + main.tail
  BY CountTyped
<1>2. UNCHANGED <<writer_buffer, deflator, fragVars, mainVars, writerVars>>
  BY DEF Reader, Open, ReadBlock, ReadEmpty, ReadProcess, EndProcess, SendBlock,
         SendError, readerKeeps
<1>3. Compressed' = Compressed
  <2>1. CASE SendBlock \/ SendError
    BY <2>1, CompressedSends
  <2>2. CASE Open \/ ReadBlock \/ ReadEmpty \/ ReadProcess \/ EndProcess
    <3>1. UNCHANGED <<from_reader, from_deflate>>
      BY <2>2 DEF Open, ReadBlock, ReadEmpty, ReadProcess, EndProcess
    <3>2. Carried' = Carried
      BY <1>2 DEF Carried
    <3>3. InFlight' = InFlight
      BY <1>2, <3>1, <3>2 DEF InFlight, mainVars
    <3>4. QED BY <1>2, <3>1, <3>3, CompressedSame
  <2>3. QED BY <2>1, <2>2 DEF Reader
<1>4. FragDone' = FragDone
  BY <1>2 DEF FragDone, fragVars
<1>5. compressed' = compressed /\ done' = done /\ UNCHANGED <<main, sequence>>
  BY <1>2, <1>3, <1>4 DEF mainVars
<1>6. reader = [pc |-> reader.pc, file |-> reader.file, seq |-> reader.seq,
                blocks |-> reader.blocks, tail |-> reader.tail,
                count |-> reader.count, held |-> reader.held]
  BY ReaderFields
<1>7. WriterInv' /\ Writes' = Writes
  BY <1>2, <1>5, WriterSame DEF CountInv, writerVars
<1>8. WriterCount'
  BY <1>2, <1>5, <1>7 DEF CountInv, WriterCount, fragVars
<1>9. \/ reader'.seq = reader.seq /\ reader_buffer' = reader_buffer
      \/ /\ reader'.seq = reader.seq + 1 /\ reader_buffer' = reader_buffer + 1
         /\ reader_buffer < ReaderBuffers
  <2>1. CASE Open
    BY <1>6, <2>1 DEF Open
  <2>2. CASE ReadBlock
    <3>1. PICK held, count : reader' = [reader EXCEPT !.count = count, !.seq = @ + 1, !.held = held]
      BY <2>2, Zenon DEF ReadBlock
    <3>2. reader'.seq = reader.seq + 1
      BY <1>6, <3>1
    <3>3. QED BY <2>2, <3>2 DEF ReadBlock
  <2>3. CASE ReadEmpty
    BY <1>6, <2>3 DEF ReadEmpty
  <2>4. CASE ReadProcess
    <3>1. PICK b, count : reader' = [reader EXCEPT !.count = count, !.seq = @ + 1,
                                                   !.held = Append(@, b)]
      BY <2>4, Zenon DEF ReadProcess
    <3>2. reader'.seq = reader.seq + 1
      BY <1>6, <3>1
    <3>3. QED BY <2>4, <3>2 DEF ReadProcess
  <2>5. CASE EndProcess
    <3>1. PICK c : reader' = [reader EXCEPT !.pc = "send", !.held = <<Buffer(
                       IF @ = <<>> THEN reader.seq ELSE Head(@).sequence, c)>>,
                       !.seq = IF reader.held = <<>> THEN @ + 1 ELSE @]
      BY <2>5, Zenon DEF EndProcess
    <3>2. reader'.seq = IF reader.held = <<>> THEN reader.seq + 1 ELSE reader.seq
      BY <1>6, <3>1
    <3>3. QED BY <2>5, <3>2 DEF EndProcess
  <2>6. CASE SendBlock
    <3>1. reader' = Closed(reader.file + 1) \/ reader' = [reader EXCEPT !.held = Tail(@)]
      BY <2>6 DEF SendBlock
    <3>2. reader'.seq = reader.seq
      BY <1>6, <3>1 DEF Closed
    <3>3. QED BY <2>6, <3>2 DEF SendBlock
  <2>7. CASE SendError
    <3>1. \/ reader' = Closed(reader.file + 1)
          \/ \E blocks, tail :
               reader' = [Closed(reader.file) EXCEPT !.pc = "file", !.blocks = blocks,
                                                     !.tail = tail]
      BY <2>7 DEF SendError
    <3>2. CASE reader' = Closed(reader.file + 1)
      BY <2>7, <3>2 DEF SendError, Closed
    <3>3. ASSUME NEW blocks, NEW tail,
                 reader' = [Closed(reader.file) EXCEPT !.pc = "file", !.blocks = blocks,
                                                       !.tail = tail]
          PROVE  reader'.seq = reader.seq
      BY <3>3 DEF Closed
    <3>4. QED BY <2>7, <3>1, <3>2, <3>3 DEF SendError
  <2>8. QED BY <2>1, <2>2, <2>3, <2>4, <2>5, <2>6, <2>7 DEF Reader
<1> HIDE DEF compressed
<1>10. /\ reader_buffer' <= ReaderBuffers
       /\ reader_buffer' = reader'.seq - sequence - compressed + main.tail
  BY <1>1, <1>9
<1>11. ReaderCount'
  BY <1>5, <1>10 DEF ReaderCount, compressed
<1>12. QED BY <1>7, <1>8, <1>11 DEF CountInv

(* The deflators: a block goes from a reader buffer to a writer buffer.    *)
LEMMA DeflateCounts ==
  ASSUME ReaderInv, FlowInv, FragInv, MainInv, CountInv, NEW d \in Deflators, Deflate(d)
  PROVE  CountInv'
<1> DEFINE compressed == Cardinality(Compressed)
           done == Cardinality(FragDone)
<1>1. /\ reader.seq \in Nat /\ sequence \in Nat /\ compressed \in Nat
      /\ main.tail \in {0, 1} /\ reader_buffer \in Int /\ reader_buffer <= ReaderBuffers
      /\ reader_buffer = reader.seq - sequence - compressed + main.tail
      /\ main.held \in Nat /\ done \in Nat /\ frag_locked_list \in Nat /\ Writes \in Nat
      /\ writer_buffer \in Nat /\ writer_buffer <= WriterBuffers
      /\ writer_buffer = compressed + main.held + done + frag_locked_list + Writes
  BY CountTyped
<1>2. UNCHANGED <<reader, fragVars, mainVars, writerVars>>
  BY DEF Deflate, TakeBlock, Compress, PutBlock, deflatorKeeps, readerVars
<1>3. FragDone' = FragDone
  BY <1>2 DEF FragDone, fragVars
<1>4. done' = done /\ UNCHANGED <<reader, main, sequence, frag_locked_list>>
  BY <1>2, <1>3 DEF mainVars, fragVars
<1>5. WriterInv' /\ Writes' = Writes
  BY <1>2, <1>4, WriterSame DEF CountInv, writerVars
<1>6. \/ compressed' = compressed /\ UNCHANGED <<reader_buffer, writer_buffer>>
      \/ /\ compressed' = compressed + 1 /\ reader_buffer' = reader_buffer - 1
         /\ writer_buffer' = writer_buffer + 1 /\ writer_buffer < WriterBuffers
  <2>1. CASE TakeBlock(d) \/ PutBlock(d)
    <3>1. Compressed' = Compressed
      BY <2>1, CompressedMoves
    <3>2. QED BY <2>1, <3>1 DEF TakeBlock, PutBlock
  <2>2. CASE Compress(d)
    BY <2>2, CompressedMore DEF Compress
  <2>3. QED BY <2>1, <2>2 DEF Deflate
<1> HIDE DEF compressed, done
<1>7. /\ reader_buffer' <= ReaderBuffers
      /\ reader_buffer' = reader.seq - sequence - compressed' + main.tail
  BY <1>1, <1>6
<1>8. /\ writer_buffer' <= WriterBuffers
      /\ writer_buffer' = compressed' + main.held + done + frag_locked_list + Writes
  BY <1>1, <1>6
<1>9. ReaderCount'
  BY <1>4, <1>7 DEF ReaderCount, compressed
<1>10. WriterCount'
  BY <1>4, <1>5, <1>8 DEF WriterCount, compressed, done
<1>11. QED BY <1>5, <1>9, <1>10 DEF CountInv

(* The frag_deflators: a block is with one of them, in frag_locked_list or *)
(* with the writer.                                                        *)
LEMMA DeflateFragmentCounts ==
  ASSUME ReaderInv, FlowInv, FragInv, MainInv, CountInv,
         NEW d \in FragDeflators, DeflateFragment(d)
  PROVE  CountInv'
<1> DEFINE compressed == Cardinality(Compressed)
           done == Cardinality(FragDone)
<1>1. /\ reader.seq \in Nat /\ sequence \in Nat /\ compressed \in Nat
      /\ main.tail \in {0, 1} /\ reader_buffer \in Int /\ reader_buffer <= ReaderBuffers
      /\ reader_buffer = reader.seq - sequence - compressed + main.tail
      /\ main.held \in Nat /\ done \in Nat /\ frag_locked_list \in Nat /\ Writes \in Nat
      /\ writer_buffer \in Nat /\ writer_buffer <= WriterBuffers
      /\ writer_buffer = compressed + main.held + done + frag_locked_list + Writes
  BY CountTyped
<1>2. /\ UNCHANGED <<reader, reader_buffer, from_reader, from_deflate, deflator, main,
                     block_hash, sequence, from_writer>>
  BY DEF DeflateFragment, TakeFragment, CompressFragment, SettleFragment,
         AddPendingFragment, sourceVars, readerVars, mainVars, writerVars
<1>3. Compressed' = Compressed
  <2>1. Carried' = Carried
    BY <1>2 DEF Carried
  <2>2. InFlight' = InFlight
    BY <1>2, <2>1 DEF InFlight
  <2>3. QED BY <1>2, <2>2, CompressedSame
<1>4. compressed' = compressed
  BY <1>3
<1>5. FragTyped /\ WriterInv
  BY DEF FragInv, CountInv
<1>6. ASSUME NEW s \in {"idle", "compress", "settle", "pend"},
             frag_deflator' = [frag_deflator EXCEPT ![d] = s]
      PROVE  done' = done + (IF s \in {"settle", "pend"} THEN 1 ELSE 0)
                          - (IF frag_deflator[d] \in {"settle", "pend"} THEN 1 ELSE 0)
  BY <1>5, <1>6, FragMoves, Zenon
<1>7. done' \in Nat
  BY FragFiniteNext
<1> HIDE DEF compressed, done
<1>8. /\ WriterInv'
      /\ writer_buffer' = compressed + main.held + done' + frag_locked_list' + Writes'
      /\ writer_buffer' <= WriterBuffers
  <2>1. CASE TakeFragment(d)
    <3>1. /\ frag_deflator' = [frag_deflator EXCEPT ![d] = "compress"]
          /\ frag_deflator[d] = "idle"
          /\ UNCHANGED <<writer_buffer, frag_locked_list, to_writer>>
      BY <2>1 DEF TakeFragment, writerVars
    <3>2. done' = done + (IF "compress" \in {"settle", "pend"} THEN 1 ELSE 0)
                       - (IF frag_deflator[d] \in {"settle", "pend"} THEN 1 ELSE 0)
      BY <1>6, <3>1
    <3>3. done' = done
      BY <1>1, <3>1, <3>2
    <3>4. WriterInv' /\ Writes' = Writes
      BY <1>2, <1>5, <3>1, WriterSame
    <3>5. QED BY <1>1, <3>1, <3>3, <3>4
  <2>2. CASE CompressFragment(d)
    <3>1. /\ frag_deflator' = [frag_deflator EXCEPT ![d] = "settle"]
          /\ frag_deflator[d] = "compress"
          /\ UNCHANGED <<frag_locked_list, to_writer>>
          /\ writer_buffer < WriterBuffers /\ writer_buffer' = writer_buffer + 1
      BY <2>2 DEF CompressFragment, writerVars
    <3>2. done' = done + (IF "settle" \in {"settle", "pend"} THEN 1 ELSE 0)
                       - (IF frag_deflator[d] \in {"settle", "pend"} THEN 1 ELSE 0)
      BY <1>6, <3>1
    <3>3. done' = done + 1
      BY <1>1, <3>1, <3>2
    <3>4. WriterInv' /\ Writes' = Writes
      BY <1>2, <1>5, <3>1, WriterSame
    <3>5. QED BY <1>1, <3>1, <3>3, <3>4
  <2>3. CASE SettleFragment(d) /\ fragments_locked
    <3>1. /\ frag_deflator' = [frag_deflator EXCEPT ![d] = "pend"]
          /\ frag_deflator[d] = "settle"
          /\ UNCHANGED <<writer_buffer, frag_locked_list, to_writer>>
      BY <2>3 DEF SettleFragment
    <3>2. done' = done + (IF "pend" \in {"settle", "pend"} THEN 1 ELSE 0)
                       - (IF frag_deflator[d] \in {"settle", "pend"} THEN 1 ELSE 0)
      BY <1>6, <3>1
    <3>3. done' = done
      BY <1>1, <1>7, <3>1, <3>2
    <3>4. WriterInv' /\ Writes' = Writes
      BY <1>2, <1>5, <3>1, WriterSame
    <3>5. QED BY <1>1, <3>1, <3>3, <3>4
  <2>4. CASE SettleFragment(d) /\ ~fragments_locked
    <3>1. /\ frag_deflator' = [frag_deflator EXCEPT ![d] = "idle"]
          /\ frag_deflator[d] = "settle"
          /\ UNCHANGED <<writer_buffer, frag_locked_list>>
          /\ HasRoom(to_writer, WriterBuffers) /\ to_writer' = Append(to_writer, "buffer")
      BY <2>4 DEF SettleFragment
    <3>2. done' = done + (IF "idle" \in {"settle", "pend"} THEN 1 ELSE 0)
                       - (IF frag_deflator[d] \in {"settle", "pend"} THEN 1 ELSE 0)
      BY <1>6, <3>1
    <3>3. done' = done - 1
      BY <1>1, <1>7, <3>1, <3>2
    <3>4. main.pc # "flush"
      <4>1. main.pc = "flush" => InFile(main)
        BY MainFields DEF MainInv, MainShape, InFile
      <4>2. QED BY <2>4, <4>1 DEF MainInv
    <3>5. WriterInv' /\ Writes' = Writes + 1
      BY <1>2, <1>5, <3>1, <3>4, WriterOneMore
    <3>6. writer_buffer' = writer_buffer /\ frag_locked_list' = frag_locked_list
      BY <3>1
    <3>7. writer_buffer' = compressed + main.held + done' + frag_locked_list' + Writes'
      BY <1>1, <3>3, <3>5, <3>6
    <3>8. QED BY <1>1, <3>5, <3>6, <3>7
  <2>5. CASE AddPendingFragment(d)
    <3>1. /\ frag_deflator' = [frag_deflator EXCEPT ![d] = "idle"]
          /\ frag_deflator[d] = "pend"
          /\ UNCHANGED <<writer_buffer, to_writer>>
          /\ frag_locked_list' = frag_locked_list + 1
      BY <2>5 DEF AddPendingFragment, writerVars
    <3>2. done' = done + (IF "idle" \in {"settle", "pend"} THEN 1 ELSE 0)
                       - (IF frag_deflator[d] \in {"settle", "pend"} THEN 1 ELSE 0)
      BY <1>6, <3>1
    <3>3. done' = done - 1
      BY <1>1, <1>7, <3>1, <3>2
    <3>4. WriterInv' /\ Writes' = Writes
      BY <1>2, <1>5, <3>1, WriterSame
    <3>5. QED BY <1>1, <3>1, <3>3, <3>4
  <2>6. QED BY <2>1, <2>2, <2>3, <2>4, <2>5 DEF DeflateFragment
<1>9. ReaderCount'
  BY <1>1, <1>2, <1>4 DEF ReaderCount, compressed
<1>10. WriterCount'
  BY <1>2, <1>4, <1>8 DEF WriterCount, compressed, done
<1>11. QED BY <1>8, <1>9, <1>10 DEF CountInv

(* The writer.                                                             *)
LEMMA WriterCounts ==
  ASSUME ReaderInv, FlowInv, FragInv, MainInv, CountInv, Writer
  PROVE  CountInv'
<1> DEFINE compressed == Cardinality(Compressed)
           done == Cardinality(FragDone)
<1>1. /\ reader_buffer <= ReaderBuffers
      /\ reader_buffer = reader.seq - sequence - compressed + main.tail
      /\ compressed \in Nat
      /\ main.held \in Nat /\ done \in Nat /\ frag_locked_list \in Nat /\ Writes \in Nat
      /\ writer_buffer \in Nat /\ writer_buffer <= WriterBuffers
      /\ writer_buffer = compressed + main.held + done + frag_locked_list + Writes
  BY CountTyped
<1>2. /\ UNCHANGED <<reader, reader_buffer, from_reader, from_deflate, deflator, main,
                     block_hash, sequence, frag_deflator, frag_locked_list>>
  BY DEF Writer, sourceVars, readerVars, mainVars, fragVars
<1>3. Compressed' = Compressed
  <2>1. Carried' = Carried
    BY <1>2 DEF Carried
  <2>2. InFlight' = InFlight
    BY <1>2, <2>1 DEF InFlight
  <2>3. QED BY <1>2, <2>2, CompressedSame
<1>4. compressed' = compressed /\ done' = done
  BY <1>2, <1>3 DEF FragDone
<1>5. /\ WriterInv'
      /\ \/ Writes' = Writes - 1 /\ writer_buffer' = writer_buffer - 1
         \/ Writes' = Writes /\ writer_buffer' = writer_buffer
  BY WriterStep DEF CountInv
<1> HIDE DEF compressed, done
<1>6. /\ writer_buffer' = compressed + main.held + done + frag_locked_list + Writes'
      /\ writer_buffer' <= WriterBuffers
  BY <1>1, <1>5
<1>7. ReaderCount'
  BY <1>1, <1>2, <1>4 DEF ReaderCount, compressed
<1>8. WriterCount'
  BY <1>2, <1>4, <1>6 DEF WriterCount, compressed, done
<1>9. QED BY <1>5, <1>7, <1>8 DEF CountInv

(* Main places a block of the file m.                                      *)
LEMMA PlaceCounts ==
  ASSUME NEW m, NEW c \in Contents, Place(m, c),
         m = [pc |-> m.pc, next |-> m.next, mode |-> m.mode, files |-> m.files,
              blocks |-> m.blocks, got |-> m.got, thresh |-> m.thresh, held |-> m.held,
              tail |-> m.tail, redo |-> m.redo],
         m.held \in Nat, WriterInv, main.pc = "get", from_writer' = from_writer,
         reader_buffer \in Int
  PROVE  /\ WriterInv' /\ main'.held \in Nat
         /\ main'.held + Writes' = m.held + Writes + (IF c.kind = "data" THEN 1 ELSE 0)
         /\ reader_buffer' = reader_buffer - 1 + (IF c.kind = "data" THEN 1 ELSE 0)
                               + main'.tail
         /\ main'.tail \in {0, 1} /\ (c.kind = "data" => main'.tail = 0)
<1> DEFINE hold == c.kind = "data" /\ m.mode = "dup" /\ m.got >= m.thresh
<1>1. main' = [pc |-> PlacedPc(m, c), next |-> PlacedNext(m, c), mode |-> m.mode,
               files |-> m.files, blocks |-> m.blocks, got |-> m.got + 1,
               thresh |-> m.thresh, held |-> PlacedHeld(m, c), tail |-> PlacedTail(c),
               redo |-> m.redo]
  BY PlaceIs
<1>2. /\ main'.pc # "flush" /\ main'.held = (IF hold THEN m.held + 1 ELSE m.held)
      /\ main'.tail = IF c.kind = "fragment" THEN 1 ELSE 0
  BY <1>1 DEF PlacedPc, PlacedHeld, PlacedTail
<1>3. /\ reader_buffer' = IF c.kind = "sparse" THEN reader_buffer - 1 ELSE reader_buffer
      /\ IF c.kind = "data" /\ ~hold
         THEN /\ HasRoom(to_writer, WriterBuffers)
              /\ to_writer' = Append(to_writer, "buffer")
         ELSE UNCHANGED to_writer
  BY DEF Place
<1>4. c.kind \in {"data", "sparse", "fragment"}
  BY DEF Contents
<1>5. Writes \in Nat
  BY WritesTyped
<1>6. /\ WriterInv'
      /\ Writes' = IF c.kind = "data" /\ ~hold THEN Writes + 1 ELSE Writes
  <2>1. CASE c.kind = "data" /\ ~hold
    <3>1. HasRoom(to_writer, WriterBuffers) /\ to_writer' = Append(to_writer, "buffer")
      BY <1>3, <2>1
    <3>2. main.pc # "flush"
      OBVIOUS
    <3>3. WriterInv' /\ Writes' = Writes + 1
      BY <1>2, <3>1, <3>2, WriterOneMore
    <3>4. QED BY <2>1, <3>3
  <2>2. CASE ~(c.kind = "data" /\ ~hold)
    <3>1. to_writer' = to_writer
      BY <1>3, <2>2
    <3>2. main'.pc = "flush" <=> main.pc = "flush"
      BY <1>2
    <3>3. WriterInv' /\ Writes' = Writes
      BY <3>1, <3>2, WriterSame
    <3>4. QED BY <2>2, <3>3
  <2>3. QED BY <2>1, <2>2
<1> HIDE DEF hold
<1>7. hold => c.kind = "data"
  BY DEF hold
<1>8. main'.held + Writes' = m.held + Writes + (IF c.kind = "data" THEN 1 ELSE 0)
  BY <1>2, <1>5, <1>6, <1>7
<1>9. reader_buffer' = reader_buffer - 1 + (IF c.kind = "data" THEN 1 ELSE 0) + main'.tail
  BY <1>2, <1>3, <1>4
<1>10. main'.tail \in {0, 1} /\ (c.kind = "data" => main'.tail = 0)
  BY <1>2
<1>11. QED BY <1>2, <1>6, <1>8, <1>9, <1>10

LEMMA HandleCounts ==
  ASSUME MainInv, FragInv, WriterInv, main.pc = "get", from_writer' = from_writer,
         NEW c \in Contents, Good(c), Handle(c), reader_buffer \in Int
  PROVE  LET data == IF c.kind = "data" /\ c.error = 0 THEN 1 ELSE 0
         IN /\ WriterInv' /\ main'.held \in Nat
            /\ main'.held + Writes' = main.held + Writes + data
            /\ reader_buffer' = reader_buffer - 1 + data + main'.tail
            /\ main'.tail \in {0, 1} /\ (data = 1 => main'.tail = 0)
<1> DEFINE data == IF c.kind = "data" /\ c.error = 0 THEN 1 ELSE 0
<1>1. /\ main = [pc |-> main.pc, next |-> main.next, mode |-> main.mode,
                 files |-> main.files, blocks |-> main.blocks, got |-> main.got,
                 thresh |-> main.thresh, held |-> main.held, tail |-> main.tail,
                 redo |-> main.redo]
      /\ main.held \in Nat
  BY MainFields DEF MainInv
<1>2. /\ main.mode = "none" => main.held = 0
      /\ main.tail = 0
  BY DEF MainInv, MainShape
<1>3. Writes \in Nat
  BY WritesTyped
<1>4. ASSUME UNCHANGED to_writer, main'.pc # "flush", main'.held = main.held, data = 0,
             reader_buffer' = reader_buffer - 1 + main'.tail
      PROVE  /\ WriterInv' /\ main'.held \in Nat
             /\ main'.held + Writes' = main.held + Writes + data
             /\ reader_buffer' = reader_buffer - 1 + data + main'.tail
             /\ (data = 1 => main'.tail = 0)
  <2>1. main'.pc = "flush" <=> main.pc = "flush"
    BY <1>4
  <2>2. WriterInv' /\ Writes' = Writes
    BY <1>4, <2>1, WriterSame
  <2> HIDE DEF data
  <2>3. main'.held + Writes' = main.held + Writes + data
    BY <1>1, <1>3, <1>4, <2>2
  <2>4. QED BY <1>1, <1>4, <2>2, <2>3
<1>5. CASE main.mode = "none"
  <2>1. WriteFile(c)
    BY <1>5 DEF Handle
  <2>2. CASE /\ NoBlocks(c)
             /\ main' = Between(IF c.error = 2 THEN main.files ELSE main.files + 1)
             /\ reader_buffer' = reader_buffer - 1
             /\ UNCHANGED to_writer
    <3>1. main'.pc # "flush" /\ main'.held = main.held /\ main'.tail = 0
      BY <1>2, <1>5, <2>2 DEF Between
    <3>2. data = 0
      BY <2>2 DEF NoBlocks, Good
    <3>3. reader_buffer' = reader_buffer - 1 + main'.tail
      BY <2>2, <3>1
    <3>4. QED BY <1>4, <2>2, <3>1, <3>2, <3>3
  <2>3. ASSUME NEW pc \in {"fill", "compare"}, c.kind = "fragment",
               main' = [main EXCEPT !.pc = pc, !.mode = "fragment", !.tail = 1],
               UNCHANGED <<reader_buffer, to_writer>>
        PROVE  /\ WriterInv' /\ main'.held \in Nat
               /\ main'.held + Writes' = main.held + Writes + data
               /\ reader_buffer' = reader_buffer - 1 + data + main'.tail
               /\ main'.tail \in {0, 1} /\ (data = 1 => main'.tail = 0)
    <3>1. main'.pc # "flush" /\ main'.held = main.held /\ main'.tail = 1
      BY <1>1, <2>3
    <3>2. data = 0
      BY <2>3
    <3>3. reader_buffer' = reader_buffer - 1 + main'.tail
      BY <2>3, <3>1
    <3>4. QED BY <1>4, <2>3, <3>1, <3>2, <3>3
  <2>4. ASSUME ~NoBlocks(c), NEW mode, Start(mode, c)
        PROVE  /\ WriterInv' /\ main'.held \in Nat
               /\ main'.held + Writes' = main.held + Writes + data
               /\ reader_buffer' = reader_buffer - 1 + data + main'.tail
               /\ main'.tail \in {0, 1} /\ (data = 1 => main'.tail = 0)
    <3> DEFINE thresh == IF mode = "dup" THEN Thresh(c.file_size) ELSE 0
               m == [main EXCEPT !.mode = mode, !.blocks = c.file_size, !.thresh = thresh]
    <3>1. Place(m, c)
      BY <2>4 DEF Start
    <3> HIDE DEF thresh
    <3>2. m = [main EXCEPT !.mode = mode, !.blocks = c.file_size, !.thresh = thresh]
      OBVIOUS
    <3> HIDE DEF m
    <3>3. m = [pc |-> main.pc, next |-> main.next, mode |-> mode, files |-> main.files,
               blocks |-> c.file_size, got |-> main.got, thresh |-> thresh,
               held |-> main.held, tail |-> main.tail, redo |-> main.redo]
      BY <1>1, <3>2
    <3>4. /\ m = [pc |-> m.pc, next |-> m.next, mode |-> m.mode, files |-> m.files,
                  blocks |-> m.blocks, got |-> m.got, thresh |-> m.thresh, held |-> m.held,
                  tail |-> m.tail, redo |-> m.redo]
          /\ m.held = main.held
      BY <3>3
    <3>5. m.held \in Nat
      BY <1>1, <3>4
    <3>6. /\ WriterInv' /\ main'.held \in Nat
          /\ main'.held + Writes' = m.held + Writes + (IF c.kind = "data" THEN 1 ELSE 0)
          /\ reader_buffer' = reader_buffer - 1 + (IF c.kind = "data" THEN 1 ELSE 0)
                                + main'.tail
          /\ main'.tail \in {0, 1} /\ (c.kind = "data" => main'.tail = 0)
      BY <3>1, <3>4, <3>5, PlaceCounts
    <3>7. c.error = 0
      BY <2>4 DEF NoBlocks
    <3>8. QED BY <3>4, <3>6, <3>7
  <2>5. QED BY <2>1, <2>2, <2>3, <2>4 DEF WriteFile
<1>6. CASE main.mode # "none" /\ c.error # 0
  <2>1. GiveUp(main, c.error)
    BY <1>6 DEF Handle
  <2>2. /\ main' = [main EXCEPT !.pc = IF main.mode = "dup" /\ main.thresh = 0
                                       THEN "unlock" ELSE "truncate",
                                !.redo = (c.error = 2), !.tail = 1]
        /\ UNCHANGED <<reader_buffer, to_writer>>
    BY <2>1 DEF GiveUp
  <2>3. main'.pc # "flush" /\ main'.held = main.held /\ main'.tail = 1
    BY <1>1, <2>2
  <2>4. data = 0
    BY <1>6
  <2>5. reader_buffer' = reader_buffer - 1 + main'.tail
    BY <2>2, <2>3
  <2>6. QED BY <1>4, <2>2, <2>3, <2>4, <2>5
<1>7. CASE main.mode # "none" /\ c.error = 0
  <2>1. Place(main, c)
    BY <1>7 DEF Handle
  <2>2. /\ WriterInv' /\ main'.held \in Nat
        /\ main'.held + Writes' = main.held + Writes + (IF c.kind = "data" THEN 1 ELSE 0)
        /\ reader_buffer' = reader_buffer - 1 + (IF c.kind = "data" THEN 1 ELSE 0)
                              + main'.tail
        /\ main'.tail \in {0, 1} /\ (c.kind = "data" => main'.tail = 0)
    BY <1>1, <2>1, PlaceCounts
  <2>3. QED BY <1>7, <2>2
<1>8. QED BY <1>5, <1>6, <1>7

LEMMA GetCounts ==
  ASSUME ReaderInv, FlowInv, FragInv, MainInv, CountInv, GetBuffer, MainInv', FlowInv',
         ReaderInv'
  PROVE  CountInv'
<1> DEFINE compressed == Cardinality(Compressed)
           done == Cardinality(FragDone)
<1>1. /\ reader.seq \in Nat /\ sequence \in Nat /\ compressed \in Nat
      /\ main.tail \in {0, 1} /\ reader_buffer \in Int /\ reader_buffer <= ReaderBuffers
      /\ reader_buffer = reader.seq - sequence - compressed + main.tail
      /\ main.held \in Nat /\ done \in Nat /\ frag_locked_list \in Nat /\ Writes \in Nat
      /\ writer_buffer \in Nat /\ writer_buffer <= WriterBuffers
      /\ writer_buffer = compressed + main.held + done + frag_locked_list + Writes
  BY CountTyped
<1>2. /\ UNCHANGED <<reader, writer_buffer, from_reader, deflator, frag_deflator,
                     frag_locked_list, from_writer>> /\ main.pc = "get"
  BY DEF GetBuffer, readerVars, fragVars
<1>3. done' = done
  BY <1>2 DEF FragDone
<1>4. compressed' \in Nat /\ main'.tail \in {0, 1}
  <2>1. compressed' \in Nat
    BY CompressedNext
  <2>2. QED BY <2>1 DEF MainInv, MainTyped
<1>5. CASE Kept /\ UNCHANGED <<main, fragments_locked, reader_buffer, to_writer>>
  <2>1. compressed' = compressed /\ sequence' = sequence
    BY <1>2, <1>5, CompressedSame DEF Kept
  <2>2. WriterInv' /\ Writes' = Writes
    BY <1>2, <1>5, WriterSame DEF CountInv
  <2>3. ReaderCount'
    BY <1>2, <1>5, <2>1 DEF CountInv, ReaderCount
  <2>4. WriterCount'
    BY <1>2, <1>3, <1>5, <2>1, <2>2 DEF CountInv, WriterCount
  <2>5. QED BY <2>2, <2>3, <2>4 DEF CountInv
<1>6. ASSUME NEW b, Gets(b) PROVE CountInv'
  <2> DEFINE data == IF IsData(b) THEN 1 ELSE 0
  <2>1. b \in InFlight /\ Handle(b.content) /\ sequence' = sequence + 1
    BY <1>6 DEF Gets
  <2>2. b.content \in Contents /\ Good(b.content)
    BY <2>1, InFlightTyped DEF FlowInv, Sound, Buffers
  <2>3. compressed' = compressed - data
    BY <1>6, CompressedGets
  <2>4. /\ WriterInv' /\ main'.held \in Nat
        /\ main'.held + Writes' = main.held + Writes + data
        /\ reader_buffer' = reader_buffer - 1 + data + main'.tail
        /\ main'.tail \in {0, 1} /\ (data = 1 => main'.tail = 0)
    BY <1>1, <1>2, <2>1, <2>2, HandleCounts DEF CountInv, IsData
  <2>5. main.tail = 0
    BY <1>2 DEF MainInv, MainShape
  <2>6. data \in {0, 1}
    OBVIOUS
  <2> HIDE DEF data, compressed, done
  <2>7. Writes' \in Nat
    BY <2>4, WritesNext
  <2>8. reader_buffer' = reader.seq - (sequence + 1) - compressed' + main'.tail
    BY <1>1, <1>4, <2>3, <2>4, <2>5, <2>6
  <2>9. reader_buffer' <= ReaderBuffers
    BY <1>1, <1>4, <2>4, <2>5, <2>6
  <2>10. writer_buffer = compressed' + main'.held + done + frag_locked_list + Writes'
    BY <1>1, <1>4, <2>3, <2>4, <2>6, <2>7
  <2>11. ReaderCount'
    BY <1>2, <2>1, <2>8, <2>9 DEF ReaderCount, compressed
  <2>12. WriterCount'
    BY <1>1, <1>2, <1>3, <2>10 DEF WriterCount, compressed, done
  <2>13. QED BY <2>4, <2>11, <2>12 DEF CountInv
<1>7. QED BY <1>5, <1>6, GetFlow

(* The rest of what main does: it gives back the tail, gives blocks to the *)
(* writer, or gives back the blocks it held.                               *)
LEMMA MainCounts ==
  ASSUME ReaderInv, FlowInv, FragInv, MainInv, CountInv, WriterInv',
         UNCHANGED <<mainKeeps, frag_deflator>>,
         NEW t \in {0, 1}, main'.tail = main.tail - t, reader_buffer' = reader_buffer - t,
         NEW h \in Nat, writer_buffer' = writer_buffer - h,
         main'.held \in Nat, frag_locked_list' \in Nat,
         main'.held + frag_locked_list' + Writes' = main.held + frag_locked_list + Writes - h
  PROVE  CountInv'
<1> DEFINE compressed == Cardinality(Compressed)
           done == Cardinality(FragDone)
<1>1. /\ reader.seq \in Nat /\ sequence \in Nat /\ compressed \in Nat
      /\ main.tail \in {0, 1} /\ reader_buffer \in Int /\ reader_buffer <= ReaderBuffers
      /\ reader_buffer = reader.seq - sequence - compressed + main.tail
      /\ main.held \in Nat /\ done \in Nat /\ frag_locked_list \in Nat /\ Writes \in Nat
      /\ writer_buffer \in Nat /\ writer_buffer <= WriterBuffers
      /\ writer_buffer = compressed + main.held + done + frag_locked_list + Writes
  BY CountTyped
<1>2. UNCHANGED <<reader, from_reader, from_deflate, deflator, block_hash, sequence>>
  BY DEF mainKeeps, readerVars
<1>3. compressed' = compressed
  <2>1. Carried' = Carried
    BY <1>2 DEF Carried
  <2>2. InFlight' = InFlight
    BY <1>2, <2>1 DEF InFlight
  <2>3. QED BY <1>2, <2>2, CompressedSame
<1>4. done' = done
  BY DEF FragDone
<1>5. Writes' \in Nat
  BY WritesNext
<1> HIDE DEF compressed, done
<1>6. /\ reader_buffer' <= ReaderBuffers
      /\ reader_buffer' = reader.seq - sequence - compressed + main'.tail
  BY <1>1
<1>7. /\ writer_buffer' <= WriterBuffers
      /\ writer_buffer' = compressed + main'.held + done + frag_locked_list' + Writes'
  <2>1. main'.held + frag_locked_list' + Writes' = main.held + frag_locked_list + Writes - h
    OBVIOUS
  <2>2. writer_buffer - h = compressed + done + (main.held + frag_locked_list + Writes - h)
    BY <1>1
  <2>3. writer_buffer - h = compressed + main'.held + done + frag_locked_list' + Writes'
    BY <1>1, <1>5, <2>1, <2>2
  <2>4. writer_buffer' = writer_buffer - h /\ writer_buffer - h <= WriterBuffers
    BY <1>1
  <2>5. QED BY <2>3, <2>4
<1>8. ReaderCount'
  BY <1>2, <1>3, <1>6 DEF ReaderCount, compressed
<1>9. WriterCount'
  BY <1>3, <1>4, <1>7 DEF WriterCount, compressed, done
<1>10. QED BY <1>8, <1>9 DEF CountInv

LEMMA MainOtherCounts ==
  ASSUME ReaderInv, FlowInv, FragInv, MainInv, CountInv, MainOther
  PROVE  CountInv'
<1>1. /\ main = [pc |-> main.pc, next |-> main.next, mode |-> main.mode,
                 files |-> main.files, blocks |-> main.blocks, got |-> main.got,
                 thresh |-> main.thresh, held |-> main.held, tail |-> main.tail,
                 redo |-> main.redo]
      /\ main.tail \in {0, 1} /\ main.held \in Nat
  BY MainFields DEF MainInv
<1>2. MainShape(main)
  BY DEF MainInv
<1>3. /\ frag_locked_list \in Nat /\ Writes \in Nat /\ reader_buffer \in Int
      /\ writer_buffer \in Nat /\ WriterInv
      /\ to_writer \in Seq({"buffer", "NULL"}) /\ Len(to_writer) \in Nat
  BY CountTyped DEF CountInv
<1>4. \A n : Between(n).pc = "get" /\ Between(n).tail = 0 /\ Between(n).held = 0
  BY DEF Between
<1>5. ASSUME UNCHANGED <<mainKeeps, frag_deflator, to_writer, from_writer, frag_locked_list>>,
             main.pc # "flush", main'.pc # "flush",
             NEW t \in {0, 1}, main'.tail = main.tail - t, reader_buffer' = reader_buffer - t,
             main'.held \in {0, main.held},
             writer_buffer' = writer_buffer - (main.held - main'.held)
      PROVE  CountInv'
  <2>1. WriterInv' /\ Writes' = Writes
    BY <1>3, <1>5, WriterSame
  <2>2. main.held - main'.held \in Nat /\ main'.held \in Nat
    BY <1>1, <1>5
  <2>3. main'.held + frag_locked_list' + Writes'
          = main.held + frag_locked_list + Writes - (main.held - main'.held)
    <3>1. frag_locked_list' = frag_locked_list
      BY <1>5
    <3>2. \A a, b, c, d \in Nat : a + c + d = b + c + d - (b - a)
      OBVIOUS
    <3>3. main'.held + frag_locked_list + Writes
            = main.held + frag_locked_list + Writes - (main.held - main'.held)
      <4>1. /\ main'.held \in Nat /\ main.held \in Nat
            /\ frag_locked_list \in Nat /\ Writes \in Nat
        BY <1>1, <1>3, <2>2
      <4>2. PICK a \in Nat, b \in Nat, c \in Nat, d \in Nat :
              a = main'.held /\ b = main.held /\ c = frag_locked_list /\ d = Writes
        BY <4>1
      <4>3. a + c + d = b + c + d - (b - a)
        BY <3>2
      <4>4. QED BY <4>2, <4>3
    <3>4. QED BY <2>1, <3>1, <3>3
  <2>4. frag_locked_list' \in Nat /\ UNCHANGED <<mainKeeps, frag_deflator>>
    BY <1>3, <1>5
  <2>5. QED BY <1>5, <2>1, <2>2, <2>3, <2>4, MainCounts
<1>6. CASE Fetch \/ Fetched
  <2>1. /\ UNCHANGED <<mainKeeps, fragVars, writerVars, reader_buffer, writer_buffer>>
        /\ main.pc \in {"compare", "fetch"}
        /\ \E pc \in {"fetch", "decide"} : main' = [main EXCEPT !.pc = pc]
    BY <1>6 DEF Fetch, Fetched
  <2>2. main'.pc # "flush" /\ main'.tail = main.tail - 0 /\ main'.held = main.held
    BY <1>1, <2>1
  <2>3. reader_buffer' = reader_buffer - 0
        /\ writer_buffer' = writer_buffer - (main.held - main'.held)
    BY <1>1, <1>3, <2>1, <2>2
  <2>4. QED BY <1>5, <2>1, <2>2, <2>3 DEF fragVars, writerVars
<1>7. CASE Duplicate
  <2>1. /\ UNCHANGED <<mainKeeps, fragVars, writerVars>>
        /\ main.pc \in {"compare", "decide"}
        /\ writer_buffer' = writer_buffer - main.held
    BY <1>7 DEF Duplicate
  <2>2. UNCHANGED <<mainKeeps, frag_deflator, to_writer, from_writer, frag_locked_list>>
    BY <2>1 DEF fragVars, writerVars
  <2>3. CASE main.mode = "fragment"
    <3>1. main' = Between(main.files + 1) /\ reader_buffer' = reader_buffer - 1
      BY <1>7, <2>3 DEF Duplicate
    <3>2. main.tail = 1 /\ main.held = 0
      BY <1>2, <2>3 DEF MainShape
    <3>3. main'.tail = main.tail - 1 /\ main'.held = main.held /\ main'.pc # "flush"
          /\ main.held - main'.held = main.held
      BY <1>4, <3>1, <3>2
    <3>4. QED BY <1>5, <2>1, <2>2, <3>1, <3>3
  <2>4. CASE main.mode # "fragment"
    <3>1. /\ \E pc \in {"truncate", "unlock"} : main' = [main EXCEPT !.pc = pc, !.held = 0]
          /\ reader_buffer' = reader_buffer
      BY <1>7, <2>4 DEF Duplicate
    <3>2. main'.tail = main.tail - 0 /\ main'.held = 0 /\ main'.pc # "flush"
          /\ reader_buffer' = reader_buffer - 0 /\ main.held - main'.held = main.held
      BY <1>1, <1>3, <3>1
    <3>3. QED BY <1>5, <2>1, <2>2, <3>2
  <2>5. QED BY <2>3, <2>4
<1>8. CASE NotDuplicate
  <2>1. /\ UNCHANGED <<mainKeeps, fragVars, from_writer, reader_buffer, writer_buffer>>
        /\ main.pc \in {"compare", "decide"}
        /\ Len(to_writer) + main.held <= WriterBuffers
        /\ to_writer' = to_writer \o [i \in 1 .. main.held |-> "buffer"]
        /\ main' = [main EXCEPT !.pc = IF main.tail = 1 THEN "fill" ELSE "unlock", !.held = 0]
    BY <1>8 DEF NotDuplicate
  <2>2. main'.pc # "flush" /\ main'.tail = main.tail - 0 /\ main'.held = 0
    BY <1>1, <2>1
  <2>3. WriterInv' /\ Writes' = Writes + main.held
    BY <1>1, <1>3, <2>1, <2>2, WriterMore
  <2>4. UNCHANGED <<mainKeeps, frag_deflator, frag_locked_list>>
    BY <2>1 DEF fragVars
  <2>5. /\ main'.held + frag_locked_list' + Writes'
             = main.held + frag_locked_list + Writes - 0
        /\ reader_buffer' = reader_buffer - 0 /\ writer_buffer' = writer_buffer - 0
        /\ frag_locked_list' \in Nat /\ main'.held \in Nat
    BY <1>1, <1>3, <2>1, <2>2, <2>3, <2>4
  <2>6. QED BY <2>2, <2>3, <2>4, <2>5, MainCounts
<1>9. CASE FillWrites
  <2>1. /\ UNCHANGED <<mainKeeps, main, writerVars, reader_buffer, writer_buffer>>
        /\ UNCHANGED <<frag_deflator, frag_locked_list>> /\ main.pc = "fill"
    BY <1>9 DEF FillWrites, PutFragment
  <2>2. /\ main'.tail = main.tail - 0 /\ reader_buffer' = reader_buffer - 0
        /\ writer_buffer' = writer_buffer - (main.held - main'.held)
    BY <1>1, <1>3, <2>1
  <2>3. QED BY <1>5, <2>1, <2>2 DEF writerVars
<1>10. CASE Fill
  <2>1. /\ UNCHANGED <<mainKeeps, writerVars, writer_buffer, frag_deflator, frag_locked_list>>
        /\ main.pc = "fill"
        /\ IF main.mode = "dup"
           THEN main' = [main EXCEPT !.pc = "unlock"] /\ UNCHANGED reader_buffer
           ELSE main' = Between(main.files + 1) /\ reader_buffer' = reader_buffer - 1
    BY <1>10 DEF Fill
  <2>2. main.tail = 1 /\ main.held = 0
    BY <1>2, <2>1 DEF MainShape
  <2>3. PICK t \in {0, 1} : main'.tail = main.tail - t /\ reader_buffer' = reader_buffer - t
                            /\ main'.held = 0 /\ main'.pc # "flush"
    <3>1. CASE main.mode = "dup"
      <4>1. main'.tail = main.tail - 0 /\ reader_buffer' = reader_buffer - 0
            /\ main'.held = 0 /\ main'.pc # "flush"
        BY <1>1, <1>3, <2>1, <2>2, <3>1
      <4>2. QED BY <4>1
    <3>2. CASE main.mode # "dup"
      <4>1. main'.tail = main.tail - 1 /\ reader_buffer' = reader_buffer - 1
            /\ main'.held = 0 /\ main'.pc # "flush"
        BY <1>4, <2>1, <2>2, <3>2
      <4>2. QED BY <4>1
    <3>3. QED BY <3>1, <3>2
  <2>4. writer_buffer' = writer_buffer - (main.held - main'.held)
    BY <1>3, <2>1, <2>2, <2>3
  <2>5. QED BY <1>5, <2>1, <2>2, <2>3, <2>4 DEF writerVars
<1>11. CASE AskFlush \/ Flushed
  <2>1. /\ UNCHANGED <<mainKeeps, fragVars, reader_buffer, writer_buffer>>
        /\ \E pc \in {"flush", "unlock"} : main' = [main EXCEPT !.pc = pc]
        /\ AskFlush => main' = [main EXCEPT !.pc = "flush"]
        /\ Flushed => main' = [main EXCEPT !.pc = "unlock"]
    BY <1>11 DEF AskFlush, Flushed
  <2>2. /\ main'.tail = main.tail - 0 /\ main'.held = main.held
        /\ AskFlush => main'.pc = "flush"
        /\ Flushed => main'.pc # "flush"
    BY <1>1, <2>1
  <2>3. WriterInv' /\ Writes' = Writes
    BY <1>3, <1>11, <2>2, WriterAsked, WriterFlushed
  <2>4. UNCHANGED <<mainKeeps, frag_deflator, frag_locked_list>>
    BY <2>1 DEF fragVars
  <2>5. /\ main'.held + frag_locked_list' + Writes'
             = main.held + frag_locked_list + Writes - 0
        /\ reader_buffer' = reader_buffer - 0 /\ writer_buffer' = writer_buffer - 0
        /\ frag_locked_list' \in Nat /\ main'.held \in Nat
    BY <1>1, <1>3, <2>1, <2>2, <2>3, <2>4
  <2>6. QED BY <2>2, <2>3, <2>4, <2>5, MainCounts
<1>12. CASE Unlock
  <2>1. /\ UNCHANGED <<mainKeeps, frag_deflator, from_writer>>
        /\ main.pc = "unlock"
        /\ Len(to_writer) + frag_locked_list <= WriterBuffers
        /\ to_writer' = to_writer \o [i \in 1 .. frag_locked_list |-> "buffer"]
        /\ frag_locked_list' = 0
        /\ IF main.next = "fill"
           THEN /\ main' = [main EXCEPT !.pc = "fill"]
                /\ UNCHANGED <<reader_buffer, writer_buffer>>
           ELSE /\ main' = Between(IF main.redo THEN main.files ELSE main.files + 1)
                /\ reader_buffer' = reader_buffer - main.tail
                /\ writer_buffer' = writer_buffer - main.held
    BY <1>12 DEF Unlock
  <2>2. PICK t \in {0, 1}, h \in Nat :
          /\ main'.tail = main.tail - t /\ reader_buffer' = reader_buffer - t
          /\ main'.held = main.held - h /\ writer_buffer' = writer_buffer - h
          /\ main'.held \in Nat /\ main'.pc # "flush"
    <3>1. CASE main.next = "fill"
      <4>1. /\ main'.tail = main.tail - 0 /\ reader_buffer' = reader_buffer - 0
            /\ main'.held = main.held - 0 /\ writer_buffer' = writer_buffer - 0
            /\ main'.held \in Nat /\ main'.pc # "flush"
        BY <1>1, <1>3, <2>1, <3>1
      <4>2. 0 \in {0, 1} /\ 0 \in Nat
        OBVIOUS
      <4>3. QED BY <4>1, <4>2
    <3>2. CASE main.next # "fill"
      <4>1. /\ main'.tail = main.tail - main.tail /\ reader_buffer' = reader_buffer - main.tail
            /\ main'.held = main.held - main.held /\ writer_buffer' = writer_buffer - main.held
            /\ main'.held \in Nat /\ main'.pc # "flush"
        <5>1. main'.pc = "get" /\ main'.tail = 0 /\ main'.held = 0
          BY <1>4, <2>1, <3>2
        <5>2. QED BY <1>1, <2>1, <3>2, <5>1
      <4>2. QED BY <1>1, <4>1
    <3>3. QED BY <3>1, <3>2
  <2>3. WriterInv' /\ Writes' = Writes + frag_locked_list
    BY <1>3, <2>1, <2>2, WriterMore
  <2>4. /\ main'.held + frag_locked_list' + Writes'
             = main.held + frag_locked_list + Writes - h
        /\ frag_locked_list' \in Nat
    BY <1>1, <1>3, <2>1, <2>2, <2>3
  <2>5. UNCHANGED <<mainKeeps, frag_deflator>>
    BY <2>1
  <2>6. QED BY <2>2, <2>3, <2>4, <2>5, MainCounts
<1>13. CASE Finish
  <2>1. /\ UNCHANGED <<mainKeeps, writerVars, reader_buffer, writer_buffer>>
        /\ UNCHANGED <<frag_deflator, frag_locked_list>>
        /\ main.pc = "get" /\ main' = [main EXCEPT !.pc = "finished"]
    BY <1>13 DEF Finish, PutFragment, fragVars
  <2>2. main'.pc # "flush" /\ main'.tail = main.tail - 0 /\ main'.held = main.held
    BY <1>1, <2>1
  <2>3. reader_buffer' = reader_buffer - 0
        /\ writer_buffer' = writer_buffer - (main.held - main'.held)
    BY <1>1, <1>3, <2>1, <2>2
  <2>4. QED BY <1>5, <2>1, <2>2, <2>3 DEF writerVars
<1>14. QED BY <1>6, <1>7, <1>8, <1>9, <1>10, <1>11, <1>12, <1>13 DEF MainOther

LEMMA CountStep ==
  ASSUME ReaderInv, FlowInv, FragInv, MainChain, CountInv, [Next]_vars
  PROVE  CountInv'
<1>1. ReaderInv' /\ FlowInv' /\ MainInv /\ MainInv'
  BY ReaderStep, FlowStep, ChainStep DEF MainChain
<1>2. CASE Reader
  BY <1>1, <1>2, ReaderCounts
<1>3. CASE GetBuffer
  BY <1>1, <1>3, GetCounts
<1>4. CASE MainOther
  BY <1>1, <1>4, MainOtherCounts
<1>5. CASE Writer
  BY <1>1, <1>5, WriterCounts
<1>6. ASSUME NEW d \in Deflators, Deflate(d) PROVE CountInv'
  BY <1>1, <1>6, DeflateCounts
<1>7. ASSUME NEW d \in FragDeflators, DeflateFragment(d) PROVE CountInv'
  BY <1>1, <1>7, DeflateFragmentCounts
<1>8. CASE UNCHANGED vars
  <2>1. /\ UNCHANGED <<reader, reader_buffer, writer_buffer, from_reader, from_deflate,
                       deflator, block_hash, sequence, main, frag_deflator,
                       frag_locked_list, to_writer, from_writer>>
    BY <1>8 DEF vars, readerVars, fragVars, mainVars, writerVars
  <2>2. Carried' = Carried
    BY <2>1 DEF Carried
  <2>3. InFlight' = InFlight
    BY <2>1, <2>2 DEF InFlight
  <2>4. Compressed' = Compressed /\ FragDone' = FragDone
    BY <2>1, <2>3, CompressedSame DEF FragDone
  <2>5. WriterInv' /\ Writes' = Writes
    BY <2>1, WriterSame DEF CountInv
  <2>6. QED BY <2>1, <2>4, <2>5 DEF CountInv, ReaderCount, WriterCount
<1>9. QED BY <1>2, <1>3, <1>4, <1>5, <1>6, <1>7, <1>8 DEF Next, Main, MainOther

LEMMA CountAlways == Spec => []CountInv
<1>1. ReaderInv /\ FlowInv /\ FragInv /\ MainChain /\ CountInv /\ [Next]_vars => CountInv'
  BY CountStep
<1>2. QED BY CountInit, ReaderAlways, FlowAlways, FragAlways, ChainAlways, <1>1, PTL DEF Spec

-----------------------------------------------------------------------------
(* No buffer is leaked or put back twice: the buffers in use of the three  *)
(* caches are those that some thread, queue or list holds (cache_get,      *)
(* cache_block_put in reader_read_file, deflator, write_file_* and writer).*)
THEOREM BuffersCounted == Spec => []BuffersExact
<1>1. ReaderInv /\ FlowInv /\ FragInv /\ MainChain /\ CountInv => BuffersExact
  <2> SUFFICES ASSUME ReaderInv, FlowInv, FragInv, MainInv, CountInv
               PROVE  BuffersExact
    BY DEF MainChain
  <2>1. /\ reader.seq \in Nat /\ sequence \in Nat /\ Cardinality(Compressed) \in Nat
        /\ main.tail \in {0, 1}
        /\ reader_buffer = reader.seq - sequence - Cardinality(Compressed) + main.tail
        /\ writer_buffer = Cardinality(Compressed) + main.held + Cardinality(FragDone)
                             + frag_locked_list + Writes
    BY CountTyped
  <2>2. Cardinality(InFlight) = reader.seq - Len(reader.held) - sequence
    BY CompressedFinite DEF Sent
  <2>3. Len(reader.held) \in Nat
    BY ReaderFields
  <2>4. reader_buffer = Cardinality(InFlight) - Cardinality(Compressed)
                          + Len(reader.held) + main.tail
    BY <2>1, <2>2, <2>3
  <2>5. Writes = Cardinality({i \in DOMAIN to_writer : to_writer[i] = "buffer"})
    BY WritesTyped DEF CountInv
  <2>6. FragBlocks = Cardinality(FragDone)
    BY DEF FragBlocks, FragDone
  <2>7. fragment_buffer = fragment_size + to_frag
          + Cardinality({d \in FragDeflators : frag_deflator[d] # "idle"})
    BY DEF FragInv, FragCounted, FragBusy
  <2>8. QED BY <2>1, <2>4, <2>5, <2>6, <2>7 DEF BuffersExact
<1>2. QED BY <1>1, ReaderAlways, FlowAlways, FragAlways, ChainAlways, CountAlways, PTL

(* Every cache and queue keeps its bounds (cache_get waits for a buffer,   *)
(* queue_put for room), and every thread is at a point it can be at.       *)
THEOREM PipelineTyped == Spec => []TypeOK
<1>1. ReaderInv /\ FlowInv /\ FragInv /\ MainChain /\ CountInv => TypeOK
  <2> SUFFICES ASSUME ReaderInv, FlowInv, FragInv, MainInv, CountInv
               PROVE  TypeOK
    BY DEF MainChain
  <2>1. /\ reader.pc \in {"open", "file", "process", "send", "exit"}
        /\ reader.held \in Seq(Buffers) /\ Len(reader.held) \in Nat
        /\ (reader.held = <<>> <=> Len(reader.held) = 0)
    BY ReaderFields
  <2>2. Len(reader.held) <= 2
    <3>1. ReaderHolds(reader)
      BY DEF ReaderInv
    <3>2. CASE reader.pc \in {"open", "exit"}
      BY <2>1, <3>1, <3>2 DEF ReaderHolds
    <3>3. CASE reader.pc = "file"
      BY <2>1, <3>1, <3>3 DEF ReaderHolds, HoldsFile
    <3>4. CASE reader.pc = "process"
      BY <2>1, <3>1, <3>4 DEF ReaderHolds, HoldsProcess
    <3>5. CASE reader.pc = "send"
      <4>1. HoldsLast(reader)
        BY <3>1, <3>5 DEF ReaderHolds
      <4>2. Len(reader.held) = 1
        BY <4>1 DEF HoldsLast
      <4>3. QED BY <4>2
    <3>6. QED BY <2>1, <3>2, <3>3, <3>4, <3>5
  <2>3. reader_buffer \in 0 .. ReaderBuffers
    <3>1. /\ reader.seq \in Nat /\ sequence \in Nat /\ Cardinality(Compressed) \in Nat
          /\ main.tail \in {0, 1} /\ reader_buffer \in Int /\ reader_buffer <= ReaderBuffers
          /\ reader_buffer = reader.seq - sequence - Cardinality(Compressed) + main.tail
      BY CountTyped
    <3>2. Cardinality(Compressed) <= reader.seq - Len(reader.held) - sequence
      BY CompressedFinite DEF Sent
    <3>3. QED BY <2>1, <3>1, <3>2
  <2>4. writer_buffer \in 0 .. WriterBuffers
    BY CountTyped
  <2>5. from_reader \in Seq(Buffers) /\ from_deflate \in Seq(Buffers) /\ block_hash \subseteq Buffers
    BY DEF FlowInv, FlowTyped
  <2>6. /\ fragment_buffer \in 0 .. FragmentBuffers /\ to_frag \in 0 .. FragmentBuffers
        /\ frag_deflator \in [FragDeflators -> {"idle", "compress", "settle", "pend"}]
        /\ frag_locked_list \in Nat
    BY DEF FragInv, FragTyped
  <2>7. fragments_outstanding \in Nat
    BY OutstandingTyped
  <2>8. /\ to_writer \in Seq({"buffer", "NULL"}) /\ Len(to_writer) <= WriterBuffers
        /\ Len(from_writer) <= 1
    BY DEF CountInv, WriterInv
  <2>9. \A d \in Deflators : deflator[d].state \in {"idle", "compress", "put"}
    <3>1. ASSUME NEW d \in Deflators
          PROVE  deflator[d].state \in {"idle", "compress", "put"}
      <4>1. deflator[d] \in {Fresh} \cup [state : {"compress", "put"}, buffer : Buffers]
        BY DEF FlowInv, FlowTyped
      <4>2. QED BY <4>1 DEF Fresh
    <3>2. QED BY <3>1
  <2>10. main.files \in 0 .. MaxFiles /\ main.held \in Nat /\ main.tail \in {0, 1}
    BY MainFields DEF MainInv
  <2>11. QED BY <2>1, <2>2, <2>3, <2>4, <2>5, <2>6, <2>7, <2>8, <2>9, <2>10 DEF TypeOK
<1>2. QED BY <1>1, ReaderAlways, FlowAlways, FragAlways, ChainAlways, CountAlways, PTL

(* Nobody waits for room in a queue with fragment_mutex held: main when it *)
(* writes a fragment or unlocks the fragments, and a frag_deflator when it *)
(* settles a fragment, always find room (get_and_fill_fragment,            *)
(* write_fragment, unlock_fragments, frag_deflator).                       *)
THEOREM MutexFindsRoom == Spec => []MutexNeverWaits
<1>1. ReaderInv /\ FlowInv /\ FragInv /\ MainChain /\ CountInv => MutexNeverWaits
  <2> SUFFICES ASSUME ReaderInv, FlowInv, FragInv, MainInv, CountInv
               PROVE  MutexNeverWaits
    BY DEF MainChain
  <2>1. /\ Cardinality(Compressed) \in Nat /\ main.held \in Nat /\ Cardinality(FragDone) \in Nat
        /\ frag_locked_list \in Nat /\ Writes \in Nat /\ Len(to_writer) \in Nat
        /\ writer_buffer \in Nat /\ writer_buffer <= WriterBuffers
        /\ writer_buffer = Cardinality(Compressed) + main.held + Cardinality(FragDone)
                             + frag_locked_list + Writes
    BY CountTyped
  <2>2. fragment_size = 1 => to_frag < FragmentBuffers
    <3>1. /\ fragment_buffer = fragment_size + to_frag + Cardinality(FragBusy)
          /\ Cardinality(FragBusy) \in Nat
          /\ fragment_buffer \in 0 .. FragmentBuffers /\ to_frag \in 0 .. FragmentBuffers
      BY FragFinite DEF FragInv, FragTyped, FragCounted
    <3>2. QED BY <3>1
  <2>3. main.pc # "flush" => Writes = Len(to_writer)
    BY DEF Writes, Asked
  <2>4. main.pc = "unlock" => Len(to_writer) + frag_locked_list <= WriterBuffers
    BY <2>1, <2>3
  <2>5. ASSUME NEW d \in FragDeflators, frag_deflator[d] = "settle", ~fragments_locked
        PROVE  HasRoom(to_writer, WriterBuffers)
    <3>1. main.pc # "flush"
      <4>1. main.pc = "flush" => InFile(main)
        BY MainFields DEF MainInv, MainShape, InFile
      <4>2. QED BY <2>5, <4>1 DEF MainInv
    <3>2. Cardinality(FragDone) # 0
      <4>1. d \in FragDone
        BY <2>5 DEF FragDone
      <4>2. QED BY <4>1, FragFinite, FS_EmptySet
    <3>3. Len(to_writer) < WriterBuffers
      BY <2>1, <2>3, <3>1, <3>2
    <3>4. QED BY <3>3 DEF HasRoom
  <2>6. QED BY <2>2, <2>4, <2>5 DEF MutexNeverWaits
<1>2. QED BY <1>1, ReaderAlways, FlowAlways, FragAlways, ChainAlways, CountAlways, PTL

(* What is under way as one queue: what a buffer holds is at the place its *)
(* number gives it, and at every place there is a buffer.                  *)
Delivered == [i \in DOMAIN Sorted |-> Sorted[i].content]

Listed ==
  /\ Delivered \in Seq(Contents) /\ Len(Delivered) = Sent - sequence
  /\ Sent - sequence \in Nat /\ sequence \in Nat
  /\ \A b \in InFlight : b.sequence \in Nat
  /\ \A i \in 1 .. Sent - sequence :
       \E b \in InFlight : b.sequence = sequence + i - 1 /\ Delivered[i] = b.content

LEMMA ListedIs == ReaderInv /\ FlowInv => Listed
<1> SUFFICES ASSUME ReaderInv, FlowInv PROVE Listed
  OBVIOUS
<1>1. /\ DOMAIN Sorted = 1 .. Sent - sequence
      /\ \A i \in 1 .. Sent - sequence :
           Sorted[i] \in InFlight /\ Sorted[i].sequence = sequence + i - 1
  BY SortedIs
<1>2. sequence \in Nat /\ Sent - sequence \in Nat
  BY SentTyped DEF FlowInv, FlowTyped, Numbered
<1>3. \A b \in InFlight : b.sequence \in Nat /\ b.content \in Contents
  BY InFlightTyped DEF FlowInv, Buffers
<1>4. Delivered = [i \in 1 .. Sent - sequence |-> Sorted[i].content]
  BY <1>1 DEF Delivered
<1>5. \A i \in 1 .. Sent - sequence : Delivered[i] = Sorted[i].content
  BY <1>4
<1>6. \A i \in 1 .. Sent - sequence : Sorted[i].content \in Contents
  BY <1>1, <1>3
<1>7. Delivered \in Seq(Contents) /\ Len(Delivered) = Sent - sequence
  BY <1>2, <1>4, <1>6
<1>8. QED BY <1>1, <1>2, <1>3, <1>5, <1>7 DEF Listed

(* When the reader sends, not every buffer of the two caches is under way: *)
(* it holds one itself (cache_get in reader_read_file).                    *)
LEMMA RoomForOne ==
  ASSUME ReaderInv, FlowInv, FragInv, MainInv, CountInv, reader.held # <<>>
  PROVE  Sent - sequence < ReaderBuffers + WriterBuffers
<1>1. /\ reader.seq \in Nat /\ sequence \in Nat /\ Cardinality(Compressed) \in Nat
      /\ main.tail \in {0, 1} /\ main.held \in Nat /\ Cardinality(FragDone) \in Nat
      /\ frag_locked_list \in Nat /\ Writes \in Nat
      /\ reader_buffer \in Int /\ reader_buffer <= ReaderBuffers
      /\ reader_buffer = reader.seq - sequence - Cardinality(Compressed) + main.tail
      /\ writer_buffer \in Nat /\ writer_buffer <= WriterBuffers
      /\ writer_buffer = Cardinality(Compressed) + main.held + Cardinality(FragDone)
                           + frag_locked_list + Writes
  BY CountTyped
<1>2. Len(reader.held) \in Nat /\ Len(reader.held) # 0
  BY ReaderFields
<1>3. Cardinality(Compressed) <= WriterBuffers
  BY <1>1
<1>4. Sent = reader.seq - Len(reader.held)
  BY DEF Sent
<1>5. \A s, k, h, n \in Nat : \A t \in {0, 1} : \A b, w, p \in Int :
        /\ b = s - k - n + t /\ b <= p /\ h # 0 /\ n <= w
        => s - h - k < p + w
  OBVIOUS
<1>6. ReaderBuffers \in Int /\ WriterBuffers \in Int
  OBVIOUS
<1>7. reader.seq - Len(reader.held) - sequence < ReaderBuffers + WriterBuffers
  <2>1. PICK s \in Nat, k \in Nat, h \in Nat, n \in Nat, t \in {0, 1} :
          /\ s = reader.seq /\ k = sequence /\ h = Len(reader.held)
          /\ n = Cardinality(Compressed) /\ t = main.tail
    BY <1>1, <1>2
  <2>2. reader_buffer = s - k - n + t /\ h # 0 /\ n <= WriterBuffers
    BY <1>1, <1>2, <1>3, <2>1
  <2>3. s - h - k < ReaderBuffers + WriterBuffers
    BY <1>1, <1>5, <1>6, <2>2
  <2>4. QED BY <2>1, <2>3
<1>8. QED BY <1>4, <1>7

(* A step puts at the end, takes the first, or leaves the queue as it is.  *)
LEMMA DeliverStep ==
  ASSUME ReaderInv, FlowInv, FragInv, MainInv, CountInv, Listed, Listed',
         Numbered', [Next]_vars
  PROVE  [Abstract!Next]_Delivered
<1>1. /\ Delivered \in Seq(Contents) /\ Len(Delivered) = Sent - sequence
      /\ Sent - sequence \in Nat /\ sequence \in Nat
      /\ \A b \in InFlight : b.sequence \in Nat
      /\ \A i \in 1 .. Sent - sequence :
           \E b \in InFlight : b.sequence = sequence + i - 1 /\ Delivered[i] = b.content
  BY DEF Listed
<1>2. /\ Delivered' \in Seq(Contents) /\ Len(Delivered') = Sent' - sequence'
      /\ \A b \in InFlight' : b.sequence \in Nat
      /\ \A i \in 1 .. Sent' - sequence' :
           \E b \in InFlight' : b.sequence = sequence' + i - 1 /\ Delivered'[i] = b.content
  BY DEF Listed
<1>3. Sent \in Int
  BY SentTyped
<1>4. \A b, e \in InFlight : b.sequence = e.sequence => b = e
  BY DEF FlowInv, Numbered
<1>5. \A b, e \in InFlight' : b.sequence = e.sequence => b = e
  BY DEF Numbered
<1>6. CASE Kept
  <2>1. InFlight' = InFlight
    BY <1>6 DEF Kept
  <2>2. Sorted' = Sorted
    BY <2>1 DEF Sorted, Turn
  <2>3. QED BY <2>2 DEF Delivered
<1>7. ASSUME NEW b, Sends(b), b.sequence = Sent
      PROVE  Abstract!Next
  <2>1. /\ InFlight' = InFlight \cup {b} /\ sequence' = sequence /\ Sent' = Sent + 1
        /\ reader.held # <<>>
    BY <1>7 DEF Sends
  <2>2. Sent' - sequence' = Len(Delivered) + 1
    BY <1>1, <1>3, <2>1
  <2>3. \A i \in 1 .. Len(Delivered) : Delivered'[i] = Delivered[i]
    <3>1. ASSUME NEW i \in 1 .. Len(Delivered)
          PROVE  Delivered'[i] = Delivered[i]
      <4>1. i \in 1 .. Sent - sequence /\ i \in 1 .. Sent' - sequence'
        BY <1>1, <2>2
      <4>2. PICK e \in InFlight : e.sequence = sequence + i - 1 /\ Delivered[i] = e.content
        BY <1>1, <4>1
      <4>3. PICK f \in InFlight' : f.sequence = sequence' + i - 1 /\ Delivered'[i] = f.content
        BY <1>2, <4>1
      <4>4. e = f
        BY <1>5, <2>1, <4>2, <4>3
      <4>5. QED BY <4>2, <4>3, <4>4
    <3>2. QED BY <3>1
  <2>4. Delivered'[Len(Delivered) + 1] = b.content
    <3>1. Len(Delivered) + 1 \in 1 .. Sent' - sequence'
      BY <1>1, <2>2
    <3>2. PICK f \in InFlight' : /\ f.sequence = sequence' + (Len(Delivered) + 1) - 1
                                 /\ Delivered'[Len(Delivered) + 1] = f.content
      BY <1>2, <3>1
    <3>3. f.sequence = b.sequence
      BY <1>1, <1>3, <1>7, <2>1, <3>2
    <3>4. f = b
      BY <1>5, <2>1, <3>2, <3>3
    <3>5. QED BY <3>2, <3>4
  <2>5. Len(Delivered) + 1 \in DOMAIN Delivered'
    BY <1>1, <1>2, <2>2
  <2>6. b.content \in Contents /\ b.content \in Abstract!Range(Delivered')
    <3>1. DOMAIN Delivered' = 1 .. Len(Delivered')
      BY <1>2
    <3>2. Delivered'[Len(Delivered) + 1] \in Contents
      BY <1>2, <2>5
    <3>3. QED BY <2>4, <2>5, <3>2 DEF Abstract!Range
  <2>7. Delivered' = Append(Delivered, b.content)
    <3>1. /\ Append(Delivered, b.content) \in Seq(Contents)
          /\ Len(Append(Delivered, b.content)) = Len(Delivered) + 1
          /\ \A i \in 1 .. Len(Delivered) : Append(Delivered, b.content)[i] = Delivered[i]
          /\ Append(Delivered, b.content)[Len(Delivered) + 1] = b.content
      BY <1>1, <2>6, AppendIs
    <3>2. Len(Delivered') = Len(Delivered) + 1
      BY <1>2, <2>2
    <3>3. \A i \in 1 .. Len(Delivered') : Delivered'[i] = Append(Delivered, b.content)[i]
      <4>1. \A i \in 1 .. Len(Delivered) + 1 :
              i \in 1 .. Len(Delivered) \/ i = Len(Delivered) + 1
        BY <1>1
      <4>2. QED BY <2>3, <2>4, <3>1, <3>2, <4>1
    <3>4. QED BY <1>2, <3>1, <3>2, <3>3, SeqEqual
  <2>8. Len(Delivered) < ReaderBuffers + WriterBuffers
    BY <1>1, <2>1, RoomForOne
  <2>9. Abstract!Put(b.content)
    BY <2>7, <2>8 DEF Abstract!Put, Delivered
  <2>10. QED BY <2>6, <2>9 DEF Abstract!Next, Delivered
<1>8. ASSUME NEW b, Gets(b)
      PROVE  Abstract!Next
  <2>1. /\ b \in InFlight /\ b.sequence = sequence /\ InFlight' = InFlight \ {b}
        /\ sequence' = sequence + 1 /\ Sent' = Sent
    BY <1>8 DEF Gets
  <2>2. b.sequence < Sent
    BY <2>1 DEF FlowInv, Numbered
  <2>3. Len(Delivered) # 0 /\ Sent' - sequence' = Len(Delivered) - 1
    BY <1>1, <1>3, <2>1, <2>2
  <2>4. /\ Delivered # <<>> /\ Len(Delivered) \in Nat
    BY <1>1, <2>3
  <2>5. /\ Tail(Delivered) \in Seq(Contents) /\ Len(Tail(Delivered)) = Len(Delivered) - 1
        /\ \A i \in 1 .. Len(Delivered) - 1 : Tail(Delivered)[i] = Delivered[i + 1]
    BY <1>1, <2>4, TailIs
  <2>6. Len(Delivered') = Len(Delivered) - 1
    BY <1>2, <2>3
  <2>7. ASSUME NEW i \in 1 .. Len(Delivered) - 1
        PROVE  Delivered'[i] = Delivered[i + 1]
    <3>1. i + 1 \in 1 .. Sent - sequence /\ i \in 1 .. Sent' - sequence'
      BY <1>1, <2>3, <2>4
    <3>2. PICK e \in InFlight : /\ e.sequence = sequence + (i + 1) - 1
                                /\ Delivered[i + 1] = e.content
      BY <1>1, <3>1
    <3>3. PICK f \in InFlight' : f.sequence = sequence' + i - 1 /\ Delivered'[i] = f.content
      BY <1>2, <3>1
    <3>4. e.sequence = f.sequence
      BY <1>1, <2>1, <3>2, <3>3
    <3>5. e = f
      BY <1>4, <2>1, <3>2, <3>3, <3>4
    <3>6. QED BY <3>2, <3>3, <3>5
  <2>8. Delivered' = Tail(Delivered)
    <3>1. \A i \in 1 .. Len(Delivered') : Delivered'[i] = Tail(Delivered)[i]
      BY <2>5, <2>6, <2>7
    <3>2. QED BY <1>2, <2>5, <2>6, <3>1, SeqEqual
  <2>9. QED BY <2>4, <2>8 DEF Abstract!Get, Abstract!Next, Delivered
<1>9. \/ Kept
      \/ \E b : Sends(b) /\ b.sequence = Sent
      \/ \E b : Gets(b)
  BY FlowCases
<1>10. QED BY <1>6, <1>7, <1>8, <1>9

(* Main gets what the reader sent in the order it was sent, once each, for *)
(* any number of deflators: the error buffers that overtake everything,    *)
(* the sequence numbers taken back and the deflators that finish in any    *)
(* order lose, repeat and reorder nothing, and never more than all buffers *)
(* of the reader and the writer are under way (get_file_buffer).           *)
THEOREM PipelineDelivers == Spec => DeliversInOrder
<1>1. Init => Abstract!Init
  <2> SUFFICES ASSUME Init PROVE Abstract!Init
    OBVIOUS
  <2>1. Listed
    BY ReaderInit, FlowInit, ListedIs
  <2>2. Sent = 0 /\ sequence = 0
    <3>1. Len(<<>>) = 0
      OBVIOUS
    <3>2. QED BY <3>1 DEF Init, Sent
  <2>3. Delivered = <<>>
    BY <2>1, <2>2 DEF Listed
  <2>4. QED BY <2>3 DEF Abstract!Init, Delivered
<1>2. FlowInv => Numbered
  BY DEF FlowInv
<1>3. /\ ReaderInv /\ FlowInv /\ FragInv /\ MainChain /\ CountInv
      /\ Listed /\ Listed' /\ Numbered' /\ [Next]_vars
      => [Abstract!Next]_Delivered
  BY DeliverStep DEF MainChain
<1>4. [Abstract!Next]_Delivered => [Abstract!Next]_[i \in DOMAIN Sorted |-> Sorted[i].content]
  BY DEF Delivered
<1>5. QED BY <1>1, <1>2, <1>3, <1>4, ListedIs, ReaderAlways, FlowAlways, FragAlways,
             ChainAlways, CountAlways, PTL DEF Spec, DeliversInOrder, Abstract!Spec

=============================================================================
