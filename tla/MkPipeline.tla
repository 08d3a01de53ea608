----------------------------- MODULE MkPipeline -----------------------------
(***************************************************************************)
(* The threads of mksquashfs and what they hand to each other.  The reader *)
(* reads the source files into reader buffers, the deflators compress them *)
(* into writer buffers, main takes them back in the order they were read   *)
(* (get_file_buffer), and the writer frees what main lets it write.  Tails *)
(* of files are packed into fragment buffers, which the frag_deflators     *)
(* compress.  Every cache and every queue is bounded, by -read-queue,      *)
(* -write-queue and -fragment-queue, and every wait of the program is on   *)
(* one of them or on fragment_mutex.                                       *)
(*                                                                         *)
(* A queue is a sequence with a capacity, which BoundedQueue justifies.  A *)
(* cache is the number of its buffers in use: a written or dropped buffer  *)
(* stays in the cache, but cache_get may take it.  Positions and what is   *)
(* on disk are in MkOutput; a write never fails here.                      *)
(***************************************************************************)
EXTENDS Integers, FiniteSets, Sequences, SequencesExt

CONSTANTS Deflators, FragDeflators,   (* -processors of each               *)
          ReaderBuffers,              (* reader_buffer_size                *)
          WriterBuffers,              (* writer_buffer_size                *)
          FragmentBuffers,            (* fragment_buffer_size              *)
          MaxFiles, MaxBlocks,        (* bounds of the model               *)
          MaxChanges                  (* files that change as they are read*)

ASSUME BuffersAssumption == /\ ReaderBuffers \in Nat \ {0}
                            /\ WriterBuffers \in Nat \ {0}
                            /\ FragmentBuffers \in Nat \ {0}
ASSUME DeflatorsAssumption == IsFiniteSet(Deflators) /\ IsFiniteSet(FragDeflators)
ASSUME BoundsAssumption == MaxFiles \in Nat /\ MaxBlocks \in Nat \ {0} /\ MaxChanges \in Nat

VARIABLES
  reader,            (* the file being read, and the buffers it holds      *)
  changes,           (* restats so far                                     *)
  reader_buffer, writer_buffer, fragment_buffer,  (* buffers in use        *)
  from_reader, from_deflate, to_frag, to_writer, from_writer,
  deflator, frag_deflator,
  main,
  block_hash,        (* buffers main has taken out of turn                 *)
  sequence,          (* get_file_buffer: the one it wants next             *)
  fragments_locked, frag_locked_list,   (* its length                      *)
  fragments_outstanding,
  fragments, fragment_size              (* those full, the current one's   *)

readerVars == <<reader, changes>>
fragVars   == <<fragment_buffer, to_frag, frag_deflator, frag_locked_list,
                fragments_outstanding, fragments, fragment_size>>
mainVars   == <<main, block_hash, sequence, fragments_locked>>
writerVars == <<to_writer, from_writer>>
vars == <<readerVars, reader_buffer, writer_buffer, from_reader, from_deflate,
          deflator, fragVars, mainVars, writerVars>>

-----------------------------------------------------------------------------
(* What travels through the pipeline.  file_size stands for the number of  *)
(* blocks, 0 for an empty file, -1 for "not known yet": all but the last   *)
(* block of a pseudo file that a process writes.                           *)
Contents == [file : 1 .. MaxFiles, block : 1 .. MaxBlocks,
             file_size : -1 .. MaxBlocks,
             kind : {"data", "sparse", "fragment"},
             error : {0, 1, 2}]
Content(file, block, file_size, kind, error) ==
  [file |-> file, block |-> block, file_size |-> file_size, kind |-> kind,
   error |-> error]
Buffer(seq, content) == [sequence |-> seq, content |-> content]

Closed(file) == [pc |-> "open", file |-> file, seq |-> reader.seq,
                 blocks |-> 0, tail |-> FALSE, count |-> 0, held |-> <<>>]
Fresh == [state |-> "idle", buffer |-> Buffer(-1, 0)]

(* main between two files, "files" of which are finished.                  *)
Between(files) == [pc |-> "get", next |-> "get", mode |-> "none",
                   files |-> files, blocks |-> 0, got |-> 0, thresh |-> 0,
                   held |-> 0, tail |-> 0, redo |-> FALSE]

Init ==
  /\ reader = [pc |-> "open", file |-> 1, seq |-> 0, blocks |-> 0,
               tail |-> FALSE, count |-> 0, held |-> <<>>]
  /\ changes = 0
  /\ reader_buffer = 0 /\ writer_buffer = 0 /\ fragment_buffer = 0
  /\ from_reader = <<>> /\ from_deflate = <<>> /\ to_frag = 0
  /\ to_writer = <<>> /\ from_writer = <<>>
  /\ deflator = [d \in Deflators |-> Fresh]
  /\ frag_deflator = [d \in FragDeflators |-> "idle"]
  /\ main = Between(0) /\ block_hash = {} /\ sequence = 0
  /\ fragments_locked = FALSE /\ frag_locked_list = 0
  /\ fragments_outstanding = 0 /\ fragments = 0 /\ fragment_size = 0

HasRoom(queue, size) == Len(queue) < size

-----------------------------------------------------------------------------
(* The reader.                                                             *)

readerKeeps == <<writer_buffer, deflator, fragVars, mainVars, writerVars>>

(* The next regular file, of a size found by stat, or the next process;    *)
(* reader_scan and dir_scan meet the files in the same order.              *)
Open ==
  /\ reader.pc = "open"
  /\ IF reader.file > MaxFiles
     THEN reader' = [reader EXCEPT !.pc = "exit"]
     ELSE \/ \E blocks \in 1 .. MaxBlocks, tail \in BOOLEAN :
               reader' = [reader EXCEPT !.pc = "file", !.blocks = blocks,
                                        !.tail = tail]
          \/ reader' = [reader EXCEPT !.pc = "process"]
  /\ UNCHANGED <<changes, reader_buffer, from_reader, from_deflate>>
  /\ UNCHANGED readerKeeps

(* reader_read_file: cache_get and read_bytes.  The read fails, or shows   *)
(* that the file is not as long as it was, or it is as expected.           *)
ReadBlock ==
  LET n == reader.count + 1
      Got(kind, error) ==
        reader' = [reader EXCEPT !.count = n, !.seq = @ + 1, !.held =
          <<Buffer(reader.seq, Content(reader.file, n, reader.blocks, kind, error))>>]
  IN /\ reader.pc = "file" /\ reader.held = <<>>
     /\ reader_buffer < ReaderBuffers
     /\ reader_buffer' = reader_buffer + 1
     /\ \/ /\ \E kind \in {"sparse",
                IF reader.tail /\ n = reader.blocks THEN "fragment" ELSE "data"} :
                Got(kind, 0)
           /\ UNCHANGED changes
        \/ Got("data", 1) /\ UNCHANGED changes
        \/ changes < MaxChanges /\ Got("data", 2) /\ changes' = changes + 1
     /\ UNCHANGED <<from_reader, from_deflate, readerKeeps>>

(* An empty file has one buffer, of no bytes: all of it is zero.           *)
ReadEmpty ==
  /\ reader.pc = "file" /\ reader.held = <<>> /\ reader.count = 0
  /\ reader.blocks = 1 /\ ~reader.tail
  /\ reader_buffer < ReaderBuffers
  /\ reader_buffer' = reader_buffer + 1
  /\ reader' = [reader EXCEPT !.count = 1, !.seq = @ + 1, !.held =
       <<Buffer(reader.seq, Content(reader.file, 1, 0, "sparse", 0))>>]
  /\ UNCHANGED <<changes, from_reader, from_deflate, readerKeeps>>

(* queue_put(from_reader): the block read, once the next is wanted or the   *)
(* file is complete.                                                       *)
SendBlock ==
  /\ IF reader.pc = "process" THEN Len(reader.held) = 2 ELSE reader.held # <<>>
  /\ Head(reader.held).content.error = 0
  /\ HasRoom(from_reader, ReaderBuffers)
  /\ from_reader' = Append(from_reader, Head(reader.held))
  /\ reader' = IF \/ reader.pc = "send"
                  \/ reader.pc = "file" /\ reader.count = reader.blocks
               THEN Closed(reader.file + 1)
               ELSE [reader EXCEPT !.held = Tail(@)]
  /\ UNCHANGED <<changes, reader_buffer, from_deflate, readerKeeps>>

(* A buffer that says the file cannot be read, or (2) is read again from   *)
(* its start, does not go through the deflators.                           *)
SendError ==
  /\ reader.held # <<>> /\ Head(reader.held).content.error # 0
  /\ HasRoom(from_deflate, ReaderBuffers)
  /\ from_deflate' = Append(from_deflate, Head(reader.held))
  /\ IF Head(reader.held).content.error = 2
     THEN \E blocks \in 1 .. MaxBlocks, tail \in BOOLEAN :
            reader' = [Closed(reader.file) EXCEPT !.pc = "file", !.blocks = blocks,
                                                  !.tail = tail]
     ELSE reader' = Closed(reader.file + 1)
  /\ UNCHANGED <<changes, reader_buffer, from_reader, readerKeeps>>

(* reader_read_process: it holds one buffer back, because only the end of  *)
(* the output tells which block is the last.  A read gives data, ...       *)
ReadProcess ==
  LET n == reader.count + 1
  IN /\ reader.pc = "process" /\ Len(reader.held) < 2 /\ n <= MaxBlocks
     /\ reader_buffer < ReaderBuffers
     /\ reader_buffer' = reader_buffer + 1
     /\ \E kind \in {"data", "sparse"} :
          reader' = [reader EXCEPT !.count = n, !.seq = @ + 1, !.held = Append(@,
            Buffer(reader.seq, Content(reader.file, n, -1, kind, 0)))]
     /\ UNCHANGED <<changes, from_reader, from_deflate, readerKeeps>>

(* ... or the end of the output, or an error; the buffer of that read is   *)
(* given back (seq --) unless it is the only one.                          *)
EndProcess ==
  LET Hold(content) ==
        reader' = [reader EXCEPT !.pc = "send", !.held = <<Buffer(
          IF @ = <<>> THEN reader.seq ELSE Head(@).sequence, content)>>,
          !.seq = IF reader.held = <<>> THEN @ + 1 ELSE @]
      kept == Head(reader.held).content
  IN /\ reader.pc = "process" /\ Len(reader.held) < 2
     /\ reader_buffer < ReaderBuffers
     /\ reader_buffer' = IF reader.held = <<>> THEN reader_buffer + 1 ELSE reader_buffer
     /\ \/ /\ reader.held = <<>>
           /\ \E error \in {0, 1} : Hold(Content(reader.file, 1, 0, "sparse", error))
        \/ /\ reader.held # <<>>
           /\ \/ Hold([kept EXCEPT !.error = 1])
              \/ \E tail \in BOOLEAN :
                   Hold([kept EXCEPT !.file_size = reader.count, !.kind =
                     IF tail /\ @ = "data" THEN "fragment" ELSE @])
     /\ UNCHANGED <<changes, from_reader, from_deflate, readerKeeps>>

Reader == \/ Open \/ ReadBlock \/ ReadEmpty \/ ReadProcess \/ EndProcess
          \/ SendBlock \/ SendError

-----------------------------------------------------------------------------
(* The deflators.                                                          *)

deflatorKeeps == <<readerVars, fragVars, mainVars, writerVars>>

(* A sparse block and a tail go on in the reader buffer they came in.      *)
TakeBlock(d) ==
  /\ deflator[d].state = "idle" /\ from_reader # <<>>
  /\ LET b == Head(from_reader)
     IN deflator' = [deflator EXCEPT ![d] =
          [state |-> IF b.content.kind = "data" THEN "compress" ELSE "put",
           buffer |-> b]]
  /\ from_reader' = Tail(from_reader)
  /\ UNCHANGED <<reader_buffer, writer_buffer, from_deflate, deflatorKeeps>>

(* cache_get(writer_buffer), mangle2, cache_block_put of the reader buffer.*)
CompressNoWait(d) ==
  /\ deflator[d].state = "compress"
  /\ writer_buffer' = writer_buffer + 1
  /\ reader_buffer' = reader_buffer - 1
  /\ deflator' = [deflator EXCEPT ![d].state = "put"]
  /\ UNCHANGED <<from_reader, from_deflate, deflatorKeeps>>
Compress(d) ==
  /\ deflator[d].state = "compress"
  /\ writer_buffer < WriterBuffers
  /\ writer_buffer' = writer_buffer + 1
  /\ reader_buffer' = reader_buffer - 1
  /\ deflator' = [deflator EXCEPT ![d].state = "put"]
  /\ UNCHANGED <<from_reader, from_deflate, deflatorKeeps>>

PutBlock(d) ==
  /\ deflator[d].state = "put"
  /\ HasRoom(from_deflate, ReaderBuffers)
  /\ from_deflate' = Append(from_deflate, deflator[d].buffer)
  /\ deflator' = [deflator EXCEPT ![d] = Fresh]
  /\ UNCHANGED <<reader_buffer, writer_buffer, from_reader, deflatorKeeps>>

Deflate(d) == TakeBlock(d) \/ Compress(d) \/ PutBlock(d)

-----------------------------------------------------------------------------
(* The frag_deflators and the writer.                                      *)

packVars == <<fragments, fragment_size>>
sourceVars == <<readerVars, reader_buffer, from_reader, from_deflate, deflator>>

TakeFragment(d) ==
  /\ frag_deflator[d] = "idle" /\ to_frag > 0
  /\ to_frag' = to_frag - 1
  /\ frag_deflator' = [frag_deflator EXCEPT ![d] = "compress"]
  /\ UNCHANGED <<sourceVars, writer_buffer, fragment_buffer, frag_locked_list,
                 fragments_outstanding, packVars, mainVars, writerVars>>

CompressFragment(d) ==
  /\ frag_deflator[d] = "compress"
  /\ writer_buffer < WriterBuffers
  /\ writer_buffer' = writer_buffer + 1
  /\ frag_deflator' = [frag_deflator EXCEPT ![d] = "settle"]
  /\ UNCHANGED <<sourceVars, fragment_buffer, to_frag, frag_locked_list,
                 fragments_outstanding, packVars, mainVars, writerVars>>

(* With fragment_mutex: the block goes to the writer, unless main has the  *)
(* fragments locked.                                                       *)
SettleFragment(d) ==
  /\ frag_deflator[d] = "settle"
  /\ IF fragments_locked
     THEN /\ frag_deflator' = [frag_deflator EXCEPT ![d] = "pend"]
          /\ UNCHANGED <<fragments_outstanding, fragment_buffer, to_writer>>
     ELSE /\ HasRoom(to_writer, WriterBuffers)
          /\ to_writer' = Append(to_writer, "buffer")
          /\ fragments_outstanding' = fragments_outstanding - 1
          /\ fragment_buffer' = fragment_buffer - 1
          /\ frag_deflator' = [frag_deflator EXCEPT ![d] = "idle"]
  /\ UNCHANGED <<sourceVars, writer_buffer, to_frag, frag_locked_list, packVars,
                 mainVars, from_writer>>

AddPendingFragment(d) ==
  /\ frag_deflator[d] = "pend"
  /\ frag_locked_list' = frag_locked_list + 1
  /\ fragment_buffer' = fragment_buffer - 1
  /\ frag_deflator' = [frag_deflator EXCEPT ![d] = "idle"]
  /\ UNCHANGED <<sourceVars, writer_buffer, to_frag, fragments_outstanding,
                 packVars, mainVars, writerVars>>

DeflateFragment(d) == \/ TakeFragment(d) \/ CompressFragment(d)
                      \/ SettleFragment(d) \/ AddPendingFragment(d)

Writer ==
  /\ to_writer # <<>>
  /\ to_writer' = Tail(to_writer)
  /\ \/ /\ Head(to_writer) = "buffer"
        /\ writer_buffer' = writer_buffer - 1
        /\ UNCHANGED from_writer
     \/ /\ Head(to_writer) = "NULL"
        /\ HasRoom(from_writer, 1)
        /\ from_writer' = Append(from_writer, "ok")
        /\ UNCHANGED writer_buffer
  /\ UNCHANGED <<sourceVars, fragVars, mainVars>>

-----------------------------------------------------------------------------
(* The main thread.                                                        *)

(* What it does with the buffer it was waiting for.  First, in the middle  *)
(* of a file m: an error gives up the blocks placed so far ...             *)
GiveUpNoRetry(m, error) ==
  /\ main' = [m EXCEPT !.pc = IF m.mode = "dup" /\ m.thresh = 0 THEN "unlock"
                                                               ELSE "truncate",
                       !.tail = 1]
  /\ UNCHANGED <<reader_buffer, to_writer>>
GiveUp(m, error) ==
  /\ main' = [m EXCEPT !.pc = IF m.mode = "dup" /\ m.thresh = 0 THEN "unlock"
                                                               ELSE "truncate",
                       !.redo = (error = 2), !.tail = 1]
  /\ UNCHANGED <<reader_buffer, to_writer>>

(* ... and a block is placed, or held until the file is known to be no     *)
(* duplicate; then the next one is wanted, or the file is complete.        *)
IsLast(m, c) == IF m.mode = "process" THEN c.file_size # -1 ELSE m.got + 1 = m.blocks

Place(m, c) ==
  LET hold == c.kind = "data" /\ m.mode = "dup" /\ m.got >= m.thresh
      tail == IF c.kind = "fragment" THEN 1 ELSE 0
  IN /\ main' = [m EXCEPT !.got = @ + 1,
                          !.held = IF hold THEN @ + 1 ELSE @,
                          !.tail = tail,
                          !.pc = IF ~IsLast(m, c) THEN "get"
                                 ELSE IF m.mode = "dup" THEN "compare" ELSE "unlock",
                          !.next = IF tail = 1 /\ m.mode # "dup" THEN "fill" ELSE "get"]
     /\ reader_buffer' = IF c.kind = "sparse" THEN reader_buffer - 1 ELSE reader_buffer
     /\ IF c.kind = "data" /\ ~hold
        THEN /\ HasRoom(to_writer, WriterBuffers)
             /\ to_writer' = Append(to_writer, "buffer")
        ELSE UNCHANGED to_writer

(* write_file: the first buffer tells what the file is.  Whether a file of *)
(* its size is known (pre_duplicate) is left open.                         *)
ThreshIgnoresFragments(blocks) ==
  IF blocks > WriterBuffers THEN blocks - WriterBuffers ELSE 0
Thresh(blocks) == LET free == WriterBuffers - fragments_outstanding
                  IN IF blocks > free THEN blocks - free ELSE 0

Start(mode, c) == Place([main EXCEPT !.mode = mode, !.blocks = c.file_size,
  !.thresh = IF mode = "dup" THEN Thresh(c.file_size) ELSE 0], c)

NoBlocks(c) == c.error # 0 \/ c.file_size = 0

WriteFile(c) ==
  \/ /\ NoBlocks(c)
     /\ main' = Between(IF c.error = 2 THEN main.files ELSE main.files + 1)
     /\ reader_buffer' = reader_buffer - 1
     /\ UNCHANGED <<to_writer, fragments_locked>>
  \/ /\ ~NoBlocks(c) /\ c.file_size # -1 /\ c.kind = "fragment" 
     /\ \E pc \in {"fill", "compare"} :
          main' = [main EXCEPT !.pc = pc, !.mode = "fragment", !.tail = 1]
     /\ UNCHANGED <<reader_buffer, to_writer, fragments_locked>>
  \/ /\ ~NoBlocks(c) /\ (c.file_size = -1 \/ c.kind # "fragment")
     /\ \E mode \in IF c.file_size = -1 THEN {"process"} ELSE {"blocks", "dup"} :
          Start(mode, c)
     /\ fragments_locked' = TRUE

Handle(c) ==
  /\ sequence' = sequence + 1
  /\ IF main.mode = "none" THEN WriteFile(c)
     ELSE /\ IF c.error # 0 THEN GiveUp(main, c.error) ELSE Place(main, c)
          /\ UNCHANGED fragments_locked

(* get_file_buffer: the next buffer is in block_hash, or from_deflate has  *)
(* it, or it has one that must wait for its turn.                          *)
InHash == {b \in block_hash : b.sequence = sequence}

GetBufferAsItComes ==
  /\ main.pc = "get" /\ from_deflate # <<>>
  /\ from_deflate' = Tail(from_deflate)
  /\ Handle(Head(from_deflate).content)
  /\ UNCHANGED <<readerVars, writer_buffer, from_reader, deflator, fragVars,
                 block_hash, from_writer>>
GetBuffer ==
  /\ main.pc = "get"
  /\ IF InHash # {}
     THEN /\ block_hash' = block_hash \ InHash
          /\ \E b \in InHash : Handle(b.content)
          /\ UNCHANGED from_deflate
     ELSE /\ from_deflate # <<>>
          /\ from_deflate' = Tail(from_deflate)
          /\ IF Head(from_deflate).sequence = sequence
             THEN /\ Handle(Head(from_deflate).content)
                  /\ UNCHANGED block_hash
             ELSE /\ block_hash' = block_hash \cup {Head(from_deflate)}
                  /\ UNCHANGED <<main, sequence, fragments_locked, reader_buffer,
                                 to_writer>>
  /\ UNCHANGED <<readerVars, writer_buffer, from_reader, deflator, fragVars,
                 from_writer>>

mainKeeps == <<readerVars, from_reader, from_deflate, deflator, block_hash, sequence>>

(* duplicate, pre_duplicate_frag: the fragment of a file it is compared    *)
(* with is used, which takes a buffer for a while if it is in none.        *)
Fetch ==
  /\ main.pc = "compare"
  /\ fragments + fragment_size > fragment_buffer
  /\ main' = [main EXCEPT !.pc = "fetch"]
  /\ UNCHANGED <<mainKeeps, reader_buffer, writer_buffer, fragVars, writerVars,
                 fragments_locked>>

Fetched ==
  /\ main.pc = "fetch"
  /\ fragment_buffer < FragmentBuffers
  /\ main' = [main EXCEPT !.pc = "decide"]
  /\ UNCHANGED <<mainKeeps, reader_buffer, writer_buffer, fragVars, writerVars,
                 fragments_locked>>

(* The file is a duplicate: its blocks and its tail are dropped.           *)
DuplicateLeaks ==
  /\ main.pc \in {"compare", "decide"} /\ main.files > 0
  /\ main' = IF main.mode = "fragment" THEN Between(main.files + 1)
             ELSE [main EXCEPT !.pc = IF main.thresh > 0 THEN "truncate" ELSE "unlock",
                               !.held = 0]
  /\ reader_buffer' = IF main.mode = "fragment" THEN reader_buffer - 1 ELSE reader_buffer
  /\ UNCHANGED <<mainKeeps, writer_buffer, fragVars, writerVars, fragments_locked>>
Duplicate ==
  /\ main.pc \in {"compare", "decide"} /\ main.files > 0
  /\ main' = IF main.mode = "fragment" THEN Between(main.files + 1)
             ELSE [main EXCEPT !.pc = IF main.thresh > 0 THEN "truncate" ELSE "unlock",
                               !.held = 0]
  /\ writer_buffer' = writer_buffer - main.held
  /\ reader_buffer' = IF main.mode = "fragment" THEN reader_buffer - 1 ELSE reader_buffer
  /\ UNCHANGED <<mainKeeps, fragVars, writerVars, fragments_locked>>

(* It is not: the writer gets its blocks, a fragment its tail.             *)
NotDuplicate ==
  /\ main.pc \in {"compare", "decide"}
  /\ Len(to_writer) + main.held <= WriterBuffers
  /\ to_writer' = to_writer \o [i \in 1 .. main.held |-> "buffer"]
  /\ main' = [main EXCEPT !.pc = IF main.tail = 1 THEN "fill" ELSE "unlock", !.held = 0]
  /\ UNCHANGED <<mainKeeps, reader_buffer, writer_buffer, fragVars, from_writer,
                 fragments_locked>>

(* write_fragment.                                                         *)
PutFragment ==
  /\ to_frag < FragmentBuffers
  /\ to_frag' = to_frag + 1
  /\ fragments_outstanding' = fragments_outstanding + 1
  /\ fragments' = fragments + 1
  /\ fragment_size' = 0
  /\ UNCHANGED <<fragment_buffer, frag_deflator, frag_locked_list>>

(* get_and_fill_fragment: the tail does not fit into the current fragment, *)
(* which is written first; then it fits, or starts a new one.              *)
FillWrites ==
  /\ main.pc = "fill" /\ fragment_size = 1
  /\ PutFragment
  /\ UNCHANGED <<mainKeeps, main, reader_buffer, writer_buffer, writerVars,
                 fragments_locked>>

FillNoWait ==
  /\ main.pc = "fill" /\ fragment_size = 0
  /\ fragment_buffer' = fragment_buffer + 1
  /\ fragment_size' = 1
  /\ IF main.mode = "dup"
     THEN main' = [main EXCEPT !.pc = "unlock"] /\ UNCHANGED reader_buffer
     ELSE main' = Between(main.files + 1) /\ reader_buffer' = reader_buffer - 1
  /\ UNCHANGED <<mainKeeps, writer_buffer, writerVars, fragments_locked, fragments,
                 to_frag, frag_deflator, frag_locked_list, fragments_outstanding>>
Fill ==
  /\ main.pc = "fill"
  /\ \/ fragment_size = 1 /\ UNCHANGED fragment_buffer
     \/ /\ fragment_size = 0 /\ fragment_buffer < FragmentBuffers
        /\ fragment_buffer' = fragment_buffer + 1
  /\ fragment_size' = 1
  /\ IF main.mode = "dup"
     THEN main' = [main EXCEPT !.pc = "unlock"] /\ UNCHANGED reader_buffer
     ELSE main' = Between(main.files + 1) /\ reader_buffer' = reader_buffer - 1
  /\ UNCHANGED <<mainKeeps, writer_buffer, writerVars, fragments_locked, fragments,
                 to_frag, frag_deflator, frag_locked_list, fragments_outstanding>>

(* queue_put(to_writer, NULL) and queue_get(from_writer) before ftruncate. *)
AskFlush ==
  /\ main.pc = "truncate"
  /\ HasRoom(to_writer, WriterBuffers)
  /\ to_writer' = Append(to_writer, "NULL")
  /\ main' = [main EXCEPT !.pc = "flush"]
  /\ UNCHANGED <<mainKeeps, reader_buffer, writer_buffer, fragVars, from_writer,
                 fragments_locked>>

Flushed ==
  /\ main.pc = "flush" /\ from_writer # <<>>
  /\ from_writer' = Tail(from_writer)
  /\ main' = [main EXCEPT !.pc = "unlock"]
  /\ UNCHANGED <<mainKeeps, reader_buffer, writer_buffer, fragVars, to_writer,
                 fragments_locked>>

(* unlock_fragments, and what is still held of a file main is done with.   *)
Unlock ==
  /\ main.pc = "unlock"
  /\ Len(to_writer) + frag_locked_list <= WriterBuffers
  /\ to_writer' = to_writer \o [i \in 1 .. frag_locked_list |-> "buffer"]
  /\ fragments_outstanding' = fragments_outstanding - frag_locked_list
  /\ frag_locked_list' = 0
  /\ fragments_locked' = FALSE
  /\ IF main.next = "fill"
     THEN /\ main' = [main EXCEPT !.pc = "fill"]
          /\ UNCHANGED <<reader_buffer, writer_buffer>>
     ELSE /\ main' = Between(IF main.redo THEN main.files ELSE main.files + 1)
          /\ reader_buffer' = reader_buffer - main.tail
          /\ writer_buffer' = writer_buffer - main.held
  /\ UNCHANGED <<mainKeeps, fragment_buffer, to_frag, frag_deflator, packVars,
                 from_writer>>

(* dir_scan is over: the last fragment.                                    *)
Finish ==
  /\ main.pc = "get" /\ main.mode = "none" /\ main.files = MaxFiles
  /\ main' = [main EXCEPT !.pc = "finished"]
  /\ IF fragment_size = 1 THEN PutFragment ELSE UNCHANGED fragVars
  /\ UNCHANGED <<mainKeeps, reader_buffer, writer_buffer, writerVars,
                 fragments_locked>>

Main == \/ GetBuffer \/ Fetch \/ Fetched \/ Duplicate \/ NotDuplicate
        \/ FillWrites \/ Fill \/ AskFlush \/ Flushed \/ Unlock \/ Finish

-----------------------------------------------------------------------------
Next == \/ Reader \/ Main \/ Writer
        \/ \E d \in Deflators : Deflate(d)
        \/ \E d \in FragDeflators : DeflateFragment(d)

Spec == Init /\ [][Next]_vars

Fairness == /\ WF_vars(Reader) /\ WF_vars(Main) /\ WF_vars(Writer)
            /\ \A d \in Deflators : WF_vars(Deflate(d))
            /\ \A d \in FragDeflators : WF_vars(DeflateFragment(d))
FairSpec == Spec /\ Fairness

-----------------------------------------------------------------------------
Carried == {deflator[d].buffer : d \in {e \in Deflators : deflator[e].state # "idle"}}
InFlight == Range(from_reader) \cup Carried \cup Range(from_deflate) \cup block_hash
Buffers == [sequence : Nat, content : Contents]

TypeOK ==
  /\ reader.pc \in {"open", "file", "process", "send", "exit"}
  /\ reader.held \in Seq(Buffers) /\ Len(reader.held) <= 2
  /\ reader_buffer \in 0 .. ReaderBuffers
  /\ writer_buffer \in 0 .. WriterBuffers
  /\ fragment_buffer \in 0 .. FragmentBuffers
  /\ from_reader \in Seq(Buffers) /\ from_deflate \in Seq(Buffers)
  /\ to_frag \in 0 .. FragmentBuffers
  /\ to_writer \in Seq({"buffer", "NULL"}) /\ Len(to_writer) <= WriterBuffers
  /\ Len(from_writer) <= 1
  /\ \A d \in Deflators : deflator[d].state \in {"idle", "compress", "put"}
  /\ frag_deflator \in [FragDeflators -> {"idle", "compress", "settle", "pend"}]
  /\ main.files \in 0 .. MaxFiles /\ main.held \in Nat /\ main.tail \in {0, 1}
  /\ block_hash \subseteq Buffers
  /\ fragments_outstanding \in Nat /\ frag_locked_list \in Nat

(* Main gets exactly what the reader sent, in the order it was sent:       *)
(* several deflators, the error buffers that overtake everything, and the  *)
(* sequence numbers the reader takes back lose, repeat or reorder nothing, *)
(* and no more than all reader and writer buffers are ever under way.      *)
Turn(b) == Cardinality({e \in InFlight : e.sequence < b.sequence}) + 1
Sorted == [i \in 1 .. Cardinality(InFlight) |-> CHOOSE b \in InFlight : Turn(b) = i]
Abstract == INSTANCE Fifo WITH
  q <- [i \in DOMAIN Sorted |-> Sorted[i].content],
  Values <- Contents, Capacity <- ReaderBuffers + WriterBuffers
DeliversInOrder == Abstract!Spec

(* The reader and main agree where a file ends: the oldest buffer under    *)
(* way is the first of a file when main is between two files, and the next *)
(* of the same file when main is in the middle of one, also when the file  *)
(* shrank, grew, failed or turned out to be empty as it was read.          *)
FileWhole ==
  InFlight # {} =>
    LET c == Sorted[1].content
        inside == main.pc = "get" /\ main.mode # "none"
    IN /\ c.file = IF main.mode = "none" \/ inside \/ main.redo
                   THEN main.files + 1 ELSE main.files + 2
       /\ c.block = IF inside THEN main.got + 1 ELSE 1

(* No buffer is leaked or put back twice: the buffers in use are those     *)
(* that some thread or queue holds.                                        *)
IsData(b) == b.content.kind = "data" /\ b.content.error = 0
Compressed == {b \in InFlight : IsData(b) /\ b \notin Range(from_reader)
                 /\ \A d \in Deflators : deflator[d] # [state |-> "compress", buffer |-> b]}
FragBlocks == Cardinality({d \in FragDeflators : frag_deflator[d] \in {"settle", "pend"}})
BuffersExact ==
  /\ reader_buffer = Cardinality(InFlight) - Cardinality(Compressed)
                     + Len(reader.held) + main.tail
  /\ writer_buffer = Cardinality(Compressed) + main.held + FragBlocks + frag_locked_list
                     + Cardinality({i \in DOMAIN to_writer : to_writer[i] = "buffer"})
  /\ fragment_buffer = fragment_size + to_frag
                     + Cardinality({d \in FragDeflators : frag_deflator[d] # "idle"})

(* Nobody waits for room in a queue with fragment_mutex held, which would  *)
(* stop every frag_deflator and main.                                      *)
MutexNeverWaits ==
  /\ main.pc \in {"fill", "get"} /\ fragment_size = 1 => to_frag < FragmentBuffers
  /\ main.pc = "unlock" => Len(to_writer) + frag_locked_list <= WriterBuffers
  /\ \A d \in FragDeflators :
       frag_deflator[d] = "settle" /\ ~fragments_locked =>
         HasRoom(to_writer, WriterBuffers)

(* Main gets every file: no cycle of full caches and queues.               *)
Completes == <>(main.pc = "finished")
=============================================================================
