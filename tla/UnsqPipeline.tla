---------------------------- MODULE UnsqPipeline ----------------------------
(***************************************************************************)
(* The threads of unsquashfs that write regular files.  Main asks the      *)
(* caches for the blocks of a file and hands them to the writer in order;  *)
(* a block that is not in its cache goes through the reader and, if it is  *)
(* compressed, a deflator, and is pending until then.  The writer waits    *)
(* for each block and writes it; a file with a block that cannot be read   *)
(* or written is skipped.                                                  *)
(*                                                                         *)
(* The caches of unsquashfs.c are those of BufferCache with every buffer   *)
(* kept and the cache grown before the free list is used.  Main alone      *)
(* calls cache_get.  Blocks of an image are numbered; files may share      *)
(* them, as duplicates and tails do.  Files are opened without error.      *)
(***************************************************************************)
EXTENDS BufferCache

CONSTANTS Deflators,
          DataBuffers, FragmentBuffers,
          DataBlocks, Fragments,        (* the image                       *)
          WriterQueue,                  (* size of to_writer               *)
          MaxFiles, MaxBlocks           (* bounds                          *)

ASSUME QueueAssumption == WriterQueue \in Nat \ {0}

(* The buffers of a cache and the deflators are finitely many, NULL is no  *)
(* buffer, and a block is known by its position in the image.              *)
ASSUME BuffersAssumption ==
  /\ IsFiniteSet(DataBuffers) /\ IsFiniteSet(FragmentBuffers)
  /\ NoBuffer \notin DataBuffers \cup FragmentBuffers
ASSUME DeflatorsAssumption == IsFiniteSet(Deflators)
ASSUME BlocksAssumption == DataBlocks \subseteq Nat /\ Fragments \subseteq Nat

VARIABLES
  main,             (* where main is: its file and the blocks it has left  *)
  cache,            (* data_cache and fragment_cache                       *)
  pending, error,   (* the entries with that flag                          *)
  data,             (* what is in each entry                               *)
  to_reader, reader, to_deflate, deflator,
  to_writer, writer, from_writer,
  files             (* how many there are, and what became of them         *)

readVars == <<to_reader, reader, to_deflate, deflator>>
cacheVars == <<cache, pending, error>>
vars == <<main, cacheVars, data, readVars, to_writer, writer, from_writer, files>>

-----------------------------------------------------------------------------
Hole == <<"hole", 0>>                \* no buffer: a sparse block
Caches == {"data", "fragment"}
BuffersOf == [data |-> DataBuffers, fragment |-> FragmentBuffers]
IndexesOf == [data |-> DataBlocks, fragment |-> Fragments]
Entries == {"data"} \X DataBuffers \cup {"fragment"} \X FragmentBuffers
NoEntry == <<"none", "none">>

(* What a file is made of: consecutive blocks, some of them holes, and     *)
(* perhaps a tail.  Each is asked for at a cache.                          *)
Runs(n) ==
  {l \in [1 .. n -> ({"data"} \X DataBlocks) \cup {Hole}] :
     \A i, j \in 1 .. n : (i < j /\ Hole \notin {l[i], l[j]}) =>
       l[j][2] = l[i][2] + Cardinality({k \in i + 1 .. j : l[k] # Hole})}
Tails == {<<>>} \cup {<<<<"fragment", f>>>> : f \in Fragments}
Contents == {run \o tail : run \in UNION {Runs(n) : n \in 0 .. MaxBlocks}, tail \in Tails}

Used(e) == cache[e[1]].used[e[2]]
Block(e) == <<e[1], cache[e[1]].index[e[2]]>>
Idle == [pc |-> "idle", todo |-> <<>>, entry |-> NoEntry]
IdleWriter == [pc |-> "idle", content |-> <<>>, left |-> 0, entry |-> NoEntry,
               failed |-> FALSE, written |-> <<>>]

CacheInit(c) == EmptyCache(BuffersOf[c], IndexesOf[c])

Init ==
  /\ main = Idle /\ files = [created |-> 0, kept |-> 0, unlinked |-> 0]
  /\ cache = [c \in Caches |-> CacheInit(c)]
  /\ pending = {} /\ error = {} /\ data = [e \in Entries |-> <<NoEntry, "raw">>]
  /\ to_reader = <<>> /\ reader = NoEntry
  /\ to_deflate = <<>> /\ deflator = [d \in Deflators |-> NoEntry]
  /\ to_writer = <<>> /\ writer = IdleWriter /\ from_writer = <<>>

-----------------------------------------------------------------------------
(* Main.                                                                   *)
PutToWriterNoWait(item) == to_writer' = Append(to_writer, item)
PutToWriter(item) == /\ Len(to_writer) < WriterQueue
                     /\ to_writer' = Append(to_writer, item)

(* write_file: the file itself is handed over before its blocks.           *)
WriteFile ==
  /\ main.pc = "idle" /\ files.created < MaxFiles
  /\ \E content \in Contents :
       /\ PutToWriter([file |-> content])
       /\ files' = [files EXCEPT !.created = @ + 1]
       /\ main' = IF content = <<>> THEN Idle
                  ELSE [pc |-> "get", todo |-> content, entry |-> NoEntry]
  /\ UNCHANGED <<cacheVars, data, readVars, writer, from_writer>>

(* cache_get.  An entry that is found may still be pending.                *)
Fetch(c, b, i) ==
  /\ cache' = [cache EXCEPT ![c] = Get(@, b, i)]
  /\ pending' = pending \cup {<<c, b>>} /\ error' = error \ {<<c, b>>}
  /\ to_reader' = Append(to_reader, <<c, b>>)

CacheGetRereads ==
  /\ main.pc = "get" /\ Head(main.todo) # Hole
  /\ LET c == Head(main.todo)[1]
         i == Head(main.todo)[2]
         found == Found(cache[c], i)
     IN IF found # NoBuffer
        THEN /\ cache' = [cache EXCEPT ![c] = Lookup(@, found)]
             /\ pending' = pending \cup {<<c, found>>} /\ error' = error
             /\ to_reader' = Append(to_reader, <<c, found>>)
             /\ main' = [main EXCEPT !.pc = "put", !.entry = <<c, found>>]
        ELSE \E b \in Gettable(cache[c], FALSE) :
               /\ Fetch(c, b, i)
               /\ main' = [main EXCEPT !.pc = "put", !.entry = <<c, b>>]
  /\ UNCHANGED <<data, reader, to_deflate, deflator, to_writer, writer, from_writer, files>>
CacheGet ==
  /\ main.pc = "get" /\ Head(main.todo) # Hole
  /\ LET c == Head(main.todo)[1]
         i == Head(main.todo)[2]
         found == Found(cache[c], i)
     IN IF found # NoBuffer
        THEN /\ cache' = [cache EXCEPT ![c] = Lookup(@, found)]
             /\ main' = [main EXCEPT !.pc = "put", !.entry = <<c, found>>]
             /\ UNCHANGED <<pending, error, to_reader>>
        ELSE \E b \in Gettable(cache[c], FALSE) :
               /\ Fetch(c, b, i)
               /\ main' = [main EXCEPT !.pc = "put", !.entry = <<c, b>>]
  /\ UNCHANGED <<data, reader, to_deflate, deflator, to_writer, writer, from_writer, files>>

SparseBlock ==
  /\ main.pc = "get" /\ Head(main.todo) = Hole
  /\ main' = [main EXCEPT !.pc = "put", !.entry = NoEntry]
  /\ UNCHANGED <<cacheVars, data, readVars, to_writer, writer, from_writer, files>>

PutBlock ==
  /\ main.pc = "put"
  /\ PutToWriter([entry |-> main.entry])
  /\ main' = IF Len(main.todo) = 1 THEN Idle
             ELSE [pc |-> "get", todo |-> Tail(main.todo), entry |-> NoEntry]
  /\ UNCHANGED <<cacheVars, data, readVars, writer, from_writer, files>>

(* The end of main: it asks the writer whether it has come to the end.     *)
Finish ==
  /\ main.pc = "idle"
  /\ PutToWriter([flush |-> TRUE])
  /\ main' = [main EXCEPT !.pc = "flush"]
  /\ UNCHANGED <<cacheVars, data, readVars, writer, from_writer, files>>

Finished ==
  /\ main.pc = "flush" /\ from_writer # <<>>
  /\ from_writer' = Tail(from_writer)
  /\ main' = [main EXCEPT !.pc = "done"]
  /\ UNCHANGED <<cacheVars, data, readVars, to_writer, writer, files>>

Main == WriteFile \/ CacheGet \/ SparseBlock \/ PutBlock \/ Finish \/ Finished

-----------------------------------------------------------------------------
(* The reader and the deflators.                                           *)

(* cache_block_ready, after the block was or was not made available.       *)
BlockReadyUnlessError(e, failed) ==
  /\ pending' = IF failed THEN pending ELSE pending \ {e}
  /\ error' = IF failed THEN error \cup {e} ELSE error \ {e}
BlockReady(e, failed) ==
  /\ pending' = pending \ {e}
  /\ error' = IF failed THEN error \cup {e} ELSE error \ {e}

TakeRead ==
  /\ reader = NoEntry /\ to_reader # <<>>
  /\ reader' = Head(to_reader) /\ to_reader' = Tail(to_reader)
  /\ UNCHANGED <<main, cacheVars, data, to_deflate, deflator, to_writer, writer,
                 from_writer, files>>

Read ==
  /\ reader # NoEntry /\ reader' = NoEntry
  /\ \/ \* compressed
        /\ data' = [data EXCEPT ![reader] = <<Block(reader), "raw">>]
        /\ to_deflate' = Append(to_deflate, reader)
        /\ UNCHANGED <<pending, error>>
     \/ \* not compressed
        /\ data' = [data EXCEPT ![reader] = <<Block(reader), "plain">>]
        /\ BlockReady(reader, FALSE) /\ UNCHANGED to_deflate
     \/ \* read_fs_bytes failed
        /\ data' = [data EXCEPT ![reader] = <<NoEntry, "raw">>]
        /\ BlockReady(reader, TRUE) /\ UNCHANGED to_deflate
  /\ UNCHANGED <<main, cache, to_reader, deflator, to_writer, writer, from_writer, files>>

Reader == TakeRead \/ Read

TakeDeflate(d) ==
  /\ deflator[d] = NoEntry /\ to_deflate # <<>>
  /\ deflator' = [deflator EXCEPT ![d] = Head(to_deflate)]
  /\ to_deflate' = Tail(to_deflate)
  /\ UNCHANGED <<main, cacheVars, data, to_reader, reader, to_writer, writer,
                 from_writer, files>>

Uncompress(d) ==
  /\ deflator[d] # NoEntry /\ deflator' = [deflator EXCEPT ![d] = NoEntry]
  /\ \E failed \in BOOLEAN :
       /\ data' = IF failed THEN data ELSE [data EXCEPT ![deflator[d]][2] = "plain"]
       /\ BlockReady(deflator[d], failed)
  /\ UNCHANGED <<main, cache, to_reader, reader, to_deflate, to_writer, writer,
                 from_writer, files>>

Deflate(d) == TakeDeflate(d) \/ Uncompress(d)

-----------------------------------------------------------------------------
(* The writer.                                                             *)
TakeItem ==
  /\ to_writer # <<>> /\ writer.entry = NoEntry
  /\ LET item == Head(to_writer)
     IN \/ \* a file, or NULL, which is answered
           /\ writer.pc = "idle"
           /\ IF "flush" \in DOMAIN item
              THEN /\ from_writer = <<>> /\ from_writer' = <<item>>
                   /\ UNCHANGED writer
              ELSE /\ writer' = [IdleWriter EXCEPT !.pc = "file", !.content = item.file,
                                                   !.left = Len(item.file)]
                   /\ UNCHANGED from_writer
        \/ \* the next block of the file
           /\ writer.pc = "file" /\ writer.left > 0
           /\ writer' = IF item.entry = NoEntry
                        THEN [writer EXCEPT !.left = @ - 1, !.written = Append(@, <<Hole, "plain">>)]
                        ELSE [writer EXCEPT !.entry = item.entry]
           /\ UNCHANGED from_writer
  /\ to_writer' = Tail(to_writer)
  /\ UNCHANGED <<main, cacheVars, data, readVars, files>>

(* cache_block_wait, and the block.  A file that has failed is passed over *)
(* without cache_block_put.                                                *)
CacheBlockWait(e) == e \notin pending
CacheBlockPut(e) == cache' = [cache EXCEPT ![e[1]] = Put(@, e[2])]

SkipForgets(e) ==
  /\ writer' = [writer EXCEPT !.left = @ - 1, !.entry = NoEntry]
  /\ UNCHANGED cache
Skip(e) ==
  /\ writer' = [writer EXCEPT !.left = @ - 1, !.entry = NoEntry, !.failed = TRUE]
  /\ UNCHANGED cache
SkipPuts(e) ==
  /\ writer' = [writer EXCEPT !.left = @ - 1, !.entry = NoEntry, !.failed = TRUE]
  /\ CacheBlockPut(e)
WriteOut(e) ==
  /\ \/ writer' = [writer EXCEPT !.left = @ - 1, !.entry = NoEntry,
                                 !.written = Append(@, data[e])]
     \/ writer' = [writer EXCEPT !.left = @ - 1, !.entry = NoEntry, !.failed = TRUE]
  /\ CacheBlockPut(e)

WriteBlockNoWait ==
  /\ LET e == writer.entry
     IN /\ e # NoEntry
        /\ IF writer.failed THEN SkipPuts(e)
           ELSE /\ CacheBlockWait(e)
                /\ IF e \in error THEN SkipPuts(e) ELSE WriteOut(e)
  /\ UNCHANGED <<main, pending, error, data, readVars, to_writer, from_writer, files>>
WriteBlock ==
  /\ LET e == writer.entry
     IN /\ e # NoEntry /\ CacheBlockWait(e)
        /\ IF writer.failed \/ e \in error THEN Skip(e) ELSE WriteOut(e)
  /\ UNCHANGED <<main, pending, error, data, readVars, to_writer, from_writer, files>>

(* The file is closed, and unlinked if it has failed; the hole at its end  *)
(* may fail to be written.                                                 *)
CloseFile ==
  /\ writer.pc = "file" /\ writer.left = 0
  /\ \E failed \in BOOLEAN :
       /\ writer.failed => failed
       /\ (failed /\ ~writer.failed) =>
            /\ writer.written # <<>> /\ Last(writer.written) = <<Hole, "plain">>
       /\ files' = IF failed THEN [files EXCEPT !.unlinked = @ + 1]
                    ELSE [files EXCEPT !.kept = @ + 1]
  /\ writer' = IdleWriter
  /\ UNCHANGED <<main, cacheVars, data, readVars, to_writer, from_writer>>

Writer == TakeItem \/ WriteBlock \/ CloseFile

-----------------------------------------------------------------------------
Next == Main \/ Reader \/ (\E d \in Deflators : Deflate(d)) \/ Writer

Fairness == /\ WF_vars(Main) /\ WF_vars(Reader) /\ WF_vars(Writer)
            /\ \A d \in Deflators : WF_vars(Deflate(d))

Spec == Init /\ [][Next]_vars /\ Fairness

-----------------------------------------------------------------------------
(* Who has an entry: main and the writer, with to_writer between them.     *)
Queued(e) ==
  Cardinality({i \in DOMAIN to_writer :
                 "entry" \in DOMAIN to_writer[i] /\ to_writer[i].entry = e})
Holders(e) == Queued(e) + (IF main.pc = "put" /\ main.entry = e THEN 1 ELSE 0)
                        + (IF writer.entry = e THEN 1 ELSE 0)

(* Who reads an entry.                                                     *)
Times(e, s) == Cardinality({i \in DOMAIN s : s[i] = e})
Readers(e) == Times(e, to_reader) + Times(e, to_deflate)
              + (IF reader = e THEN 1 ELSE 0)
              + Cardinality({d \in Deflators : deflator[d] = e})
Lost(c) == {b \in BuffersOf[c] : Used(<<c, b>>) > Holders(<<c, b>>)}

(* Every variable has its type.                                            *)
TypeOK ==
  /\ main.pc \in {"idle", "get", "put", "flush", "done"}
  /\ main.entry \in Entries \cup {NoEntry}
  /\ pending \subseteq Entries /\ error \subseteq Entries
  /\ Range(to_reader) \cup Range(to_deflate) \subseteq Entries
  /\ Len(to_writer) <= WriterQueue /\ Len(from_writer) <= 1
  /\ Len(to_reader) <= Cardinality(Entries) /\ Len(to_deflate) <= Cardinality(Entries)

(* An entry is pending exactly while one thread, and one only, is to read  *)
(* or uncompress into it, and it has a user for as long, so that cache_get *)
(* does not give it to another block under the reader or a deflator.       *)
ReadOnce ==
  \A e \in Entries : /\ Readers(e) = (IF e \in pending THEN 1 ELSE 0)
                     /\ e \in pending => Used(e) > 0

(* An entry main or the writer still has is not on the free list, however  *)
(* many files share it.                                                    *)
HeldIsUsed ==
  /\ \A c \in Caches : WellFormed(cache[c])
  /\ \A e \in Entries : Used(e) >= Holders(e)

(* A file the writer does not skip holds its own blocks, all of them, in   *)
(* order and uncompressed; and at the end every file was written or        *)
(* skipped.                                                                *)
KeptWhole ==
  /\ (writer.pc = "file" /\ writer.left = 0 /\ ~writer.failed) =>
       /\ DOMAIN writer.written = DOMAIN writer.content
       /\ \A i \in DOMAIN writer.written : writer.written[i] = <<writer.content[i], "plain">>
  /\ main.pc = "done" => files.created = files.kept + files.unlinked

(* Main gets to its end, or the files that were skipped have cost every    *)
(* buffer of one cache.                                                    *)
EndsUnlessLost ==
  <>(main.pc = "done" \/ \E c \in Caches : Lost(c) = BuffersOf[c])

(* Main gets to its end, also when files are skipped.                      *)
Ends == <>(main.pc = "done")
=============================================================================
