# A verification development for firmware-tools

The repository repacks OpenWrt firmware images: `openwrt-repack.sh` finds the
squashfs file system in an image, unpacks it (`unsquashfs`), installs or removes
packages in the unpacked tree (`opkg`), builds a new squashfs (`mksquashfs`) and
pads the result (`padjffs2`).  The concurrent core of that chain is
`mksquashfs.c`, a program of 2N + 3 threads that hand buffers to each other
through bounded queues; the stateful core of the rest is `opkg`'s installation
with its unwinding.  This directory models three things:

* the threads of `mksquashfs` and `unsquashfs` and the buffers between them
  (`BoundedQueue`, `MkOutput`, `MkPipeline`, `MkCache`, `UnsqPipeline`);
* what an image is, from the source directories to the extracted files, through
  appends, interrupts, failures, kills and recovery (`Squash` and the modules under
  it);
* `opkg` and its library installing, upgrading and removing packages, with
  failing scripts, interrupts and crashes (`Opkg` and the modules under it).

For every number of threads and every size it proves what the queues, the layout
of the output, the pipeline of mksquashfs and the threads of unsquashfs promise.

## 1. Inventory

| Part | State | Operations | Interacts with |
|---|---|---|---|
| queues (`mksquashfs.c:348-503`, the same in `unsquashfs.c:142-193`) | ring, `readp`, `writep`, mutex, conditions `empty` and `full` | `queue_init`, `queue_put`, `queue_get` | every thread |
| buffer caches (`508-731`) | `count`, `free_list`, hash table by index, use counts | `cache_get`, `cache_lookup`, `cache_rehash`, `cache_block_put` | reader, deflators, frag_deflators, main, writer |
| reader (`2287-2516`) | `seq`, the file being read, one buffer kept back | `reader_read_file`, `reader_read_process`, restart when a file changed | source files; `from_reader`, `from_deflate` |
| deflators (`2580-2618`) | the block in hand | compress, or pass on a sparse block or a tail | `from_reader`, `from_deflate`, writer cache |
| frag_deflators (`2621-2663`) | the fragment in hand | compress, then place or leave on the list | `to_frag`, `bytes`, `fragment_mutex` |
| main (`2670-3264`, `5319-5345`) | `bytes`, `block_hash`, `sequence`, the file being written, `fragments`, `fragment_size` | `get_file_buffer`, the four `write_file_*`, duplicates, `lock_fragments`, `unlock_fragments`, truncation, the end | everybody |
| writer (`2519-2557`) | `write_error` | write a buffer, answer a flush | destination file |
| scans (`3387-3840`, `pseudo.c`, `sort.c`) | the tree of `dir_info`, exclude lists, pseudo definitions, priorities | `dir_scan1`, `dir_scan2`, `excluded`, `add_path`, `generate_file_priorities` | source directories |
| inodes, directories, tables (`910-1730`, `1910-1990`, `3839-4178`, `xattr.c`) | inode and directory tables, ids, fragments, lookup table, xattr store | `create_inode`, `get_inode`, `add_dir`, `write_dir`, `dir_scan3`, `generic_write_table` | main |
| append (`5086-5374`, `read_fs.c`) | the tables of the old image, the state saved for restoring | `read_super`, `read_filesystem`, `add_old_root_entry` | the image |
| interrupt and recovery file (`760-850`, `4427-4553`) | `interrupted`, `restoring`, the recovery file | `restorefs`, `sighandler`, `write_recovery_data`, `read_recovery_data` | signals, kill, restart |
| unsquashfs pipeline (`unsquashfs.c:260-440`, `1618-1772`) | caches with pending blocks, file descriptors | reader, deflators, writer, `cache_get`, `cache_block_wait` | image, output tree |
| unsquashfs scan (`unsquashfs.c:660-1357`, `unsquash-4.c`) | the tables read, `created_inode`, the paths asked for | `dir_scan`, `create_inode`, `set_attributes`, `squashfs_opendir` | image, output tree |
| opkg install, remove, upgrade, configure | package states, file owners, conffile backups, lists on disk | steps, unwinding, a point of no return | maintainer scripts, root file system |
| opkg dependencies, database, status file | `dependencies_checked` marks, hashes, `.list` and status files | resolution, loading, writing, SIGINT handler | files |
| opkg lock, download, feeds, parsers | `lock_fd`, a cache of archives | `lockf`, transfer, parsing | files, network |
| `padjffs2`, `hexof`, `openwrt-repack.sh`, `opkg.sh` | a file offset; temporary directory | sequential | image files |
| compressors, readers of formats 1 to 3, libbb | tables | encoding and decoding | - |

`PROJECT.json` lists every part under `components` with its status, and under
`hazards` what can go wrong where.  What makes the write path hard:

* Main and N frag_deflators all advance one file position, `bytes`; main does so
  without the mutex, protected only by the flag `fragments_locked`, and moves it
  *back* when a file fails or is a duplicate, while a writer thread is behind.
* Blocks are compressed by N threads in any order, error buffers overtake
  everything, and the reader takes sequence numbers back.
* Every cache and queue is bounded, and main keeps buffers: those out of turn,
  those of a possible duplicate, the fragment it is filling.  A cycle of waits is
  a hang with no message.
* `queue_put` is called with `fragment_mutex` held.

What makes images and packages hard:

* An append writes over the tables of the image it extends.  What makes it
  undoable is in memory (the saved tables) and in a file (the recovery file), and
  a signal, an error in any thread or a kill may come at every step.
* The same inode may be met under several names: by the sorted writing of files,
  by the scan, as a hard link inside the image, as an old file found to be a
  duplicate.  Its number, its reference and its data have to stay one.
* Inode numbers, references into compressed tables and offsets into directories
  are relative to blocks that are closed at their limits.
* unsquashfs makes hard links to files whose data another thread may yet fail to
  write.
* `opkg_install_pkg` and the resolution of dependencies call each other, around
  circles; marks on shared packages decide where the recursion stops; what a step
  did is undone by steps in reverse that may fail themselves.
* File ownership is kept in three places: in memory, in `.list` files, and by the
  claims of packages not yet recorded.

What makes each part correct: a queue is a FIFO that loses no wakeup; the output
has no overlap and can be read back; the pipeline delivers every block once, in
order, and files whole; no buffer leaks; the program ends.  An image holds
what it was asked to hold or what it held before, its tables agree with each
other, and extracting it gives what it holds.  A package is installed as a whole
or not at all, with what it needs; nobody's files are removed on behalf of another
package, and no edit of a user is lost.

## 2. Modules

| Module | Models | Composed with |
|---|---|---|
| `Fifo` | what a bounded queue promises | abstract specification |
| `BoundedQueue` | `queue_*`, step by step with waiting, signalling and stolen wakeups | implements `Fifo` |
| `BoundedQueueProofs` | type correctness, no wakeup lost, the ring is a FIFO | extends `BoundedQueue` |
| `MkOutput` | who puts what at which position of the destination | - |
| `MCMkOutput` | symmetry of the frag_deflators for TLC | extends `MkOutput` |
| `MkOutputProofs` | type correctness, no overlap, contiguous files, the count of fragments, an image that reads back | extends `MkOutput`, `ListLemmas` |
| `MkPipeline` | all threads with bounded caches and queues | its stream of buffers implements `Fifo` |
| `MCMkPipeline` | source trees in which some files are of a certain kind | extends `MkPipeline` |
| `MkPipelineProofs` | reader and main agree on files, exact buffer counts, room for whoever has the mutex, delivery in order | extends `MkPipeline`, `ListLemmas` |
| `ListLemmas` | lists without repetitions, how often an element occurs, totals of lists | lemmas the proof modules share |
| `BufferCache` | a buffer cache as a value: hash chains, use counts, free list | operators used by `MkCache` and `UnsqPipeline` |
| `BufferCacheProofs` | each cache operation keeps the hash chains and the free list, and what it does to the counts | extends `BufferCache`, `ListLemmas` |
| `MkCache` | what main finds in the caches when it looks for duplicates | extends `BufferCache` |
| `UnsqPipeline` | unsquashfs writing files: main, caches with pending blocks, reader, deflators, writer | extends `BufferCache` |
| `UnsqPipelineProofs` | one reader for each pending entry, no entry reused while held, kept files whole | extends `UnsqPipeline`, `BufferCacheProofs` |
| `MCMkCache` | symmetry of buffers and frag_deflators for TLC | extends `MkCache` |
| `MkCacheProofs` | the use counts of both caches are exact; main finds the blocks and fragments it looks for | extends `MkCache`, `BufferCacheProofs` |
| `SquashFormat` | the image: superblock, inode, directory, id, fragment, lookup and xattr tables, how they are built and read | operators |
| `SquashSource` | the scans: excludes, pseudo files, directories that clash, inode numbers, priorities | extends `SquashFormat` |
| `SquashWanted` | the view a reader has of an image, and the view a command asks for, said without scans or tables | extends `SquashSource` |
| `MkAppend` | a run of mksquashfs, step by step, on a new or an old image | extends `SquashWanted` |
| `MkRecover` | signals, errors, kills, the recovery file | extends `MkAppend` |
| `AtomicImage` | an image that changes all at once, or not | abstract specification |
| `Unsquash` | unsquashfs extracting the image | extends `MkRecover` |
| `Squash`, `MCSquash` | the composition, its properties, a small source tree | `AtomicImage` by refinement |
| `OpkgVersion` | the order of versions: the loops of `verrevcmp`, and the order they should compute | operators |
| `OpkgProofs` | `verrevcmp` computes that order for all strings; it is an order; the candidate taken is the last; the order of configuration; the resolution of dependencies; types | extends `Opkg`, `ListLemmas` |
| `OpkgDb` | packages known, file owners, what is loaded and printed, the best candidate | extends `OpkgVersion` |
| `OpkgDepends` | dependencies, conflicts, replacement, dependents, order of configuration | extends `OpkgDb` |
| `OpkgRemove` | the stack of calls; removal | extends `OpkgDepends` |
| `OpkgInstall` | installation, unwinding, point of no return | extends `OpkgRemove` |
| `Opkg`, `MCOpkg` | commands, the library's calls, the status file, signals, crashes | extends `OpkgInstall` |

**BoundedQueue.**  A call holds the queue's mutex except inside
`pthread_cond_wait`, so a step is one stretch of holding it: `Put` and `Get`
either complete and signal one sleeper, or go to sleep.  `thread[t]` is `run`
(not in a wait), `asleep`, or `woken` (runnable, has not looked at the condition
again).  A woken thread may find its item taken.  `SpuriousWakeup` is the wakeup
POSIX allows; it has no fairness, so nothing that must happen rests on it.
`data[s]` is a buffer; a `NULL` (flush) is one of `Values`.

**MkOutput.**  `bytes`, `fragment_table`, `fragments_locked`,
`frag_locked_list`, `fragments_outstanding`, `fragments` and `fragment_size` are the
program's globals.  `cur` is the local state of the `write_file_*` call in
progress, `files` what `add_non_dup` and `create_inode` recorded, `disk` which
owner each unit of the destination was last written for.  Critical sections of
`fragment_mutex` are single actions, except `unlock_fragments`, whose loop is
seen pass by pass (`EnterUnlock`, `UnlockOne`, `UnlockDone`) with the mutex held
(`MutexFree`).  `SettleFragment` and `AddPendingFragment` are two actions because
the code releases the mutex between them (line 2657).  A tail is one unit of a
fragment that holds `FragCapacity`; a sparse block takes no space and is left
out; queues are unbounded here, which allows more interleavings, not fewer.
`block_device` is chosen once: with it nothing is flushed or truncated.

**MkPipeline.**  A buffer is its sequence number and what main looks at
(`file_size`, `fragment`, `error`, whether it is sparse).  A cache is the number
of its buffers in use, since `cache_get` waits exactly when all of them are; a
queue is a sequence with the capacity given to `queue_init`.  `reader.held`
are the buffers the reader has and has not sent, `main` is the state of
`write_file` and of the call it is in.  Which files are duplicates, how long
files turn out to be and which reads fail is left open.  Sparse detection is on
(the default); a write never fails here (that is in MkOutput).  `Place` and
`Unlock` put buffers without a state "waiting for room": `MutexNeverWaits` and
`BuffersExact` show that `to_writer` has room whenever main has a buffer to put.

**BufferCache, MkCache.**  `BufferCache` has no state of its own: a cache is a
record, and `Lookup`, `Get`, `Rehash`, `Put` are the functions of
`mksquashfs.c:587-731`, each of which holds the cache's mutex throughout.  A
hash bucket is seen as the chains of the indices in it, newest first, because
`cache_lookup` returns the first buffer with the index.  In `MkCache`
`writer_buffer` and `fragment_buffer` are such caches, `data[b]` says which block
or fragment a writer buffer holds and for which position, and the threads do to
them what the code does: deflators get, frag_deflators get and hash, main rehashes
to the block's position, the writer writes and puts, and main, while it compares a
file with those on record (`Candidates`, by `file_size`, block list and tail
size), looks up blocks (`CompareBlock`) and fragments (`GetFragment`,
`GetFragmentBuffer`, `ReadFragment`, with a wait and other threads between them).
After `read_err` the held buffers are put back after `unlock_fragments`, as in the
code (`UnlockDone`); after a duplicate, before (`GiveBackHeld`).  Reader buffers,
and how full the queues are, are left to `MkPipeline`.

**UnsqPipeline.**  `cache` holds `data_cache` and `fragment_cache`, with the
operators of `BufferCache`: those of `unsquashfs.c:282-425` differ from
mksquashfs's in keeping every buffer and in growing before reusing
(`Gettable(c, FALSE)`).  `pending` and `error` are the entries with that flag,
`data[e]` says which block is in the entry and whether it is still compressed.
Main asks for the blocks of one file after the other (`WriteFile`, `CacheGet`,
`SparseBlock`, `PutBlock`); the reader and the deflators make them ready
(`Read`, `Uncompress`, either of which may fail); the writer takes files and
blocks from `to_writer` (`TakeItem`), waits for a block by a guard
(`cache_block_wait`), and writes it, fails to, or passes over it (`WriteBlock`).
`to_reader` and `to_deflate` are as long as both caches together in the code, and
here have no limit: `ReadOnce` shows that they never need one.  Files are made of
consecutive blocks with holes and a tail, and may share blocks.

**SquashFormat.**  An image file is a superblock and a sequence of units: a data
block, a fragment, a compressed metadata block, a list of positions.  A metadata
block has `Meta` places instead of 8192 bytes, and an inode, a directory header or
an entry takes one place, so that references `<<block, place>>`,
the closing of blocks, and tables that end with a block all happen.  `GetInode` and
`AddDir` keep the cache and the blocks as `get_inode` and `write_dir` do; `NewRun`
starts a directory header at the limits `RunMax` (256 entries) and `DeltaMax` (the
16 bits of an inode's distance) and where an index entry is due, a block's length
after the last one (`IndexFull`); a directory needs a large inode from `LdirAt` (257)
entries or a block's length of them on.  What the index entries hold is left out: of
these programs none reads them.  The xattr store is one sequence of cells with its two
duplicate tables; a value's number stands for its size, too.  Readers of the
image (`ReadInode`, `Listing`, `Contents`, `ReadTable`, `FileContent`) serve
read_fs, unsquashfs and the properties, each of which has its own entry in the
map.

**SquashSource.**  A source file system is a function from paths to files; names are
numbers in the order of `strcmp`.  `dir_scan1` with its clashing top-level names
(`scan1_encomp_readdir`), both kinds of excludes, the tree of pseudo definitions,
`dir_scan2`, the numbers of inodes and the priorities are functions.

**MkAppend, MkRecover.**  A step is a call of `main` or an entry of `dir_scan3`,
that is, what changes the image or what an interrupt has to undo.  `m` are the
tables in memory, `saved` what main saves before it appends, `disk` and `recs`
what a crash leaves: image and recovery files.  The blocks of directories are saved
in a step of their own (`SaveDirectories`), since the code does so only after an
interrupt may already restore (5223) and after the magic number was cleared (5228).  A file is handed to the
threads and written in one step here; `MkOutput` and `MkPipeline` take that step
apart.  `Interrupt`, `InterruptAgain`, `InterruptLost`, `InterruptHangs` are the
outcomes of a signal, `Error`, `ErrorExits`, `WorkerError` those of a failing call, depending on
whether the reader thread still runs; `Kill` is a kill or a crash.  Writes reach
the disk in order: the program never calls `fsync`, and what a machine that reorders
writes may do is left out.

**Unsquash.**  `dir_scan` is a stack of directories, the destination a file system
with hard links, owners, modes and what is in the way.  Regular files go to `queue`;
`WriterDone` and `WriterFailed` are the writer thread, between any two steps of
main.  An image is extracted only when no run is under way.

**Opkg\*.**  The recursion of the C functions is a stack of frames, with `ret` the
value returned last; every place where a signal may be taken or the machine may crash is
between two actions.  What may fail is: a script; the check for space; a download; unpacking control files, maintainer
scripts or any data file; making the backups; reading the list of files of a
package not yet installed, both where the failure is returned and where it is silent and
the list is just empty (`FilesIn`, `pkg.c:1105-1130`); and every part of saving:
opening the status file, writing it, opening a file list and writing it
(`SaveOpen`, `SaveWrite`, `SaveList`, `WriteFilelist`).  `write_status_files_if_changed`
drops what these return (`opkg_cmd.c:65-66`), so the command goes on and ends as if it had
saved; `hist.lost` remembers that records were read or written in part and nobody was told.
Opening an existing file list, removing files and directories, and reading the
status file and the feeds at the start do not fail in the model, and a feed names the
conffiles of its packages.  `content`,
`backup`, `list` and `stat` are on disk; `db` is the memory of the process.
`Commands` gives the command lines of each turn.  A crash while the status file
is written leaves a prefix of it (`Crash`).  The loops of `verrevcmp` are recursive functions over
its variables (`SkipText`, `SkipZeroes`, `SkipDigits`, `verrevcmp`), and the two C functions that recurse
without a change on disk are loops over what they have still to do (`Unsatisfied`, `InOrder`).

### Runs

| Run | Question | Bounds |
|---|---|---|
| `bounded_queue` | Is the ring a FIFO, is no wakeup lost, does everybody who can go on go on? | 3 producers, 3 consumers, size 2: more threads of each kind than slots, so that several sleep at one end while others steal |
| `mk_output` | Does the layout stay sound under every interleaving, truncation and write error? | 2 frag_deflators, 2 files of up to 2 blocks, 2 fragments, block sizes 1 and 2: two blocks of different sizes in flight at once, two fragments that can be on the list together, a drop after a kept file |
| `mk_output_drain` | Does main always stop waiting for the outstanding fragments? **No**, see Findings | 1 frag_deflator |
| `mk_pipeline` | Is the stream whole, ordered, and are all buffers accounted for? | 2 deflators (reordering), 2 reader buffers (the least with which a process can be read), 2 writer buffers, 2 fragment buffers, 3 files of up to 2 blocks, 1 restart; the first file is a tail, so that the fragments of two others may be on their way at once and the threshold of the duplicate check gets above 0 |
| `mk_pipeline_serial` | Does the program end when blocks cannot overtake and the writer cache has room for all that can be stuck? | 1 deflator, 2 reader buffers, 6 writer buffers, the least that is safe here (see Findings), 2 fragment buffers, 8 files: 7 of one block or less and one of 7 blocks; with 4 writer buffers 7 files hang and with 5 these 8 do |
| `mk_cache` | Does main find the right data, and are use counts and free lists exact? | 3 writer buffers (two held and one to be reused), 2 fragment buffers (one being filled, one to be reused), 1 frag_deflator, 3 files of up to 2 blocks of sizes 1 and 2, 2 fragments, 5 units of output: enough to drop a file and place blocks of other sizes over its positions while its buffers are hashed there |
| `mk_cache_fragment` | Is the table entry always set when `get_fragment` uses it? **No**, see Findings | 4 files of 1 block, 3 fragments: one placed, one pending, one being filled |
| `unsq_pipeline` | Are files whole, buffers safe while pending, and does main end? | 2 deflators, 2 data buffers for 3 blocks (so that buffers are reused), 1 fragment buffer, 2 files of up to 2 blocks and a tail, `to_writer` of 1 (so that it is at its limit) |
| `unsq_pipeline_hang` | Does it end when files are skipped? **No**, see Findings | 1 data buffer |
| `squash` | Does an image hold what was asked for, or what was there, and does extraction give what it holds? | up to 3 runs with 2 faults, then an extraction after at most 2 undisturbed runs; see below |
| `opkg` | Do records, files and dependencies agree whatever fails? | 2 commands, 1 fault, 9 packages, from 3 systems; see below |
| `mk_pipeline_stall` | Does it end with as few writer buffers as the options allow? **No**, see Findings | 2 deflators, 2 writer buffers |

`MCMkPipeline` says of which files the sources consist, so that TLC gets far: those of `Plain`
are read without errors, are not sparse and of no process, those of `Tails` are a tail, those
of `Short` have one block or less, those of `Long` have `MaxBlocks`.  In `mk_pipeline` the first file is
a plain tail and the others are anything; in `mk_pipeline_serial` the first three are short and may fail to be read, be
processes or sparse, four more are short and plain, and the last is long.

`squash`: two sources, one in which f has a second name h and a copy g, one with another f of the same content, an unreadable directory,
devices, a symbolic link, a socket, an empty file, shared and long xattrs.
`Meta = 4`, `RunMax = 2`, `DeltaMax = 3`, `LdirAt = 3` make every directory of the
tree cross a limit; `FragMax = 2` closes a fragment with two tails; `OolSize = 3`,
`InlineMax = 8`, `TargetMax = 12` put values out of line and make the halving of
the limit happen.  `MaxFaults = 2` is what an interrupt takes (two signals) and what a crash
during recovery takes; `MaxCommands = 3` lets an image be appended to that was itself
appended to, restored or recovered.  `MaxRead = 2` and `MaxBad = 1` keep extraction
apart from faults in mksquashfs: it sees only the image.  `Depth = 4` bounds paths,
`MaxSuffix = 2` the names tried for a clash.

`opkg`: a circle of two packages (A, E), an upgrade that drops a dependency,
two providers of a virtual package of which one replaces and conflicts with the
other, which is essential, a file two packages have, a recommended and an unsatisfiable dependency, an edited conffile.
Two commands are enough for what a command leaves behind to matter; with one
fault each place that can fail does, alone, each part of a save among them.  `compare-versions` is run on every pair of
strings of at most two of the signs `~`, `0`, `1`, `a`.

Deadlock checking is off where the modelled program really stops: `Squash` ends
with an extraction or its bound of runs; `MkOutput` ends
in `done` or `exited`, `MkPipeline` when the reader has exited and main has
finished, `UnsqPipeline` when main is done or waits for ever, and the bounds of `MkCache` end
its runs.  Hangs are looked for with liveness properties instead.  In
`BoundedQueue` it is on.

Bounds named in the modules: `MaxFiles`, `MaxBlocks`, `MaxFragments` and
`MaxChanges` (restarts of a changed file, unbounded in the code) limit what
arrives; they are conjuncts of the guards of `StartFile`, `PlaceBlock`,
`HasRoom`, `Open`, `ReadBlock`, `WriteFileFrag` and `Fill`, and of `WriteFile` in `UnsqPipeline`; `MaxBytes` bounds the
output in `MkCache` (guards of `PlaceBlock` and `PlaceFragment`); `MaxCommands`,
`MaxFaults`, `MaxRead` and `MaxBad` bound runs, faults and extractions as said above.  `MkCache`
assumes what the program relies on, an image smaller than `FRAG_INDEX` bytes.

### Fairness

Weak fairness per thread: `Put` of a producer, `Get` of a consumer; `Reader`,
`Writer`, each `Deflate(d)`, each `DeflateFragment(d)`; and `Main`; the same in `UnsqPipeline`.  The threads
are POSIX threads of a preemptive scheduler in loops without any other exit, and
a queue's mutex is held only for a few instructions.  Weak fairness of a whole
thread says no more than that a thread which can always run does run; it does not
choose which of its alternatives happens.  Main's weak fairness in `MkOutput`
says in addition that the scan of the source is finite.

`Squash` has weak fairness of `RunSteps` (main of mksquashfs), `ScanSteps` (main of
unsquashfs) and `Writer`: a process or thread that can run does.  Starting a
command, a signal, an error or a kill has none.  `Opkg` states weak fairness of its
next-state relation in the equivalent form without ENABLED: there is one process,
which does not stop by itself; faults are bounded.

### What each property says

* `NoLostItem`, `NoLostSlot`: while anybody sleeps at one end, every item (slot)
  there has a woken thread on its way.  This is why one signal per call is
  enough.  `HeadTaken`, `PutResumes` are what follows for progress.
* `ImplementsFifo`: the ring refines `Fifo`.
* `NoOverlap`, `Contiguous`: see section 3.
* `OutstandingExact`: `fragments_outstanding` counts every fragment that is
  queued, in a deflator or on the list.
* `ImageReadable`: if main reports success, every block and fragment on disk is
  where the inodes and the fragment table say, and nothing follows the end.
* `DeliversInOrder`: the buffers between reader and main, sorted by sequence
  number, refine `Fifo`; `FileWhole`: main and reader agree where a file ends,
  also through restarts.
* `BuffersExact`: the buffers in use in each cache are those somebody holds.
* `MutexNeverWaits`: no `queue_put` under `fragment_mutex` ever waits for room.
* `BlocksFound`: whichever block main looks up, of the current file or of one on
  record, it gets that block's data, although buffers of dropped files stay hashed
  under positions since given to other blocks.  What makes it true is that
  insertion is at the head of the bucket and that a block written over another is
  written before its own buffer can be reused.  `FragmentsFound` is the same for
  fragments, across the wait inside `get_fragment`.
* `UsedExact`: each use count is the number of places that hold the buffer, and
  the free list and hash chains agree with the counts.
* `EntrySetWhenRead`: `get_fragment` uses only entries that have been set.
* `ReadOnce`: a pending entry has exactly one thread that will make it ready, and a
  user until then, so it is never reused under the reader or a deflator.
  `HeldIsUsed`: an entry somebody waits for or will write is not on the free list.
* `KeptWhole`: a file that is not skipped has its own blocks, in order,
  uncompressed.  `EndsUnlessLost`: main ends, or skipped files have cost every
  buffer of a cache (`Lost`: used, and held by nobody); `Ends` says it always ends.
* `Completes`, `DrainEnds`: main gets to its end.
* `Atomic` (`Squash`): mksquashfs refines `AtomicImage`.  The view of the image is,
  after each run that ends, exactly the view the command asked for (with the old
  files, hard links, link counts, attributes and data), or exactly the one before; while
  it is torn after a kill, the recovery file holds the view before, and `-recover` puts it
  back.  The view asked for is defined in `SquashWanted` without inode tables, so
  duplicate detection, appending, inode numbering and the order of writing are all
  checked against it.
* `ImageSound`: in an image at rest, also a restored one, the inode numbers are 1 to n, the lookup table
  inverts them, entries agree with inodes, directories are in order, and `..` is right.
* `Extracted`: what unsquashfs leaves is what the view of the image says, each
  hard link included, whatever was in the way and whoever runs it; a file that failed costs the names of
  that inode only.
* `Ends`: a run of mksquashfs that is not killed ends, or hangs for one of the two
  known causes; unsquashfs ends with nothing queued.
* `RecordsAgree`, `RemovesOwn` (`Opkg`): file lists and files agree between commands; a
  file is only deleted on behalf of a package of the name that brought it.  Neither is claimed
  once records were read or written in part with no caller noticing (`hist.lost`, see
  Findings), nor after a crash; `RecordsAgree` not after a hosed upgrade or a library call that saved nothing.
* `OneVersion`: no two versions of a package are recorded as installed, ever.
* `UserEditsSurvive`: what a user wrote into a conffile is there or in its backup,
  after any failures, interrupts and crashes, but for the files whose backup a further attempt
  at a hosed or crashed upgrade has made again (`hist.again`, see Findings).
* `DependenciesHold`: after successful commands that read and wrote all their records
  everything installed has what it needs.  `CommandsEnd`: every command ends, whatever circle it goes round.
* `UnwindRestores`: an installation that fails before its point of no return leaves
  every file and backup as it found them.
* `VersionOrder`: `verrevcmp` is the order in which numbers compare as numbers and a tilde
  comes before the end.

## 3. Proofs

A theorem holds for every value of the constants that the assumptions named in the
modules allow: finite (disjoint) sets of threads, finite sets of buffers, sizes and
capacities that are positive numbers, bounds that are numbers, `NoEntry` not a
table entry, `NULL` not a buffer.  None bounds the number of threads, buffers, files or
blocks.

`BoundedQueueProofs`:

* `TypeCorrect`: `Spec => []TypeOK`.
* `NoWakeupLost`: `Spec => [](NoLostItem /\ NoLostSlot)`.  With `TypeOK` the
  two facts are inductive; the argument counts: a completed `Put` adds one item
  and turns one sleeping consumer, if there is one, into a woken one; a `Get`
  removes an item and at most one woken consumer (itself); a woken consumer goes
  back to sleep only on an empty ring.
* `QueueIsFifo`: `Spec => ImplementsFifo`.  The slots from `readp` to `writep`, read as a
  list, are the queue of `Fifo`; a completed `Put` appends to it, a `Get` takes its head, and
  every other step leaves it as it is.

`ListLemmas`: what appending to a list, taking its head and removing an element do
to the set of its elements, to the number of times an element occurs (`CountIn`), and to the
total of a list of sizes.  The last is a fold, so it needs an induction: the prover has none
to offer, but a set of naturals that is not empty has a least element
(`WellFoundedInduction`), and that is enough for a fixed sum (`InductionTo`).

`MkOutputProofs`:

* `TypeCorrect`: `Spec => []TypeOK`.
* `LayoutSound`: `Spec => [](NoOverlap /\ Contiguous)`.  Neither is inductive
  alone.  `IInv` adds: fragments are locked for as long as main places a file
  (`LockHeld`), so that nothing but main moves `bytes` meanwhile; positions never
  go below the superblock (`AboveBase`); a fragment that has data has a slot
  in the table (`SlotFree`).
* `OutstandingCounted`: `Spec => []OutstandingExact`.
* `ImageReads`: `Spec => []ImageReadable`.  `ReadInv` says where a block that an inode or a
  table entry refers to is on its way to the disk: it is there and nothing queued
  overwrites it, or it is queued and nothing behind it does (`AllSafe`); main holds the rest of
  the current file in order (`HeldBlocks`); the end of what is on disk and queued is
  `bytes`, or where the blocks main holds start, unless the file is about to be cut
  (`DiskEnds`); the flush is last in its queue and its answer tells of every error before it
  (`FlushState`); a fragment has its place or is still outstanding (`FragsKnown`).

`MkPipelineProofs`: four invariants, each proved with those before
it.  `ReaderInv`: what the reader holds of the file it reads.  `FlowInv`: each buffer under way
is in one place, and they are numbered from the one main wants to the last one sent,
so that a step takes the first number, adds the next, or changes nothing.  `FragInv`
and `MainChain`: where main is in the input, how each buffer under way follows the one
before it there, and who has the fragment buffers.  `CountInv`: each reader and writer buffer in
use is held by somebody, and what is queued for the writer is at most the rest.

* `FilesAgree`: `Spec => []FileWhole`.
* `BuffersCounted`: `Spec => []BuffersExact`; `PipelineTyped`: `Spec => []TypeOK`;
  `MutexFindsRoom`: `Spec => []MutexNeverWaits`, which follow from the counts.
* `PipelineDelivers`: `Spec => DeliversInOrder`, the refinement of `Fifo`: the
  buffers under way in the order of their numbers are its queue.

`BufferCacheProofs`: for each operation of the cache, that the hash chains and the free list
stay what `WellFormed` says, and what becomes of the use count and the index.

`MkCacheProofs`:

* `CachesTyped`: `Spec => []TypeOK`; `UsesCounted`: `Spec => []UsedExact`.
* `BlocksAreFound`: `Spec => []BlocksFound`; `FragmentsAreFound`: `Spec => []FragmentsFound`.

`UseInv` says that each writer buffer in use is in one place (queued, held by main, new,
waiting in the locked list, or with a frag_deflator) and that main may use it once more
while it fetches a fragment (`WriterUsed`), and the same of fragment buffers (`FragUsed`);
`MainShape` says where main can hold buffers at all.  `FoundInv` adds what a lookup by index
needs, in three parts:

* `PackInv` follows the fragments.  Each is in one stage only: waiting, with a frag_deflator, in
  `frag_locked_list` or in the table (`Staged`).  On its way it is hashed under its
  own index and no other buffer is (`FillHashed`, `FragHashed`, `FragData`), and what `get_fragment`
  found before it waits is still so when it goes on (`FetchIs`).
* `LayoutInv` says that what is on record or in the current file lies below `bytes`, that while main
  places a file nothing else gets a place (`fragments_locked`), and that the blocks main holds
  are hashed by their position and lie one after the other from where the file starts.
* `AllSafe` is the heart of it.  Of an extent e on record and the index i it is hashed by: if no buffer
  is hashed under i, e is on disk and nothing queued overwrites it (`Written`).  If the
  lookup gives b, b holds e and is held by main, queued with nothing behind it over e, or
  written (`Coming`); and every other buffer hashed under i, left by a file that was dropped, goes
  before b (`Before`): before it in the free list, so that b is not reused while
  the other one is still hashed there, or before it in the queue, or it is free when b is not.

That a stale buffer always goes first is what an invariant of the lookup alone does not say, and
what a file dropped and another put in its place could break: the block given back must be older in
the free list than the one that took its place.  It holds since the writer writes and puts back
buffers in the order of the queue, main truncates only when the queue is empty, a buffer
got from the free list is its first, and of two buffers hashed alike the later one is found first.

`UnsqPipelineProofs`:

* `ThreadsTyped`: `Spec => []TypeOK`; `ReadByOne`: `Spec => []ReadOnce`; `HeldInUse`:
  `Spec => []HeldIsUsed`; `FilesKeptWhole`: `Spec => []KeptWhole`.

One invariant gives all four, since they need each other: an entry is not reused because
it has users (`Holding` counts those of main, the queue and the writer; `Reading` says that a
pending entry has one), what is in it is the block it is hashed under because it was not reused
(`Filled`), and the block the writer takes from the queue is the next one of its file because the queue
holds each file followed by its blocks (`Stream`: from the point where the writer is, along
the queue, to the point where main is).  `FlushLast` and `FilesCounted` are about the end.

`OpkgProofs`:

* `OpkgVersionOrder`: `Spec => []VersionOrder`.  For all strings of `Strings` (`StringsAssumption`: of
  the characters of `Char`) `Compare` has the sign of `Reference`, the first difference between the lists of
  weights of the two strings.
* `VersionsAreOrdered`: `Compare` is antisymmetric and transitive for all versions.
* `LatestIsTheLast`: of a finite set of packages `Latest` is later than each other one, so the choice
  of a candidate is the same whatever the order of the feeds.
* `ConfiguresEach`: `InOrder(d)` (`opkg_recurse_pkgs_in_order`) ends for every database, and of every name
  that has a package unpacked or installed it lists exactly one.
* `ConfiguresInOrder`: where the packages that are there can be given depths that fall along what they
  need (`Deepens`: no circle), each is listed after one of the name of every provider taken for its needs.
* `UnsatisfiedServes`: `Unsatisfied(d, p)` (`pkg_hash_fetch_unsatisfied_dependencies`) ends for every
  database with every mark, lists each package once, and if nothing is lost, every dependency of each
  package it opened (`Opened`: those whose name had no mark yet) is met by what is present or by a package
  listed, but for recommendations and suggestions (`Served`).
* `OpkgTypes`: `Spec => [](TypeOK /\ OpkgTyped)`.

The assumptions on the constants are what parsing and the table of packages give: `PkgAssumption` (there
are finitely many packages, a version is what the parser makes of one, and of two records that compare equal
`pkg_vec_insert_merge` keeps one), `InfoAssumption` (a package's fields name names and files there are),
`DependsAssumption` and `CommandsAssumption` (dependencies, alternatives and arguments are lists, and systems
to start from are sets of packages), `FaultsAssumption` (the bound is a number).  TLC evaluates them for the
distribution it runs.

`OpkgTyped` is `TypeOK` made inductive: all fields of the database have their types, and so has every frame
of the stack.  What that needs beyond types is which lists are of packages and which of names
(`Listing`: `todo` holds names while `satisfy_dependencies_for` has not begun and while the orphans are
looked for, and packages while dependents, replaced packages or what is being unwound are gone through), that
a call of `opkg_install_pkg` keeps a package and its files under `p` and `left`, and that the list is not empty
when a package installed for a dependency is marked automatic.  The walk of the dependencies and the tour of
the packages return lists of packages because they end (`UnsatisfiedServes`, `ConfiguresEach`): a recursive
function that did not would have no value to type.

What a recursive function computes needs an induction.  The library's rules take an operator, so the
first part proves one that takes a set: if every state whose lower ones are in G is in G, all are
(`RankInduction`, from the least number of a set of naturals).  From it follows that a loop whose rank
falls has one solution (`LoopUnique`, `LoopTo`, `TailLoopExists`), and so that each loop of `verrevcmp`
is what its definition says (`SkipTextIs`, `SkipZeroesIs`, `SkipDigitsIs`, `verrevcmpIs`; the rank is
what is left of the strings).  `SameTextIs` is why the text loop, which tests one string *or* the other
and advances both, never moves a pointer past the NUL: a text character has never the order of a digit
or of the end.  The argument is one round of the outer loop (`RoundTells`): equal text gives equal weights
(`SkipTextReduces`), zeroes before a number do not count (`SkipZeroesKeeps`), and of two numbers the one
with more digits is the larger, else the first different digit decides (`SkipDigitsTells`); a round that
decides nothing leaves shorter strings that compare alike.

The tour and the walk end although dependencies may go round, since a name is entered once: the rank is
the length of what is to do plus, for each name not yet entered, more than the longest list of
dependencies (`Left`, `VisitEnds`; `Walking`, `LookEnds`).  `TourInv` says that the names visited are
those of the packages in the order and of those marked to go into it, each once; `NeedsInv` that what a
package in the order needs is before it, and that what is marked later is deeper.  `WalkInv` says that
each dependency of an opened package is still to be looked at or is served.

Only model-checked, and why:

* everything that must eventually happen (`HeadTaken`, `PutResumes`, `Completes`, `DrainEnds`,
  `EndsUnlessLost`, `Ends`, `CommandsEnd`): the prover has no rule for fairness;
* the other safety properties of opkg.  They hold of the distribution checked and not of every one, so
  that as theorems they would need hypotheses on the control files which nothing enforces: a package that
  needs, through others, an older version of itself is installed in two versions (`OneVersion`, and with it
  `RecordsAgree`); stale backups that a failed unwinding left are restored later, once there is a second
  fault (`UnwindRestores`); a file that is a conffile of one package only is overwritten by another that
  replaces it (`UserEditsSurvive`); an upgrade does not ask whether another package needs exactly the old version (`DependenciesHold`); and a call
  of the library that fails leaves the old claims in the file lists of what it overwrote (`RemovesOwn`);
* the image (`Squash`): it is built by folds over arbitrary trees and read back by others, so each
  property needs what the whole scan of any tree computes.

## 4. Findings

1. **A stranded fragment** (`mk_output_drain`, `mksquashfs.c:2656`).  A
   frag_deflator that finds the fragments locked releases `fragment_mutex` before
   `add_pending_fragment` takes it again.  If the last `unlock_fragments` (line
   5328) falls in between, nobody empties the list again, and main spins at line
   5330 for ever.  While files follow, the next `unlock_fragments` repairs it,
   which is why it is rarely seen.
2. **Writer buffers held out of turn** (`mk_pipeline_stall`,
   `mksquashfs.c:2603`).  A deflator takes a writer buffer when it gets to its
   block, not in the order of the blocks.  If the deflator of the wanted block is
   slow, the others can fill the writer cache with later blocks, which main keeps
   in `block_hash`; the wanted block then waits for a buffer for ever.  It needs a
   writer cache with fewer buffers than the image has blocks, since nothing bounds how
   many blocks pass a deflator that is stopped between `queue_get` and `cache_get`; with
   the default of 512 Mbytes a firmware, which is smaller, cannot hang so.
3. **A fragment entry used before it is set** (`mk_cache_fragment`,
   `mksquashfs.c:1756`).  A fragment on `frag_locked_list` has no table entry
   until `unlock_fragments`.  If its uncompressed buffer has been reused, as it may
   be once the frag_deflator has put it, `get_fragment` takes the compressed size
   from the unset entry.  `duplicate` calls `get_fragment` with fragments locked.
   TLC's shortest trace has the fragment stranded as in the first finding; it also
   happens to a fragment put on the list while the current file is being written
   when main compares with two files on record.
4. **Buffers of skipped files** (`unsq_pipeline_hang`, `unsquashfs.c:1683`).  The
   writer of unsquashfs passes over the blocks of a failed file without
   `cache_block_put`.  With as many such blocks as a cache has buffers, main waits
   in `cache_get` for ever, although the file is reported as skipped.  With the
   default queues it takes thousands of bad blocks, with `-data-queue 1` a few.

The models of the image and of opkg met more behaviour worth knowing.  It is part
of the models, which the properties hold of, and not checked as a violation:

mksquashfs
* A second interrupt is ignored once the reader thread has ended (`restorefs` finds
  it gone, 760 and 2513), although the first one said "Interrupt again to quit" (822); an error of main then exits and leaves the image torn, to be recovered with the recovery file.
* An error in a worker thread while appending hangs: it stops the threads, itself
  included, and main waits for it.  A signal that arrives while main holds the
  mutex of the progress bar hangs, too (746).
* When the old root directory ends exactly with a metadata block, its last block
  is not among what is saved: a restored image, and one made with `-root-becomes`,
  lacks it (`spoiled`; `read_fs.c:513`).
* The blocks of the old directory table are saved last (5238-5268), after `restore` is set, the
  handlers are installed and the magic number is cleared (5223-5228).  A failure of that write or of
  the allocation at 5260, or a second signal in this window, makes `restorefs` put back an empty
  table (791-794), and an image with more than one block of directories is written with a valid superblock and
  without all but the last (`Lacking`, `spoiled`).
* With one deflator, too, writer buffers can run out: main waits in `get_fragment`
  (1752) for a fragment and holds the blocks of a file that may be a duplicate, the queue from
  the deflators and the deflator hold more, each frag_deflator may have stranded a fragment in
  `frag_locked_list`, and the frag_deflator main waits for needs one.  Files of at most B blocks
  cannot come to that with B + `ReaderBuffers` + deflators + frag_deflators + 1 writer buffers, if there is one
  deflator.  `mk_pipeline_serial` has just as many for files of one block, before one long file, and
  TLC finds the hang in the same files with one buffer less, and with two.
* `read_recovery_data` writes the superblock before the tables: a crash in between
  leaves an image that looks whole and is not (`halfway`); recovering again repairs it.
* A crash after the new superblock and before the recovery file is removed leaves
  a recovery file that is refused, and a whole image.
* Appending to an image whose magic number was cleared is refused.
* When a name clashes, exclude patterns are matched against the suffixed name.
* A pseudo definition `m` changes every hard link of the file; one whose directory
  does not exist is ignored without a message.
* The output of a pseudo file's process that is exactly one block long is stored as
  a fragment of a full block without a block list (2345): the test of the size looks at
  the last read, which is always empty.  A reader expects one block in the list.  This
  length is the one case `write_file_process` of `MkAppend` leaves out.
* `restore_xattrs` leaves the duplicate tables as they are; nothing uses them after it.

unsquashfs
* A hard link made before the writer failed keeps a part of the data (883).
* Device numbers above 255 are cut; an inode of the long character device type is
  extracted as a block device (926).
* An image in which an empty directory lies at the end of the directory table cannot
  be opened (`unsquash-4.c:262`).
* With `-force` a file in the way of a directory is not an error, and what is below
  is lost.  An ordinary user loses what is in a directory without write permission.

opkg
* A package that replaces another and shares a file with it does not list that
  file.  An existing backup is overwritten when a hosed or crashed upgrade is tried again
  (696, `hist.again`).  Orphans removed on the way to an installation that then fails stay removed
  (1401).
* Of a circular pair whose second member clashes, the first stays installed.
  A circular dependency marks a package the user asked for as automatically installed (100-103).
* Files nobody owned are taken over before the check for clashes, so that the
  message about a file of no package (832) never appears.
* `<<` is satisfied by an equal version (`pkg_depends.c:386`).
* A save that fails is not noticed: `write_status_files_if_changed` drops what the functions
  it calls return (`opkg_cmd.c:65-66`), and they what `fclose` says of a file list.  The command ends with
  success and leaves the old status file, the first part of the new one, or a list that is old or cut;
  the next commands then remove files of other packages or miss what is needed.  Likewise the list
  of an archive whose temporary file cannot be made is empty (`pkg.c:1105-1119`), and the package is
  installed with its files in no list.
* A crash while the status file is written loses the records of other packages;
  calls of the library that fail save nothing.

## 5. Plan

Done: the thread core; the image from source to extraction with append, interrupt
and recovery; opkg with its library.  Next, in order of importance:

1. `PadJffs2`, `Hexof`, `Repack` and `opkg.sh`: algorithms against a reference
   definition.
2. The lock file of opkg with two processes (`opkg_conf.c:673-683` unlinks it while
   another process may be opening it), several destinations, downloads and feeds.
3. Formats 1 to 3 of unsquashfs.

## 6. Not modelled

* The compressors, digests, the parsers of control files, options and sort files;
  display; vendored libbb; formats 1 to 3 and byte swapping.  They are sequential data
  transformations or I/O, whose faults ordinary tests reach.
* mksquashfs: the bytes of metadata blocks and the padding at the end; a block device as
  the destination of an append (`MkOutput` has it for writing); lost or reordered
  disk writes.
* opkg: greedy dependencies, packages given as files or URLs, `noaction`,
  `download_only`, an offline root, forced downgrade and reinstallation, `noprune` and
  `prefer`, several destinations and architectures, the lock file, signatures, the
  commands that only list.  One call of the library for each process: marks that
  one call leaves would change the next, and are not explored.
* An allocation failure (`BAD_ERROR`) in the thread modules; in `MkRecover` it is one of
  the errors.
* `padjffs2`, `hexof`, `openwrt-repack.sh`, `opkg.sh`: in the plan.
