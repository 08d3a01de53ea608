------------------------------ MODULE MkAppend ------------------------------
(***************************************************************************)
(* One run of mksquashfs after another on one image file: creating it,     *)
(* appending to it, being interrupted, failing, being killed, and running  *)
(* with -recover.  Each step is a call of main that changes the image file *)
(* or the state that an interrupt has to undo; the order in which the      *)
(* threads write file data is the subject of MkOutput.                     *)
(***************************************************************************)
EXTENDS SquashWanted

CONSTANTS
  Commands,     \* the command lines tried, for each run in turn
  MaxCommands,  \* bound: runs of mksquashfs
  MaxFaults     \* bound: signals, failures and kills

VARIABLES
  disk,      \* the image file: [exists, super, data]
  recs,      \* the recovery files left in the current directory, by the run that made each
  pc,        \* where main is; "idle" when mksquashfs is not running
  cmd,       \* the command line
  m,         \* the tables in memory
  saved,     \* the state of the tables saved for restoring (sbytes, sdata_cache, ...)
  sBlk,      \* the superblock in memory
  tree,      \* the result of dir_scan1 and dir_scan2
  stack,     \* the calls of dir_scan3, the innermost last
  todo,      \* the files sort_files_and_write has still to write
  done,      \* inode->inode, of the files written
  flags,     \* [reader, restoring, interrupted]
  hist,      \* history: [before, asked], the view when the run began and the one asked for
  runs,      \* how many runs were started
  faults,    \* how many faults happened
  spoiled,   \* a known defect damaged the image (see Lacking)
  halfway    \* a kill left the metadata of a recovery half written

vars == <<disk, recs, pc, cmd, m, saved, sBlk, tree, stack, todo, done, flags, hist,
          runs, faults, spoiled, halfway>>
memory == <<cmd, m, saved, sBlk, tree, stack, todo, done>>

ASSUME BoundsAssumption == MaxCommands \in Nat /\ MaxFaults \in Nat

NoSuper ==
  [magic |-> FALSE, root |-> NotWritten, inodes |-> 0, time |-> 0, itab |-> NoTable,
   dtab |-> NoTable, ftab |-> NoTable, ltab |-> NoTable, idtab |-> NoTable,
   xtab |-> NoTable, used |-> 0, exportable |-> TRUE]
NoImage == [exists |-> FALSE, super |-> NoSuper, data |-> <<>>]
NoTree  == [ent |-> <<>>, attr |-> <<>>, number |-> <<>>, nlink |-> <<>>]
NoCmd   == [op |-> "none"]
NotSaved == [none |-> TRUE]
NoHist   == [before |-> <<>>, asked |-> <<>>]
Running == [reader |-> TRUE, restoring |-> FALSE, interrupted |-> 0]

Init ==
  /\ disk = NoImage /\ recs = <<>> /\ pc = "idle" /\ cmd = NoCmd
  /\ m = Empty /\ saved = NotSaved /\ sBlk = NoSuper /\ tree = NoTree
  /\ stack = <<>> /\ todo = <<>> /\ done = <<>> /\ flags = Running /\ hist = NoHist
  /\ runs = 0 /\ faults = 0 /\ spoiled = FALSE /\ halfway = FALSE

Exit ==
  /\ pc' = "idle" /\ cmd' = NoCmd /\ m' = Empty /\ saved' = NotSaved
  /\ sBlk' = NoSuper /\ tree' = NoTree /\ stack' = <<>> /\ todo' = <<>>
  /\ done' = <<>> /\ flags' = Running /\ hist' = NoHist

(* read_filesystem: the tables of the image appended to.  The block of the   *)
(* root inode, and the last block of the root directory, go to the caches.   *)
OldRoot(d) == ReadInode(InodeBlocks(d), d.super.root)
RootEnd(r) == r.data.offset + r.data.size - 3
RootBlocks(r) == (RootEnd(r) + Meta - 1) \div Meta
LastBlock(r) == IF RootBlocks(r) = 0 THEN r.data.start ELSE r.data.start + RootBlocks(r) - 1
RootCache(d, r) ==
  Flat(SubSeq(DirBlocks(d), r.data.start + 1, r.data.start + RootBlocks(r)))

read_fragment_table(d) == ReadTable(d, d.super.ftab)
read_inode_lookup_table(d) == ReadTable(d, d.super.ltab)
read_id_table(d) == ReadTable(d, d.super.idtab)
\* The store of extended attributes is made again from its lists.
get_xattrs(d) == FoldLeft(GenerateXattrs, NoXattrs, ReadXattrs(d))

\* scan_inode_table: the blocks, then every inode before the root; the regular
\* files are entered as candidates for duplicates.
RootBlock(d) == InodeBlocks(d)[d.super.root[1] + 1]
OldInodes(d) ==
  Flat(SubSeq(InodeBlocks(d), 1, d.super.root[1])) \o SubSeq(RootBlock(d), 1, d.super.root[2])
write_file_empty == [start |-> 0, blocks |-> 0, frag |-> NoFragment, offset |-> 0]
add_file(d, fs, i) ==
  [content |-> FileContent(d, fs, i.data), start |-> i.data.start, blocks |-> i.data.blocks,
   frag |-> i.data.frag, offset |-> i.data.offset]
OldFiles(d, fs) ==
  {add_file(d, fs, i) : i \in {j \in Range(OldInodes(d)) : j.kind = "reg" /\ j.data # write_file_empty}}

OldEntry(l) == [name |-> l.name, ref |-> l.ref, number |-> l.number, kind |-> l.kind]

ReadFilesystem(d, c, r) ==
  [Empty EXCEPT
     !.itab = SubSeq(InodeBlocks(d), 1, d.super.root[1]),
     !.icache = SubSeq(RootBlock(d), 1, d.super.root[2] + Cardinality(c.becomes)),
     !.dtab = SubSeq(DirBlocks(d), 1, IF c.becomes = {} THEN r.data.start ELSE LastBlock(r)),
     !.dcache = IF c.becomes = {} THEN SubSeq(RootCache(d, r), 1, r.data.offset)
                ELSE SubSeq(RootCache(d, r), (RootEnd(r) \div Meta) * Meta + 1, RootEnd(r)),
     !.frags = read_fragment_table(d), !.ids = read_id_table(d),
     !.xattrs = get_xattrs(d), !.lookup = read_inode_lookup_table(d),
     !.files = OldFiles(d, read_fragment_table(d)),
     !.old = IF c.becomes = {}
             THEN LET ls == Listing(DirBlocks(d), r) IN [k \in DOMAIN ls |-> OldEntry(ls[k])]
             ELSE [k \in 1 .. 1 |-> [name |-> CHOOSE n \in c.becomes : TRUE,
                     ref |-> d.super.root, number |-> r.number, kind |-> "dir"]],
     !.bytes = d.super.itab,
     !.count = Len(OldInodes(d)) + Cardinality(c.becomes),
     !.root = IF c.becomes = {} THEN r.number ELSE r.parent,
     !.dirno = d.super.inodes + 1 + Cardinality(c.becomes)]

\* What main saves before setjmp; of the directory table, it has no blocks yet.
save_xattrs(x) == [cells |-> Len(x.cells), ids |-> Len(x.ids)]
SaveState(d, r, x) ==
  [bytes |-> d.super.itab, itab |-> d.super.root[1],
   icache |-> RootBlock(d),
   dtab |-> <<>>,
   dcache |-> SubSeq(RootCache(d, r), (RootEnd(r) \div Meta) * Meta + 1, RootEnd(r)),
   frags |-> Len(read_fragment_table(d)), ids |-> Len(read_id_table(d)),
   xattrs |-> save_xattrs(x), count |-> d.super.inodes,
   full |-> RootEnd(r) > 0 /\ RootEnd(r) % Meta = 0]

\* read_super: an image that is whole, of this version and a known compressor.
read_super(d) == d.exists /\ d.super.magic

Started(c, before) ==
  /\ cmd' = c /\ runs' = runs + 1
  /\ hist' = [before |-> before, asked |-> Wanted(c, before)]
Creates(c) == c.noappend \/ ~disk.exists
PseudoGood(c) == \A f \in Range(c.pseudo) : ~BadPseudo(f)

\* main up to setjmp: -noappend, or no file there, starts an image.
Create ==
  /\ pc = "idle" /\ runs < MaxCommands
  /\ \E c \in Commands[runs + 1] :
       /\ Creates(c) /\ ~Ambiguous(c) /\ PseudoGood(c)
       /\ Started(c, <<>>)
       /\ disk' = [NoImage EXCEPT !.exists = TRUE]
       /\ pc' = "scan" /\ m' = Empty
       /\ sBlk' = [NoSuper EXCEPT !.exportable = c.exportable]
  /\ spoiled' = FALSE /\ halfway' = FALSE
  /\ UNCHANGED <<recs, saved, tree, stack, todo, done, flags, faults>>

\* An image that a known defect damaged is not appended to by the model's user.
AppendTo ==
  /\ pc = "idle" /\ runs < MaxCommands /\ read_super(disk)
  /\ ~halfway /\ ~spoiled
  /\ \E c \in Commands[runs + 1], r \in {OldRoot(disk)} :
       /\ ~Creates(c) /\ ~Ambiguous(c) /\ PseudoGood(c)
       /\ Started(c, View(disk))
       /\ \E old \in {ReadFilesystem(disk, c, r)} :
            m' = old /\ saved' = SaveState(disk, r, old.xattrs)
       /\ sBlk' = disk.super
       /\ pc' = "recovery"
  /\ UNCHANGED <<disk, recs, tree, stack, todo, done, flags, faults, spoiled, halfway>>

(* write_recovery_data, then the magic number of the image is cleared.       *)
RecoveryFile(whole) ==
  [super |-> sBlk, whole |-> whole, of |-> hist.before,
   units |-> SubSeq(disk.data, sBlk.itab, sBlk.used - 1)]
WriteRecoveryData ==
  /\ pc = "recovery" /\ pc' = "clear"
  /\ recs' = IF cmd.recover THEN (runs :> RecoveryFile(TRUE)) @@ recs ELSE recs
  /\ UNCHANGED <<disk, memory, flags, hist, runs, faults, spoiled, halfway>>
ClearMagic ==
  /\ pc = "clear" /\ pc' = "save"
  /\ disk' = [disk EXCEPT !.super.magic = FALSE]
  /\ UNCHANGED <<recs, memory, flags, hist, runs, faults, spoiled, halfway>>

\* sdirectory_bytes and sdirectory_compressed, which are set last.
OldDirectories == SubSeq(DirBlocks(disk), 1, LastBlock(OldRoot(disk)))
SaveDirectories ==
  /\ pc = "save" /\ pc' = "scan"
  /\ saved' = [saved EXCEPT !.dtab = OldDirectories]
  /\ UNCHANGED <<disk, recs, cmd, m, sBlk, tree, stack, todo, done, flags, hist, runs, faults,
                 spoiled, halfway>>

(* dir_scan: the scans; then sorted files; then dir_scan3, one entry a step.  *)
OldNames == {e.name : e \in Range(m.old)}
Frame(at, names) == [at |-> at, left |-> names, runs |-> <<>>]
Names(t, at, more) ==
  sort_directory({Last(p) : p \in {q \in DOMAIN t.ent : q # <<>> /\ Front(q) = at}} \cup more)

\* Numbers are final once all directories are counted.
Final(t) ==
  LET dirno == m.dirno + t.dirs - (IF m.root = 0 THEN 0 ELSE 1)
  IN [ent |-> t.ent, attr |-> t.attr, nlink |-> t.nlink,
      number |-> [id \in DOMAIN t.attr |->
        CASE id = t.ent[<<>>] /\ m.root # 0 -> m.root
          [] t.attr[id].kind = "dir" -> m.dirno + t.number[id]
          [] OTHER -> dirno + t.number[id]]]

Scan ==
  /\ pc = "scan" /\ pc' = "scan3"
  /\ \E t \in {Numbered(x) : x \in {Tree(cmd, nodes, OldNames) :
                                   nodes \in {Scan1(cmd, OldNames)}}} :
       /\ tree' = Final(t)
       /\ m' = [m EXCEPT !.dirno = @ + t.dirs - (IF m.root = 0 THEN 0 ELSE 1),
                         !.ino = t.others]
       /\ stack' = <<Frame(<<>>, Names(t, <<>>, OldNames))>>
       /\ todo' = SortedFiles(cmd, t)
  /\ UNCHANGED <<disk, recs, cmd, saved, sBlk, done, flags, hist, runs, faults, spoiled, halfway>>

\* write_file: an empty file has no data; what a process writes is stored as it
\* comes; a content known is not stored again.
IsProcess(id) == id < 0
NoData(c) == c.blocks \o c.tail = <<>>
write_file_process(id, c) == IsProcess(id) /\ ~NoData(c)
Stores(id, c) == write_file_process(id, c) \/ (~NoData(c) /\ Known(m, c) = {})
DataOf(id, c) ==
  IF NoData(c) THEN write_file_empty
  ELSE FileInode(IF Stores(id, c) THEN FreshData(m, c) ELSE CHOOSE f \in Known(m, c) : TRUE)

Make(id, n, parent, x) ==
  CreateInode(n, tree.attr[id], tree.number[id], tree.nlink[id], parent, 0, x)

WriteFile(id) ==
  LET c == tree.attr[id].data
  IN /\ m' = Make(id, IF Stores(id, c) THEN Stored(m, c) ELSE m, 0, DataOf(id, c))
     /\ disk' = IF Stores(id, c) THEN [disk EXCEPT !.data = Put(@, m.bytes, DataUnits(m, c))]
                ELSE disk
     /\ done' = (id :> LastRef(m')) @@ done

SortedFileOnce ==
  /\ pc = "scan3" /\ todo # <<>>
  /\ tree.ent[Head(todo)] \notin DOMAIN done
  /\ WriteFile(tree.ent[Head(todo)]) /\ todo' = Tail(todo)
  /\ UNCHANGED <<recs, pc, cmd, saved, sBlk, tree, stack, flags, hist, runs, faults, spoiled, halfway>>
SortedFile ==
  /\ pc = "scan3" /\ todo # <<>>
  /\ todo' = Tail(todo)
  /\ \E id \in {tree.ent[Head(todo)]} :
       IF id \in DOMAIN done THEN UNCHANGED <<disk, m, done>> ELSE WriteFile(id)
  /\ UNCHANGED <<recs, pc, cmd, saved, sBlk, tree, stack, flags, hist, runs, faults, spoiled, halfway>>

(* dir_scan3.  Top is the innermost call; Here the path of its next entry.    *)
Top == Last(stack)
Here == Append(Top.at, Head(Top.left))
AtEntry == pc = "scan3" /\ todo = <<>> /\ stack # <<>> /\ Last(stack).left # <<>>
IsOld == Len(Here) = 1 /\ Head(Top.left) \in OldNames

Add(frame, name, ref, number, kind) ==
  [frame EXCEPT !.left = Tail(@),
                !.runs = AddDir(@, [name |-> name, ref |-> ref, number |-> number, kind |-> kind])]
Added(ref) ==
  [stack EXCEPT ![Len(stack)] =
     Add(@, Head(@.left), ref, tree.number[tree.ent[Here]], tree.attr[tree.ent[Here]].kind)]

OldRootEntry ==
  /\ AtEntry /\ IsOld
  /\ \E e \in Range(m.old) :
       /\ e.name = Head(Top.left)
       /\ stack' = [stack EXCEPT ![Len(stack)] = Add(@, e.name, e.ref, e.number, e.kind)]
  /\ UNCHANGED <<disk, recs, pc, cmd, m, saved, sBlk, tree, todo, done, flags, hist, runs, faults,
                 spoiled, halfway>>

\* An inode written already, through another name.
LinkEntry ==
  /\ AtEntry /\ ~IsOld /\ tree.ent[Here] \in DOMAIN done
  /\ stack' = Added(done[tree.ent[Here]])
  /\ UNCHANGED <<disk, recs, pc, cmd, m, saved, sBlk, tree, todo, done, flags, hist, runs, faults,
                 spoiled, halfway>>

NewEntry(kinds) ==
  AtEntry /\ ~IsOld /\ tree.ent[Here] \notin DOMAIN done
  /\ tree.attr[tree.ent[Here]].kind \in kinds

FileEntry ==
  /\ NewEntry({"reg"})
  /\ WriteFile(tree.ent[Here])
  /\ stack' = Added(LastRef(m'))
  /\ UNCHANGED <<recs, pc, cmd, saved, sBlk, tree, todo, flags, hist, runs, faults, spoiled, halfway>>

OtherEntry ==
  /\ NewEntry({"sym", "chr", "blk", "fifo", "sock"})
  /\ \E id \in {tree.ent[Here]} :
       /\ m' = Make(id, m, 0, OtherData(tree.attr[id]))
       /\ done' = (id :> LastRef(m')) @@ done
       /\ stack' = Added(LastRef(m'))
  /\ UNCHANGED <<disk, recs, pc, cmd, saved, sBlk, tree, todo, flags, hist, runs, faults, spoiled, halfway>>

EnterDir ==
  /\ NewEntry({"dir"})
  /\ stack' = Append(stack, Frame(Here, Names(tree, Here, {})))
  /\ UNCHANGED <<disk, recs, pc, cmd, m, saved, sBlk, tree, todo, done, flags, hist, runs, faults,
                 spoiled, halfway>>

\* write_dir: the listing, then the inode of the directory.
SubDirs(at) ==
  Cardinality({q \in DOMAIN tree.ent : q # <<>> /\ Front(q) = at /\ tree.attr[tree.ent[q]].kind = "dir"})
  + (IF at = <<>> THEN Cardinality({e \in Range(m.old) : e.kind = "dir"}) ELSE 0)
Parent(at) == IF at = <<>> THEN m.dirno + m.ino ELSE tree.number[tree.ent[Front(at)]]
DirInode(at, items, count) ==
  CreateInode(WriteDir(m, items), tree.attr[tree.ent[at]], tree.number[tree.ent[at]],
              SubDirs(at) + 2, Parent(at), count, DirData(WriteDir(m, <<>>), items))

LeaveDir ==
  /\ pc = "scan3" /\ todo = <<>> /\ stack # <<>> /\ Top.left = <<>>
  /\ \E items \in {Items(Top.runs)}, id \in {tree.ent[Top.at]} :
       /\ m' = DirInode(Top.at, items, Len(items) - Len(Top.runs))
       /\ done' = (id :> LastRef(m')) @@ done
       /\ IF Len(stack) = 1
          THEN /\ stack' = <<>> /\ pc' = "fragment"
               /\ sBlk' = [sBlk EXCEPT !.magic = TRUE, !.root = LastRef(m'), !.inodes = m'.count,
                                       !.time = runs]
          ELSE /\ stack' = [Front(stack) EXCEPT ![Len(stack) - 1] =
                              Add(@, Last(Top.at), LastRef(m'), tree.number[id], "dir")]
               /\ UNCHANGED <<pc, sBlk>>
  /\ UNCHANGED <<disk, recs, cmd, saved, tree, todo, flags, hist, runs, faults, spoiled, halfway>>

(* From restore_filesystem: the last fragment and the tables, one write each. *)
Write(us, next, super) ==
  /\ pc' = next
  /\ disk' = [disk EXCEPT !.data = Put(@, m.bytes, us)]
  /\ sBlk' = super
  /\ UNCHANGED <<recs, cmd, saved, tree, stack, todo, done, flags, hist, runs, faults, spoiled, halfway>>
Past(us) == m.bytes + Len(us)

LastFragment ==
  /\ pc = "fragment"
  /\ Write(FragmentUnits(m), "inodes", sBlk)
  /\ m' = WriteFragment(m)
WriteInodes ==
  /\ pc = "inodes"
  /\ \E us \in {InodeUnits(m)} :
       /\ Write(us, "directories", [sBlk EXCEPT !.itab = m.bytes])
       /\ m' = [m EXCEPT !.itab = @ \o Chunks(m.icache), !.icache = <<>>, !.bytes = Past(us)]
WriteDirectories ==
  /\ pc = "directories"
  /\ \E us \in {DirUnits(m)} :
       /\ Write(us, "fragments", [sBlk EXCEPT !.dtab = m.bytes])
       /\ m' = [m EXCEPT !.dtab = @ \o Chunks(m.dcache), !.dcache = <<>>, !.bytes = Past(us)]
WriteFragmentTable ==
  /\ pc = "fragments"
  /\ \E us \in {Table("frags", m.frags, m.bytes)} :
       /\ Write(us, "lookup", [sBlk EXCEPT !.ftab = TableStart(m.frags, m.bytes)])
       /\ m' = [m EXCEPT !.bytes = Past(us)]

\* write_inode_lookup_table: with no inode added the table read is written again.
Lookup ==
  IF m.count = (IF saved = NotSaved THEN 0 ELSE saved.count) THEN m.lookup
  ELSE [n \in 1 .. m.count |->
          IF \E id \in DOMAIN done : tree.number[id] = n
          THEN done[CHOOSE id \in DOMAIN done : tree.number[id] = n]
          ELSE IF n \in DOMAIN m.lookup THEN m.lookup[n] ELSE NotWritten]
WriteLookupTable ==
  /\ pc = "lookup"
  /\ IF sBlk.exportable
     THEN \E t \in {Lookup} : \E us \in {Table("lookup", t, m.bytes)} :
            /\ Write(us, "ids", [sBlk EXCEPT !.ltab = TableStart(t, m.bytes)])
            /\ m' = [m EXCEPT !.lookup = t, !.bytes = Past(us)]
     ELSE Write(<<>>, "ids", [sBlk EXCEPT !.ltab = NoTable]) /\ m' = m
WriteIdTable ==
  /\ pc = "ids"
  /\ \E us \in {Table("ids", m.ids, m.bytes)} :
       /\ Write(us, "xattrs", [sBlk EXCEPT !.idtab = TableStart(m.ids, m.bytes)])
       /\ m' = [m EXCEPT !.bytes = Past(us)]
WriteXattrs ==
  /\ pc = "xattrs"
  /\ IF m.xattrs.ids = <<>>
     THEN Write(<<>>, "super", [sBlk EXCEPT !.used = m.bytes, !.xtab = NoTable]) /\ m' = m
     ELSE \E us \in {XattrUnits(m.xattrs, m.bytes)} :
            /\ Write(us, "super", [sBlk EXCEPT !.used = Past(us),
                                              !.xtab = XattrStart(m.xattrs, m.bytes)])
            /\ m' = [m EXCEPT !.bytes = Past(us)]

WriteSuper ==
  /\ pc = "super" /\ pc' = "unlink"
  /\ disk' = [disk EXCEPT !.super = sBlk]
  /\ spoiled' = (spoiled \/ (saved # NotSaved /\ saved.full /\ cmd.becomes # {}))
  /\ UNCHANGED <<recs, memory, flags, hist, runs, faults, halfway>>
UnlinkRecovery ==
  /\ pc = "unlink"
  /\ recs' = [r \in DOMAIN recs \ {runs} |-> recs[r]]
  /\ Exit /\ UNCHANGED <<disk, runs, faults, spoiled, halfway>>
=============================================================================
