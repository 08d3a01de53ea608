------------------------------ MODULE Unsquash ------------------------------
(***************************************************************************)
(* unsquashfs extracting an image that runs of mksquashfs left (MkRecover). *)
(* main walks the image (dir_scan, create_inode) and queues the regular     *)
(* files; the writer thread fills each, sets its attributes, or unlinks it  *)
(* when a block cannot be read or written.  The buffers in which blocks     *)
(* travel are the subject of UnsqPipeline.                                  *)
(***************************************************************************)
EXTENDS MkRecover

CONSTANTS
  Extractions,  \* command lines: [root, force, xattrs, paths, found], found being what is in the way
  UserXattr,    \* the names of extended attributes in the user name space
  Me,           \* <<uid, gid>> of a user who is not root
  MaxBad,       \* bound: files whose data cannot be written
  MaxRead       \* bound: an image is extracted after so many runs, none of them disturbed

VARIABLES
  xpc,     \* "off", "root", "scan", "drain"; "done" or "failed" at the end
  xcmd,    \* the command line
  xstack,  \* the calls of dir_scan, the innermost last
  out,     \* the destination: [names: path -> node, nodes: node -> file]
  created,    \* created_inode: inode number -> path
  queue,   \* to_writer, a file at a time
  bad      \* the inodes whose data could not be written

xvars == <<xpc, xcmd, xstack, out, created, queue, bad>>

NothingThere == [names |-> <<>>, nodes |-> <<>>]
XInit ==
  /\ xpc = "off" /\ xcmd = NoCmd /\ xstack = <<>> /\ out = NothingThere
  /\ created = <<>> /\ queue = <<>> /\ bad = {}

(* The files to extract: patterns, of which {<<>>} takes everything below.   *)
Selected(ps, name) ==
  IF <<>> \in ps THEN ps
  ELSE {Tail(p) : p \in {q \in ps : name \in q[1]}}
WholeSet(ps) == <<>> \in ps
Paths(c) == IF c.paths = <<>> THEN {<<>>} ELSE FoldLeft(AddPath, {}, c.paths)

(* What main reads before it extracts: the tables, and the inodes in them.   *)
inode_table == InodeBlocks(disk)
directory_table == DirBlocks(disk)
fragment_table == ReadTable(disk, disk.super.ftab)
id_table == ReadTable(disk, disk.super.idtab)
xattrs == IF xcmd.xattrs THEN ReadXattrs(disk) ELSE <<>>

Inode(ref) == ReadInode(inode_table, ref)
\* squashfs_opendir: a directory whose block is not in the table ends the program.
Opened(i, db) == i.data.start < Len(db)

\* read_block_list and read_fragment: the data of a regular file.
DataBlocks(i) == [k \in 1 .. i.data.blocks |-> disk.data[i.data.start + k - 1].v]
read_fragment(i) ==
  IF i.data.frag = NoFragment THEN <<>>
  ELSE The({<<disk.data[fs[i.data.frag + 1]].v[i.data.offset + 1]>> : fs \in {fragment_table}})

\* read_inode: short inodes have no extended attributes; the numbers of a device
\* keep eight bits each in create_inode.
Attrs(i) ==
  [kind  |-> i.kind, mode |-> i.mode,
   owner |-> The({<<ids[i.uid + 1], ids[i.gid + 1]>> : ids \in {id_table}}),
   xattr |-> IF i.long THEN i.xattr ELSE NoXattr,
   data  |-> CASE i.kind = "reg" -> [blocks |-> DataBlocks(i), tail |-> read_fragment(i)]
               [] i.kind = "dir" -> 0
               [] i.kind \in {"chr", "blk"} -> <<(i.data \div 256) % 256, i.data % 256>>
               [] OTHER -> i.data]

\* What is selected of a directory, in order.
ToExtract(db, i, ps) ==
  SelectSeq(Listing(db, i),
            LAMBDA l : \E qs \in {Selected(ps, l.name)} : qs # {} /\ (l.kind = "dir" \/ WholeSet(qs)))

\* read_super: an image that is whole, or nothing is extracted.
Readable == disk.exists /\ disk.super.magic

\* pre_scan opens every directory that dir_scan will.
PreScanned(c) ==
  \E db \in {DirBlocks(disk)}, ib \in {InodeBlocks(disk)} :
    \A e \in {x \in Entries(ib, db, disk.super, Depth) :
                x.kind = "dir" /\ FoldLeft(Selected, Paths(c), x.path) # {}} :
      Opened(ReadInode(ib, e.ref), db)

(* The destination.                                                          *)
File(path) == out.nodes[out.names[path]]
There(path) == path \in DOMAIN out.names
IsDir(path) == There(path) /\ File(path).kind = "dir"
\* A user who is not root needs leave to write in the directory.
Digit(mode) == ((IF mode < 0 THEN -mode ELSE mode) \div 100) % 10
MayMakeIn(path) == IsDir(path) /\ (xcmd.root \/ Digit(File(path).mode) \in {3, 7})
MayMake(path) == path = <<>> \/ MayMakeIn(Front(path))

Linked_(o, path, id) == [o EXCEPT !.names = (path :> id) @@ @]
Placed(o, path, id, f) == [names |-> (path :> id) @@ o.names, nodes |-> (id :> f) @@ o.nodes]
Unlinked(o, path) == [o EXCEPT !.names = [p \in DOMAIN @ \ {path} |-> @[p]]]
\* With -force, what is there goes first; a directory stays.
Cleared(path) ==
  IF xcmd.force /\ There(path) /\ ~IsDir(path) THEN Unlinked(out, path) ELSE out
Makes(path) == MayMake(path) /\ path \notin DOMAIN Cleared(path).names

\* mode & ~umask, for a user who is not root, is written -mode (the umask, 022
\* for one, leaves the bits of the owner).
Umasked(mode) == IF xcmd.root THEN mode ELSE -mode
Owner(o) == IF xcmd.root THEN o ELSE Me
\* write_xattr: all of the list of an id, or those of the user name space.
WriteXattr(id) ==
  IF id = NoXattr THEN {}
  ELSE The({IF l = <<>> THEN {}
            ELSE {x \in Range(l[id + 1]) : xcmd.root \/ x[1] \in UserXattr} : l \in {xattrs}})
NewFile(kind, mode, data) ==
  [kind |-> kind, mode |-> mode, owner |-> Owner(<<0, 0>>), xattr |-> {}, data |-> data]

\* set_attributes; set_mode is force for a directory or a regular file.
SetAttributes(f, a, set_mode) ==
  LET mode == IF xcmd.root THEN a.mode ELSE a.mode % 1000
  IN [f EXCEPT !.xattr = @ \cup WriteXattr(a.xattr), !.owner = Owner(a.owner),
               !.mode = IF set_mode \/ mode >= 1000 THEN mode ELSE @]

(* dir_scan.                                                                 *)
\* mkdir, and then the entries; where it fails the directory is left out.
CanMkdir(path) == IF There(path) THEN xcmd.force ELSE MayMake(path)
Enter(path, i, ps) ==
  LET a == Attrs(i)
  IN IF CanMkdir(path)
     THEN /\ out' = IF There(path) THEN out
                    ELSE Placed(out, path, i.number, NewFile("dir", Umasked(a.mode), 0))
          /\ \E db \in {DirBlocks(disk)} :
               xstack' = Append(IF xstack = <<>> THEN <<>>
                                ELSE [xstack EXCEPT ![Len(xstack)].left = Tail(@)],
                                [at |-> path, inode |-> i, ps |-> ps, left |-> ToExtract(db, i, ps)])
     ELSE /\ out' = out
          /\ xstack' = IF xstack = <<>> THEN <<>>
                       ELSE [xstack EXCEPT ![Len(xstack)].left = Tail(@)]

Extract ==
  /\ xpc = "off" /\ pc = "idle" /\ runs <= MaxRead /\ faults = 0 /\ ~spoiled /\ ~halfway
  /\ \E c \in Extractions :
       /\ xcmd' = c /\ out' = c.found
       /\ xpc' = IF Readable /\ PreScanned(c) THEN "root" ELSE "failed"
  /\ UNCHANGED <<xstack, created, queue, bad>>

ExtractRoot ==
  /\ xpc = "root"
  /\ \E i \in {Inode(disk.super.root)} : Enter(<<>>, i, Paths(xcmd))
  /\ xpc' = IF xstack' = <<>> THEN "drain" ELSE "scan"
  /\ UNCHANGED <<xcmd, created, queue, bad>>

XTop == Last(xstack)
XPath == Append(XTop.at, Head(XTop.left).name)
XEntry(kinds) == xpc = "scan" /\ Last(xstack).left # <<>> /\ Head(XTop.left).kind \in kinds
Passed == xstack' = [xstack EXCEPT ![Len(xstack)].left = Tail(@)]
AnyFile == {"reg", "sym", "chr", "blk", "fifo", "sock"}

ExtractDir ==
  /\ XEntry({"dir"})
  /\ \E i \in {Inode(Head(XTop.left).ref)} :
       Enter(XPath, i, Selected(XTop.ps, Head(XTop.left).name))
  /\ UNCHANGED <<xpc, xcmd, created, queue, bad>>

\* create_inode, of an inode that has a name already: a hard link.
ExtractLink ==
  /\ XEntry(AnyFile) /\ Passed
  /\ \E i \in {Inode(Head(XTop.left).ref)} :
       /\ i.number \in DOMAIN created
       /\ LET from == created[i.number]
          IN out' = IF Makes(XPath) /\ There(from) /\ ~IsDir(from)
                    THEN Linked_(Cleared(XPath), XPath, out.names[from]) ELSE Cleared(XPath)
  /\ UNCHANGED <<xpc, xcmd, created, queue, bad>>

New(kinds) == XEntry(kinds) /\ Inode(Head(XTop.left).ref).number \notin DOMAIN created

\* write_file: a file that is there is truncated, not unlinked.
CanOpen(path) == IF There(path) THEN ~IsDir(path) ELSE MayMake(path)
Partial == [blocks |-> <<-1>>, tail |-> <<>>]
ExtractFile ==
  /\ New({"reg"}) /\ Passed
  /\ \E i \in {Inode(Head(XTop.left).ref)}, a \in {Attrs(Inode(Head(XTop.left).ref))} :
       /\ created' = (i.number :> XPath) @@ created
       /\ IF CanOpen(XPath)
          THEN /\ queue' = Append(queue, [path |-> XPath, number |-> i.number, attr |-> a])
               /\ out' = IF There(XPath)
                         THEN [out EXCEPT !.nodes[out.names[XPath]].data = Partial]
                         ELSE Placed(out, XPath, i.number,
                                     NewFile("reg", Umasked(a.mode % 1000), Partial))
          ELSE UNCHANGED <<queue, out>>
  /\ UNCHANGED <<xpc, xcmd, bad>>

\* The type of a device with extended attributes is not SQUASHFS_CHRDEV_TYPE.
MadeKind(kind, long) == IF kind = "chr" /\ long THEN "blk" ELSE kind
Other(a) ==
  CASE a.kind = "sym" -> [NewFile("sym", 777, a.data) EXCEPT !.xattr = WriteXattr(a.xattr),
                                                              !.owner = Owner(a.owner)]
    [] a.kind = "fifo" -> SetAttributes(NewFile("fifo", 0, 0), a, TRUE)
    [] OTHER -> SetAttributes(NewFile(MadeKind(a.kind, a.xattr # NoXattr), 0, a.data), a, TRUE)

ExtractOther ==
  /\ New({"sym", "chr", "blk", "fifo", "sock"}) /\ Passed
  /\ \E i \in {Inode(Head(XTop.left).ref)}, a \in {Attrs(Inode(Head(XTop.left).ref))} :
       /\ created' = (i.number :> XPath) @@ created
       /\ out' = IF i.kind = "sock" \/ (i.kind \in {"chr", "blk"} /\ ~xcmd.root) THEN out
                 ELSE IF Makes(XPath) THEN Placed(Cleared(XPath), XPath, i.number, Other(a))
                 ELSE Cleared(XPath)
  /\ UNCHANGED <<xpc, xcmd, queue, bad>>

ExtractLeave ==
  /\ xpc = "scan" /\ Last(xstack).left = <<>>
  /\ out' = [out EXCEPT !.nodes[out.names[XTop.at]] =
                           SetAttributes(@, Attrs(XTop.inode), xcmd.force)]
  /\ xstack' = Front(xstack)
  /\ xpc' = IF Len(xstack) = 1 THEN "drain" ELSE xpc
  /\ UNCHANGED <<xcmd, created, queue, bad>>

(* writer.                                                                   *)
Written == LET f == Head(queue) IN
  [out EXCEPT !.nodes[out.names[f.path]] =
     SetAttributes([@ EXCEPT !.data = f.attr.data], f.attr, xcmd.force)]
WriterDone ==
  /\ queue # <<>> /\ queue' = Tail(queue)
  /\ out' = Written
  /\ UNCHANGED <<xpc, xcmd, xstack, created, bad>>
WriterSkips ==
  /\ queue # <<>> /\ queue' = Tail(queue) /\ Cardinality(bad) < MaxBad
  /\ Head(queue).attr.data # [blocks |-> <<>>, tail |-> <<>>]
  /\ bad' = bad \cup {Head(queue).number}
  /\ UNCHANGED <<xpc, xcmd, xstack, out, created>>
WriterFailed ==
  /\ queue # <<>> /\ queue' = Tail(queue) /\ Cardinality(bad) < MaxBad
  /\ Head(queue).attr.data # [blocks |-> <<>>, tail |-> <<>>]
  /\ out' = Unlinked(out, Head(queue).path)
  /\ bad' = bad \cup {Head(queue).number}
  /\ UNCHANGED <<xpc, xcmd, xstack, created>>

ExtractEnd ==
  /\ xpc = "drain" /\ queue = <<>> /\ xpc' = "done"
  /\ UNCHANGED <<xcmd, xstack, out, created, queue, bad>>

ScanSteps ==
  ExtractRoot \/ ExtractDir \/ ExtractLink \/ ExtractFile \/ ExtractOther \/ ExtractLeave \/ ExtractEnd
Writer == WriterDone \/ WriterFailed
=============================================================================
