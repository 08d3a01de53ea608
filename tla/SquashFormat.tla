---------------------------- MODULE SquashFormat ----------------------------
(***************************************************************************)
(* The Squashfs 4.0 image as mksquashfs builds it in memory, writes it, and *)
(* reads it back (read_fs.c), and as unsquashfs reads it (unsquash-4.c).    *)
(*                                                                         *)
(* The image file is a superblock and a sequence of units, one for each     *)
(* data block, fragment, compressed metadata block or list of positions.    *)
(* A metadata block has Meta places; an inode, a directory header, a        *)
(* directory entry and an entry of a table take one place each.  An inode   *)
(* is referred to by <<block of the inode table, place in it>>.             *)
(***************************************************************************)
EXTENDS Integers, Sequences, FiniteSets, SequencesExt, TLC

CONSTANTS
  Meta,      \* places in a metadata block (8192 bytes)
  RunMax,    \* directory entries under one header (256)
  DeltaMax,  \* inode numbers under one header differ from its own by less (32768)
  LdirAt,    \* entries that make a directory long (257)
  FragMax,   \* tails of files in one fragment block
  OolSize,   \* size from which the value of an extended attribute may be shared (8 bytes)
  InlineMax, \* largest value stored with its name (128)
  TargetMax  \* size to which a list of attributes should be brought (65536)

ASSUME FormatAssumption ==
  /\ Meta \in Nat \ {0} /\ RunMax \in Nat \ {0}
  /\ DeltaMax \in Nat \ {0} /\ FragMax \in Nat \ {0}
  /\ OolSize \in Nat \ {0} /\ InlineMax \in Nat /\ OolSize <= InlineMax /\ TargetMax \in Nat

NoTable == 0           \* SQUASHFS_INVALID_BLK
NoXattr == -1          \* SQUASHFS_INVALID_XATTR
NoFragment == -1       \* SQUASHFS_INVALID_FRAG
NotWritten == <<-1, -1>>

\* The({F(x) : x \in {e}}) is F(e), with e evaluated once.
The(S) == CHOOSE x \in S : TRUE

Unit(kind, v) == [kind |-> kind, v |-> v]

Chunks(s) ==
  [i \in 1 .. (Len(s) + Meta - 1) \div Meta |->
     SubSeq(s, (i - 1) * Meta + 1, IF i * Meta < Len(s) THEN i * Meta ELSE Len(s))]

\* write_destination: units written at a position, over what is there.
Put(data, at, us) ==
  [i \in 1 .. (IF at + Len(us) - 1 > Len(data) THEN at + Len(us) - 1 ELSE Len(data)) |->
     IF at <= i /\ i < at + Len(us) THEN us[i - at + 1] ELSE data[i]]

(* Extended attributes.  A file's are a set of <<name, value>>, a value being *)
(* a number that stands for its size as well.  The store is a sequence of    *)
(* cells, an entry or a value out of line each; ids says where the list of   *)
(* each file begins; lists and vals find lists and values stored already.    *)
NoXattrs == [cells |-> <<>>, ids |-> <<>>, lists |-> <<>>, vals |-> <<>>]

\* read_xattrs_from_system: the list in the order of the names.
XattrList(xs) ==
  [i \in 1 .. Cardinality(xs) |-> CHOOSE x \in xs : Cardinality({y \in xs : y[1] < x[1]}) = i - 1]

\* get_xattr_size, of a list in which the values above limit are out of line.
ListSize(l, limit) ==
  FoldLeft(LAMBDA n, x : n + 1 + (IF x[2] > limit THEN OolSize ELSE x[2]), 0, l)
\* The limit is halved until the list is small enough.
InlineLimit(l) ==
  LET limit[n \in 0 .. InlineMax] ==
        IF ListSize(l, n) <= TargetMax \/ n = OolSize THEN n
        ELSE limit[IF n \div 2 < OolSize THEN OolSize ELSE n \div 2]
  IN limit[InlineMax]

\* check_value_dupl: a value of the store, or of an earlier attribute of the list.
Shared(x, l, i) ==
  l[i][2] >= OolSize /\ (l[i][2] \in DOMAIN x.vals \/ \E j \in 1 .. i - 1 : l[j][2] = l[i][2])

\* get_xattr_space: the cells of a list go behind those that are there.
GetXattrSpace(x, cs) == [x EXCEPT !.cells = @ \o cs]
\* get_xattr_id: a list gets an entry in the table of ids.
GetXattrId(x, l, at) ==
  [x EXCEPT !.ids = Append(@, [at |-> at, count |-> Len(l)]), !.lists = Append(@, l)]

\* generate_xattrs, of a list that is not in the store: the values to put out of
\* line first, then the entries.
AddList(x, l) ==
  LET limit == InlineLimit(l)
      ool(i) == l[i][2] > limit \/ Shared(x, l, i)
      own == SelectSeq([i \in DOMAIN l |-> i], LAMBDA i : ool(i) /\ l[i][2] \notin DOMAIN x.vals)
      at  == Len(x.cells) + Len(own)
      ref(i) == IF ~ool(i) THEN at + i
                ELSE IF l[i][2] \in DOMAIN x.vals THEN x.vals[l[i][2]]
                ELSE Len(x.cells) + (CHOOSE k \in DOMAIN own : own[k] = i)
      first(v) == CHOOSE i \in DOMAIN l : l[i][2] = v /\ \A j \in 1 .. i - 1 : l[j][2] # v
      values  == [k \in DOMAIN own |-> [name |-> 0, ool |-> FALSE, v |-> l[own[k]][2]]]
      entries == [i \in DOMAIN l |-> [name |-> l[i][1], ool |-> ool(i),
                                      v |-> IF ool(i) THEN ref(i) ELSE l[i][2]]]
  IN [GetXattrId(GetXattrSpace(x, values \o entries), l, at + 1) EXCEPT
        !.vals = @ @@ [v \in {w \in {l[i][2] : i \in DOMAIN l} : w >= OolSize} |-> ref(first(v))]]

\* check_id_dupl: a list is stored once.
GenerateXattrs(x, l) == IF l = <<>> \/ l \in Range(x.lists) THEN x ELSE AddList(x, l)

\* get_xattr: the list of an id, its values wherever they are.
GetXattr(cells, id) ==
  [k \in 1 .. id.count |->
     LET c == cells[id.at + k - 1] IN <<c.name, IF c.ool THEN cells[c.v].v ELSE c.v>>]

(* What main holds while it builds an image.                                 *)
Empty ==
  [itab |-> <<>>, icache |-> <<>>, dtab |-> <<>>, dcache |-> <<>>, frags |-> <<>>,
   pend |-> <<>>, ids |-> <<>>, xattrs |-> NoXattrs, lookup |-> <<>>, files |-> {},
   old |-> <<>>, bytes |-> 1, count |-> 0, root |-> 0, dirno |-> 1, ino |-> 0]

\* get_inode: a full block of the cache goes to the table before a place is given.
GetInodeUnbounded(m) == m
GetInode(m) ==
  IF Len(m.icache) < Meta THEN m
  ELSE [m EXCEPT !.itab = Append(@, SubSeq(m.icache, 1, Meta)),
                 !.icache = SubSeq(@, Meta + 1, Len(@))]
LastRef(m) == <<Len(m.itab), Len(m.icache) - 1>>

\* get_uid, get_guid: an identifier is entered in the table once.
Entered(s, v) == IF v \in Range(s) THEN s ELSE Append(s, v)
IndexOf(s, v) == (CHOOSE i \in DOMAIN s : s[i] = v) - 1

IsLong(i) ==
  \/ i.xattr # NoXattr
  \/ i.kind = "reg" /\ i.nlink > 1
  \/ i.kind = "dir" /\ (i.entries >= LdirAt \/ i.entries >= Meta)

\* create_inode: attr is that of the file, x what is particular to its kind.
CreateInode(m, attr, number, nlink, parent, entries, x) ==
  LET ids == Entered(Entered(m.ids, attr.owner[1]), attr.owner[2])
      l   == XattrList(attr.xattr)
      xs  == GenerateXattrs(m.xattrs, l)
      i   == [kind |-> attr.kind, mode |-> attr.mode, number |-> number, nlink |-> nlink,
              uid |-> IndexOf(ids, attr.owner[1]), gid |-> IndexOf(ids, attr.owner[2]),
              xattr |-> IF l = <<>> THEN NoXattr ELSE IndexOf(xs.lists, l),
              parent |-> parent, entries |-> entries, data |-> x]
  IN [GetInode(m) EXCEPT
        !.ids = ids, !.xattrs = xs, !.count = @ + 1,
        !.icache = Append(@, [i EXCEPT !.entries = 0] @@ [long |-> IsLong(i)])]

\* A device is <<major, minor>>; its number has 12 and 20 bits of them.
DeviceNumber(dev) ==
  (dev[1] % 4096) * 256 + (dev[2] % 256) + ((dev[2] % 1048576) \div 256) * 1048576
Device(number) == <<(number \div 256) % 4096, (number % 256) + (number \div 1048576) * 256>>

\* What the inode of a file that is neither regular nor a directory holds.
OtherData(attr) == IF attr.kind \in {"chr", "blk"} THEN DeviceNumber(attr.data) ELSE attr.data

(* Directories.  One under construction is a sequence of runs, a header each. *)
Header(r) == [start |-> r.start, number |-> r.number, count |-> Len(r.ents) - 1]
Items(runs) == FlattenSeq([k \in DOMAIN runs |-> <<Header(runs[k])>> \o runs[k].ents])

\* One more entry would end beyond a block's length from the last index entry,
\* of the run that has one (index_count_p), or from the start.
IndexFull(runs) ==
  LET marked == {k \in DOMAIN runs : runs[k].index}
      from   == IF marked = {} THEN 1 ELSE CHOOSE k \in marked : \A j \in marked : j <= k
  IN Len(Items(SubSeq(runs, from, Len(runs)))) + 1 > Meta

NewRunOffByOne(runs, e) ==
  \/ runs = <<>>
  \/ \E r \in {Last(runs)} :
       \/ Len(r.ents) = RunMax \/ e.ref[1] # r.start \/ IndexFull(runs)
       \/ e.number - r.number > DeltaMax \/ e.number - r.number < -DeltaMax
NewRun(runs, e) ==
  \/ runs = <<>>
  \/ \E r \in {Last(runs)} :
       \/ Len(r.ents) = RunMax
       \/ e.ref[1] # r.start
       \/ IndexFull(runs)
       \/ e.number - r.number >= DeltaMax
       \/ e.number - r.number < -DeltaMax

\* The difference is kept in a short.
Short(n) == ((n + DeltaMax) % (2 * DeltaMax)) - DeltaMax

AddDir(runs, e) ==
  LET rs == IF NewRun(runs, e)
            THEN Append(runs, [start |-> e.ref[1], number |-> e.number, ents |-> <<>>,
                               index |-> IndexFull(runs)])
            ELSE runs
  IN [rs EXCEPT ![Len(rs)].ents =
        Append(@, [name |-> e.name, offset |-> e.ref[2], kind |-> e.kind,
                   delta |-> Short(e.number - Last(rs).number)])]

\* write_dir, up to the inode: the listing goes to the cache, full blocks to the table.
WriteDir(m, items) ==
  LET c == m.dcache \o items
      k == (Len(c) \div Meta) * Meta
  IN [m EXCEPT !.dtab = @ \o Chunks(SubSeq(c, 1, k)), !.dcache = SubSeq(c, k + 1, Len(c))]
DirData(m, items) ==
  [start |-> Len(m.dtab), offset |-> Len(m.dcache), size |-> Len(items) + 3]

(* File data.  A content is whole blocks and a tail, which goes to a fragment. *)
WriteFragment(m) ==
  IF m.pend = <<>> THEN m
  ELSE [m EXCEPT !.frags = Append(@, m.bytes), !.bytes = @ + 1, !.pend = <<>>]
FragmentUnits(m) == IF m.pend = <<>> THEN <<>> ELSE <<Unit("frag", m.pend)>>

Known(m, content) == {f \in m.files : f.content = content}
FileInode(f) == [start |-> f.start, blocks |-> f.blocks, frag |-> f.frag, offset |-> f.offset]

\* get_and_fill_fragment: a full fragment is written before a tail is added to it.
Full(m, c) == c.tail # <<>> /\ Len(m.pend) = FragMax
Room(m, c) == IF Full(m, c) THEN WriteFragment(m) ELSE m

\* The file is stored: its blocks at bytes, its tail with the other tails.
BlockUnits(c) == [k \in DOMAIN c.blocks |-> Unit("data", c.blocks[k])]
DataUnits(m, c) == BlockUnits(c) \o (IF Full(m, c) THEN FragmentUnits(m) ELSE <<>>)
FreshData(m, c) ==
  LET r == Room(m, c)
  IN [content |-> c, start |-> m.bytes, blocks |-> Len(c.blocks),
      frag   |-> IF c.tail = <<>> THEN NoFragment ELSE Len(r.frags),
      offset |-> IF c.tail = <<>> THEN 0 ELSE Len(r.pend)]
Stored(m, c) ==
  [Room([m EXCEPT !.bytes = @ + Len(c.blocks)], c) EXCEPT
     !.pend = @ \o c.tail, !.files = @ \cup {FreshData(m, c)}]

(* Tables: generic_write_table writes the blocks, then a list of where they are. *)
Table(kind, s, at) ==
  LET bs == Chunks(s)
  IN [i \in DOMAIN bs |-> Unit(kind, bs[i])]
     \o <<Unit("list", [i \in DOMAIN bs |-> at + i - 1])>>
TableStart(s, at) == at + Len(Chunks(s))

\* write_xattrs: the cells, the table of ids, and a header that says where the cells are.
XattrUnits(x, at) ==
  LET cs == Chunks(x.cells)
      is == Chunks(x.ids)
  IN [i \in DOMAIN cs |-> Unit("xattrs", cs[i])] \o [i \in DOMAIN is |-> Unit("xids", is[i])]
     \o <<Unit("list", <<at>> \o [i \in DOMAIN is |-> at + Len(cs) + i - 1])>>
XattrStart(x, at) == at + Len(Chunks(x.cells)) + Len(Chunks(x.ids))

InodeUnits(m) == LET bs == m.itab \o Chunks(m.icache) IN [i \in DOMAIN bs |-> Unit("inodes", bs[i])]
DirUnits(m)   == LET bs == m.dtab \o Chunks(m.dcache) IN [i \in DOMAIN bs |-> Unit("dirs", bs[i])]

(* Reading.  What is not where it should be reads as nothing.                 *)
ReadBlock(d, at) == d.data[at].v
Units(d, from, to) == [i \in 1 .. (to - from) |-> ReadBlock(d, from + i - 1)]

\* Every block but the last is full.
Place(blocks, k) == blocks[k \div Meta + 1][(k % Meta) + 1]
Flat(blocks) ==
  IF blocks = <<>> THEN <<>>
  ELSE [i \in 1 .. (Len(blocks) - 1) * Meta + Len(Last(blocks)) |-> Place(blocks, i - 1)]

ReadTable(d, start) ==
  IF start \notin DOMAIN d.data THEN <<>>
  ELSE Flat([i \in DOMAIN ReadBlock(d, start) |-> ReadBlock(d, ReadBlock(d, start)[i])])

\* read_xattrs_from_disk: the list of every id.  The cells end where the ids begin.
ReadXattrs(d) ==
  IF d.super.xtab \notin DOMAIN d.data THEN <<>>
  ELSE LET h     == ReadBlock(d, d.super.xtab)
           cells == Flat(Units(d, h[1], h[2]))
           ids   == Flat([i \in 1 .. Len(h) - 1 |-> ReadBlock(d, h[i + 1])])
       IN [k \in DOMAIN ids |-> GetXattr(cells, ids[k])]

InodeBlocks(d) == Units(d, d.super.itab, d.super.dtab)
\* The blocks of the fragment table lie before its list, and are read with them.
DirBlocks(d) == Units(d, d.super.dtab, d.super.ftab)

NoInode == [kind |-> "none"]
ReadInode(blocks, ref) ==
  IF ref[1] + 1 \in DOMAIN blocks
  THEN IF ref[2] + 1 \in DOMAIN blocks[ref[1] + 1] THEN blocks[ref[1] + 1][ref[2] + 1]
       ELSE NoInode
  ELSE NoInode

\* squashfs_opendir: the entries under each header, until the listing ends.
Parsed(items) ==
  LET parse[i \in Nat] ==
        IF i > Len(items) THEN <<>>
        ELSE [k \in 1 .. items[i].count + 1 |->
                [name |-> items[i + k].name, kind |-> items[i + k].kind,
                 ref |-> <<items[i].start, items[i + k].offset>>,
                 number |-> items[i].number + items[i + k].delta]]
             \o parse[i + items[i].count + 2]
  IN parse[1]
Listing(dirs, inode) ==
  LET from == inode.data.start * Meta + inode.data.offset
  IN The({Parsed(items) : items \in {[k \in 1 .. inode.data.size - 3 |-> Place(dirs, from + k - 1)]}})

FileContent(d, frags, i) ==
  [blocks |-> [k \in 1 .. i.blocks |-> d.data[i.start + k - 1].v],
   tail   |-> IF i.frag = NoFragment THEN <<>>
              ELSE <<d.data[frags[i.frag + 1]].v[i.offset + 1]>>]

\* read_inode: a short inode has no extended attributes, a short file one link.
Attr(d, frags, ids, xattrs, i) ==
  [kind  |-> i.kind, mode |-> i.mode, owner |-> <<ids[i.uid + 1], ids[i.gid + 1]>>,
   xattr |-> IF i.long /\ i.xattr # NoXattr THEN Range(xattrs[i.xattr + 1]) ELSE {},
   data  |-> CASE i.kind = "reg" -> FileContent(d, frags, i.data)
               [] i.kind = "dir" -> 0
               [] i.kind \in {"chr", "blk"} -> Device(i.data)
               [] OTHER -> i.data]
Links(i) == IF i.kind = "reg" /\ ~i.long THEN 1 ELSE i.nlink

(* Every name in the image, level by level from the root.                     *)
Below(db, e, i) ==
  IF i.kind # "dir" THEN {}
  ELSE {[path |-> Append(e.path, l.name), ref |-> l.ref, kind |-> l.kind, number |-> l.number] :
          l \in Range(Listing(db, i))}

Deeper(ib, db, es, n) ==
  es \cup UNION {UNION {Below(db, e, i) : i \in {ReadInode(ib, e.ref)}} :
                   e \in {x \in es : Len(x.path) = n}}

Entries(ib, db, super, depth) ==
  LET walk[n \in 0 .. depth] ==
        IF n = 0 THEN {[path |-> <<>>, ref |-> super.root, kind |-> "dir", number |-> 0]}
        ELSE The({Deeper(ib, db, es, n - 1) : es \in {walk[n - 1]}})
  IN walk[depth]

Read(d, ib, fs, is, xs, es) ==
  [p \in {e.path : e \in es} |->
     The({[attr |-> Attr(d, fs, is, xs, i), number |-> i.number, nlink |-> Links(i)] :
            i \in {ReadInode(ib, (CHOOSE e \in es : e.path = p).ref)}})]

Contents(d, depth) ==
  The({Read(d, ib, fs, is, xs, es) :
         fs \in {ReadTable(d, d.super.ftab)}, is \in {ReadTable(d, d.super.idtab)},
         xs \in {ReadXattrs(d)}, ib \in {InodeBlocks(d)},
         es \in {Entries(ib, db, d.super, depth) : ib \in {InodeBlocks(d)}, db \in {DirBlocks(d)}}})
=============================================================================
