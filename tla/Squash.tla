------------------------------- MODULE Squash -------------------------------
(***************************************************************************)
(* mksquashfs making an image, run after run, and unsquashfs extracting it: *)
(* the composition, and what the two together must keep.                    *)
(***************************************************************************)
EXTENDS Unsquash

allvars == <<vars, xvars>>

\* unsquashfs reads the image when no run of mksquashfs is under way, and the
\* model ends with it.
Making  == xpc = "off" /\ Next /\ UNCHANGED xvars
Extracting == (Extract \/ ScanSteps \/ Writer) /\ UNCHANGED vars

Initial == Init /\ XInit

\* A process that can run does; nobody has to start, signal or kill one.
Spec ==
  /\ Initial /\ [][Making \/ Extracting]_allvars
  /\ WF_allvars(RunSteps /\ UNCHANGED xvars)
  /\ WF_allvars(ScanSteps /\ UNCHANGED vars) /\ WF_allvars(Writer /\ UNCHANGED vars)

(* The image in disk is one a reader accepts, and no known defect is in it.  *)
Whole == disk.super.magic /\ ~spoiled /\ ~halfway /\ pc # "recover2"

\* TypeOK: the tables in memory hold whole blocks and a cache of at most one
\* block more (get_inode, write_dir), and every recovery file is of a run made.
TypeOK ==
  /\ pc \in {"idle", "hung", "recovery", "clear", "save", "scan", "scan3", "fragment", "inodes",
             "directories", "fragments", "lookup", "ids", "xattrs", "super", "unlink",
             "recover1", "recover2"}
  /\ \A b \in Range(m.itab) \cup Range(m.dtab) : Len(b) <= Meta
  /\ Len(m.icache) <= Meta /\ Len(m.pend) <= FragMax
  /\ runs \in 0 .. MaxCommands /\ faults \in 0 .. MaxFaults
  /\ DOMAIN recs \subseteq 1 .. runs
  /\ {spoiled, halfway} \subseteq BOOLEAN

\* ImageSound: in an image at rest the inode numbers are 1 to the number of
\* inodes, the lookup table finds each inode by its number, the entries of a
\* directory are in order and agree with the inodes they lead to, and a
\* directory inode gives the number of its parent.
Sound(d) ==
  \E ib \in {InodeBlocks(d)}, es \in {Entries(ib, db, d.super, Depth) : ib \in {InodeBlocks(d)}, db \in {DirBlocks(d)}}, lt \in {ReadTable(d, d.super.ltab)} :
    LET at(e) == ReadInode(ib, e.ref)
        up(e) == CHOOSE u \in es : u.path = Front(e.path)
    IN /\ {at(e).number : e \in es} = 1 .. d.super.inodes
       /\ \A e \in es :
            /\ at(e).kind = e.kind
            /\ e.path # <<>> => at(e).number = e.number
            /\ d.super.exportable => lt[at(e).number] = e.ref
            /\ \A f \in es : at(f).number = at(e).number => f.ref = e.ref
            /\ e.kind = "dir" => at(e).parent = IF e.path = <<>> THEN d.super.inodes + 1
                                                ELSE at(up(e)).number
       /\ \A e \in {x \in es : x.kind = "dir"} :
            LET ls == Listing(DirBlocks(d), at(e))
            IN \A i \in 1 .. Len(ls) - 1 : ls[i].name < ls[i + 1].name
ImageSound == Whole /\ pc \in {"idle", "unlink"} => Sound(disk)

(* The promise of AtomicImage.                                                *)
Not(why) == [is |-> why, view |-> <<>>]
Holds(v) == [is |-> "whole", view |-> v]
Image ==
  CASE ~disk.exists -> Not("absent")
    [] ~disk.super.magic \/ halfway \/ pc = "recover2" -> Not("torn")
    [] spoiled -> Not("spoiled")
    [] OTHER -> Holds(View(disk))
Mode ==
  CASE pc \in {"idle", "hung"} -> pc
    [] pc \in {"recover1", "recover2"} -> "recovering"
    [] Creating -> "creating"
    [] OTHER -> "appending"
Safe == IF pc \in {"idle", "recover1", "recover2"} THEN FALSE ELSE cmd.recover
Copies == {Holds(recs[n].of) : n \in {x \in DOMAIN recs : Matches(recs[x], disk)}}

Abstract == INSTANCE AtomicImage WITH
  Absent <- Not("absent"), Torn <- Not("torn"), Spoiled <- Not("spoiled"),
  image <- Image, mode <- Mode, before <- Holds(hist.before), asked <- Holds(hist.asked),
  safe <- Safe, copy <- Copies

\* Atomic: a run of mksquashfs puts in the image exactly what it was asked for,
\* with the files that were there, or leaves exactly what was there; if it is
\* killed, -recover puts back exactly what was there (main, restorefs,
\* write_recovery_data, read_recovery_data).
Atomic == Abstract!AtomicSpec

\* Ends: a run that is not killed ends, or hangs on a signal or on the error of
\* another thread; unsquashfs ends, every file it queued dealt with.
Ends ==
  /\ pc # "idle" ~> pc \in {"idle", "hung"}
  /\ xpc # "off" ~> xpc \in {"done", "failed"} /\ queue = <<>>

(* What a user of unsquashfs expects to find, from the view of the image.     *)
Matched(q, p) == Len(q) <= Len(p) /\ \A k \in DOMAIN q : p[k] \in q[k]
Leads(p, q) == Len(p) < Len(q) /\ \A k \in DOMAIN p : p[k] \in q[k]
Asked(v, c) ==
  {p \in DOMAIN v :
     \/ c.paths = <<>> \/ \E q \in Range(c.paths) : Matched(q, p)
     \/ v[p].attr.kind = "dir" /\ \E q \in Range(c.paths) : Leads(p, q)}
\* Sockets are not extracted, devices by root only.
Possible(a, c) == a.kind # "sock" /\ (a.kind \in {"chr", "blk"} => c.root)

\* What is in the way and cannot be replaced, or a directory nobody may write in.
FoundKind(c, p) == c.found.nodes[c.found.names[p]].kind
Clash(v, c, p) ==
  p \in DOMAIN c.found.names /\ (FoundKind(c, p) = "dir") # (v[p].attr.kind = "dir")
Shut(v, c, p) == ~c.root /\ Digit(v[p].attr.mode) \notin {3, 7}
Obstructed(v, c, p) ==
  \/ Clash(v, c, p)
  \/ \E k \in 0 .. Len(p) - 1 : Clash(v, c, SubSeq(p, 1, k)) \/ Shut(v, c, SubSeq(p, 1, k))

Expected(a, c) ==
  [kind |-> MadeKind(a.kind, a.xattr # {}), owner |-> IF c.root THEN a.owner ELSE Me,
   mode |-> LET mode == IF c.root THEN a.mode ELSE a.mode % 1000
            IN IF c.root \/ c.force \/ a.kind \in {"sym", "fifo"} THEN mode ELSE -mode,
   xattr |-> IF ~c.xattrs THEN {} ELSE {x \in a.xattr : c.root \/ x[1] \in UserXattr},
   data |-> IF a.kind \in {"chr", "blk"} THEN <<a.data[1] % 256, a.data[2] % 256>> ELSE a.data]

NumberAt(d, p) == Contents(d, Depth)[p].number

\* v is the view of the image, c the command of unsquashfs.
ExtractedAs(v, c) ==
  \A got \in {out.names} : \A asked \in {Asked(v, c)} :
    LET hurt(p) == \E q \in v[p].same \cap asked : Obstructed(v, c, q)
        lost(p) == \E n \in bad : n = NumberAt(disk, p)
    IN /\ DOMAIN got \subseteq asked \cup DOMAIN c.found.names
       /\ \A n \in bad : created[n] \notin DOMAIN got
       /\ \A p \in asked :
            \/ hurt(p)
            \/ lost(p) /\ (p \in DOMAIN got => out.nodes[got[p]].data = Partial)
            \/ IF Possible(v[p].attr, c)
               THEN /\ p \in DOMAIN got
                    /\ out.nodes[got[p]] = Expected(v[p].attr, c)
                    /\ {q \in DOMAIN got : got[q] = got[p]} = v[p].same \cap asked
               ELSE p \notin DOMAIN got

\* Extracted: when unsquashfs ends, each path asked for holds what the image
\* holds under it, paths of one inode are links to one file and no others are,
\* and there is nothing else; if the data of a file could not be written, or
\* something was in the way, only the names of that inode, and what is below
\* it, are missing or incomplete.  It fails only for an empty directory, or when
\* there is no image.
Extracted ==
  /\ xpc = "failed" => ~disk.exists \/
       \E v \in {View(disk)} : \E p \in DOMAIN v :
         v[p].attr.kind = "dir" /\ \A q \in DOMAIN v : q = <<>> \/ Front(q) # p
  /\ xpc = "done" =>
       IF <<>> \in DOMAIN xcmd.found.names /\ ~xcmd.force THEN out = xcmd.found
       ELSE \A v \in {View(disk)} : ExtractedAs(v, xcmd)
=============================================================================
