---------------------------- MODULE SquashSource ----------------------------
(***************************************************************************)
(* What mksquashfs decides to archive, before it writes anything: the      *)
(* scans of the source directories (dir_scan1, dir_scan2), the exclude     *)
(* lists, the pseudo file definitions, the numbers given to inodes and the *)
(* order a sort file imposes.                                              *)
(*                                                                         *)
(* A source file system is a function from paths (sequences of names) to   *)
(* files; a name is a number, ordered as strcmp orders the names.  A tree  *)
(* is a function from the paths inside the image to inode identities; a    *)
(* directory is listed as the children of its path.                        *)
(***************************************************************************)
EXTENDS SquashFormat

CONSTANTS
  Fs,          \* path -> [ino, attr, names, readable]: the source files, names in readdir order
  Suffixed,    \* <<name, k>> -> the name followed by _k
  MaxSuffix,   \* the largest k tried
  Depth        \* no path inside an image has more names than this

ASSUME DepthAssumption == Depth \in Nat

\* The names of a directory in order.
sort_directory(names) ==
  [i \in 1 .. Cardinality(names) |->
     CHOOSE x \in names : Cardinality({y \in names : y < x}) = i - 1]

(* Exclude lists.  A component of a pattern is the set of names it matches.  *)
AddPath(tree, target) ==
  IF \E p \in tree : IsPrefix(p, target) THEN tree
  ELSE {p \in tree : ~IsStrictPrefix(target, p)} \cup {target}

AddExclude(x, e) ==
  IF e.sticky THEN [x EXCEPT !.sticky = AddPath(@, e.path)]
              ELSE [x EXCEPT !.path = AddPath(@, e.path)]

\* Without -wildcards an exclude is the file it names, relative to the sources.
Under(sources, p) == {s \o p : s \in Range(sources)} \cap DOMAIN Fs
OldAddExclude(x, e, sources) ==
  [x EXCEPT !.old = @ \cup {Fs[s].ino : s \in Under(sources, e)}]

Excludes(cmd) ==
  LET none == [path |-> {}, sticky |-> {}, old |-> {}]
  IN IF cmd.wildcards THEN FoldLeft(AddExclude, none, cmd.excludes)
     ELSE FoldLeft(LAMBDA x, e : OldAddExclude(x, e, cmd.sources), none, cmd.excludes)

\* excluded(): the answer for one name, and the patterns left for its children.
Excluded(x, ps, name, src) ==
  \/ Fs[src].ino \in x.old
  \/ \E p \in ps : Len(p) = 1 /\ name \in p[1]
RemainingOnce(x, ps, name) == {Tail(p) : p \in {q \in ps : Len(q) > 1 /\ name \in q[1]}}
Remaining(x, ps, name) ==
  x.sticky \cup {Tail(p) : p \in {q \in ps : Len(q) > 1 /\ name \in q[1]}}

(* dir_scan1.  A node is one name found: where it goes in the image, what it *)
(* is in the source, the patterns for its children, whether they are due.    *)
Free(name, used) ==
  LET tried(k) == IF k = 0 THEN name ELSE Suffixed[<<name, k>>]
  IN tried(CHOOSE k \in 0 .. MaxSuffix :
             tried(k) \notin used /\ \A j \in 0 .. k - 1 : tried(j) \in used)

\* scan1_readdir: the names in a source directory.
Readdir(src) == Fs[src].names

Opens(src) == Fs[src].attr.kind = "dir" => Fs[src].readable

Taken(x, ps, name, src) == ~Excluded(x, ps, name, src) /\ Opens(src)
Node(x, ps, at, name, src) ==
  [at |-> Append(at, name), src |-> src, left |-> Remaining(x, ps, name),
   open |-> Fs[src].attr.kind = "dir"]

Children(x, node) ==
  LET names == SelectSeq(Readdir(node.src),
                         LAMBDA n : Taken(x, node.left, n, Append(node.src, n)))
  IN [i \in DOMAIN names |->
        Node(x, node.left, node.at, names[i], Append(node.src, names[i]))]

\* One source directory is the root itself; several become entries of a root
\* made for them.  Both start with the entries of the root appended to.
AsRoot(cmd) == ~cmd.keep /\ Len(cmd.sources) = 1 /\ Fs[cmd.sources[1]].attr.kind = "dir"

TopEntries(cmd) ==
  IF AsRoot(cmd) THEN [i \in DOMAIN Readdir(cmd.sources[1]) |->
                         Append(cmd.sources[1], Readdir(cmd.sources[1])[i])]
  ELSE cmd.sources

Found(x, ps, seen, src, oldNames) ==
  The({IF Taken(x, ps, n, src) THEN Append(seen, Node(x, ps, <<>>, n, src)) ELSE seen :
         n \in {Free(Last(src), oldNames \cup {Last(s.at) : s \in Range(seen)})}})

TopNodes(cmd, x, oldNames) ==
  FoldLeft(LAMBDA seen, src : The({Found(x, x.path \cup x.sticky, s, src, oldNames) : s \in {seen}}),
           <<>>, TopEntries(cmd))

Descend(x, nodes) ==
  FlattenSeq([i \in DOMAIN nodes |->
    IF nodes[i].open THEN Append(Children(x, nodes[i]), [nodes[i] EXCEPT !.open = FALSE])
                     ELSE <<nodes[i]>>])

\* In the order of the calls of lookup_inode: a directory after its contents.
ScanWith(cmd, x, oldNames) ==
  LET scan[d \in 0 .. Depth] ==
        IF d = 0 THEN TopNodes(cmd, x, oldNames)
        ELSE The({Descend(x, nodes) : nodes \in {scan[d - 1]}})
  IN scan[Depth]
Scan1(cmd, oldNames) == The({ScanWith(cmd, x, oldNames) : x \in {Excludes(cmd)}})

(* Pseudo file definitions, and their merge into the tree (dir_scan2).  One is *)
(* [path, type, mode, owner, dev, output]: dev is the number of a device, and *)
(* output what the process of a dynamic file writes.                         *)
\* read_pseudo_def: what does not fit is refused.
BadPseudo(f) ==
  \/ f.mode > 7777
  \/ f.type \in {"b", "c"} /\ (f.dev[1] > 4095 \/ f.dev[2] > 1048575)
\* The file a definition makes, without extended attributes.
PseudoAttr(f) ==
  [kind |-> CASE f.type = "b" -> "blk" [] f.type = "c" -> "chr" [] f.type = "d" -> "dir"
              [] OTHER -> "reg",
   mode |-> f.mode, owner |-> f.owner, xattr |-> {},
   data |-> CASE f.type = "d" -> 0 [] f.type = "f" -> f.output [] OTHER -> f.dev]

AddPseudo(defs, f) ==
  IF \E g \in Range(defs) : \/ g.path = f.path
                            \/ IsStrictPrefix(g.path, f.path) /\ g.type # "d"
                            \/ IsStrictPrefix(f.path, g.path) /\ f.type # "d"
  THEN defs ELSE Append(defs, f)

PseudoDefs(cmd) == FoldLeft(AddPseudo, <<>>, cmd.pseudo)

\* A step of dir_scan2 is a directory to visit or a definition to apply.
VisitDir(p) == [path |-> p, type |-> "visit"]
\* scan2_readdir, of the directories only, and scan2_lookup, which finds the
\* entries of an old root, too.
Subdirs(nodes, p) ==
  SelectSeq(nodes, LAMBDA n : Front(n.at) = p /\ Fs[n.src].attr.kind = "dir")
LooksUp(nodes, oldNames, p) == p \in {n.at : n \in Range(nodes)} \cup {<<n>> : n \in oldNames}
Visit(step, defs, nodes, oldNames) ==
  IF step.type # "visit" THEN <<step>>
  ELSE LET sub  == Subdirs(nodes, step.path)
           here == SelectSeq(defs, LAMBDA f : Front(f.path) = step.path)
       IN [i \in DOMAIN sub |-> VisitDir(sub[i].at)]
          \o FlattenSeq([i \in DOMAIN here |->
               IF here[i].type = "d" /\ ~LooksUp(nodes, oldNames, here[i].path)
               THEN <<VisitDir(here[i].path), here[i]>> ELSE <<here[i]>>])

Visits(steps, defs, nodes, oldNames) ==
  FlattenSeq([i \in DOMAIN steps |-> Visit(steps[i], defs, nodes, oldNames)])

PseudoSteps(defs, nodes, oldNames) ==
  LET steps[d \in 0 .. Depth] ==
        IF d = 0 THEN <<VisitDir(<<>>)>>
        ELSE The({Visits(ss, defs, nodes, oldNames) : ss \in {steps[d - 1]}})
  IN SelectSeq(steps[Depth], LAMBDA s : s.type # "visit")

\* Type m changes the shared inode of a file found; the others add a file
\* where none is, each with an inode of its own (their identities are negative,
\* those of source files positive, that of a root made for several sources 0).
Merged(t, steps, oldNames) ==
  LET due     == SelectSeq(steps, LAMBDA f : f.path \notin {<<n>> : n \in oldNames})
      new     == SelectSeq(due, LAMBDA f : f.type # "m" /\ f.path \notin DOMAIN t.ent)
      mods(id) == SelectSeq(due, LAMBDA f : f.type = "m" /\ f.path \in DOMAIN t.ent
                                            /\ t.ent[f.path] = id)
      made(k) == PseudoAttr(new[-k])
  IN [ent  |-> t.ent @@ [p \in {f.path : f \in Range(new)} |->
                           -(CHOOSE k \in DOMAIN new : new[k].path = p)],
      attr |-> [id \in DOMAIN t.attr |->
                  IF mods(id) = <<>> THEN t.attr[id]
                  ELSE [t.attr[id] EXCEPT !.mode = Last(mods(id)).mode,
                                          !.owner = Last(mods(id)).owner]]
               @@ [id \in -Len(new) .. -1 |-> made(id)],
      ids  |-> t.ids \o [k \in DOMAIN new |-> -k]]

(* lookup_inode: one inode for each file, however many names it has.         *)
Scanned(nodes) ==
  [ent  |-> [p \in {n.at : n \in Range(nodes)} |->
               Fs[(CHOOSE n \in Range(nodes) : n.at = p).src].ino],
   attr |-> [i \in {Fs[n.src].ino : n \in Range(nodes)} |->
               Fs[(CHOOSE n \in Range(nodes) : Fs[n.src].ino = i).src].attr],
   ids  |-> [k \in DOMAIN nodes |-> Fs[nodes[k].src].ino]]

\* The root's own inode is looked up last; a root made for several sources
\* belongs to the user who runs mksquashfs.
WithRoot(t, cmd) ==
  LET id == IF AsRoot(cmd) THEN Fs[cmd.sources[1]].ino ELSE 0
      at == IF AsRoot(cmd) THEN Fs[cmd.sources[1]].attr ELSE cmd.root
  IN [ent |-> (<<>> :> id) @@ t.ent, attr |-> (id :> at) @@ t.attr, ids |-> Append(t.ids, id)]

\* Directories and other files are numbered apart, in the order first met.
IsDirId(t, id) == t.attr[id].kind = "dir"
Before(t, id) ==
  LET first == CHOOSE k \in DOMAIN t.ids : t.ids[k] = id /\ \A j \in 1 .. k - 1 : t.ids[j] # id
  IN {i \in {t.ids[k] : k \in 1 .. first - 1} : IsDirId(t, i) = IsDirId(t, id)}

Numbered(t) ==
  [ent |-> t.ent, attr |-> t.attr,
   number |-> [id \in DOMAIN t.attr |-> Cardinality(Before(t, id))],
   nlink  |-> [id \in DOMAIN t.attr |-> Cardinality({k \in DOMAIN t.ids : t.ids[k] = id})],
   dirs   |-> Cardinality({id \in DOMAIN t.attr : IsDirId(t, id)}),
   others |-> Cardinality({id \in DOMAIN t.attr : ~IsDirId(t, id)})]

\* dir_scan1 gives nodes; dir_scan2 and lookup_inode make the tree of them.
Tree(cmd, nodes, oldNames) ==
  The({WithRoot(t, cmd) : t \in {Merged(t, steps, oldNames) :
        t \in {Scanned(nodes)},
        steps \in {PseudoSteps(defs, nodes, oldNames) : defs \in {PseudoDefs(cmd)}}}})

(* Sort files: a priority is that of the file, else of the nearest directory *)
(* above it that has one; files of one priority come last name first.        *)
Ambiguous(cmd) == \E e \in Range(cmd.sort) : Cardinality(Under(cmd.sources, e.path)) > 1

Given(cmd, id) ==
  LET is == {i \in DOMAIN cmd.sort : \E s \in Under(cmd.sources, cmd.sort[i].path) :
                                        Fs[s].ino = id}
  IN IF is = {} THEN {} ELSE {cmd.sort[CHOOSE i \in is : \A j \in is : j <= i].priority}

Priority(cmd, t, p) ==
  LET ks == {k \in 0 .. Len(p) : Given(cmd, t.ent[SubSeq(p, 1, k)]) # {}}
  IN IF ks = {} THEN 0
     ELSE CHOOSE v \in Given(cmd, t.ent[SubSeq(p, 1, CHOOSE k \in ks : \A j \in ks : j <= k)]) : TRUE

LexLess(p, q) ==
  \/ IsStrictPrefix(p, q)
  \/ \E i \in DOMAIN p \cap DOMAIN q : p[i] < q[i] /\ \A j \in 1 .. i - 1 : p[j] = q[j]

SortedFiles(cmd, t) ==
  IF cmd.sort = <<>> THEN <<>>
  ELSE LET fs == {p \in DOMAIN t.ent : t.attr[t.ent[p]].kind = "reg"}
           Earlier(p, q) == \/ Priority(cmd, t, p) > Priority(cmd, t, q)
                            \/ Priority(cmd, t, p) = Priority(cmd, t, q) /\ LexLess(q, p)
       IN [i \in 1 .. Cardinality(fs) |->
             CHOOSE p \in fs : Cardinality({q \in fs : Earlier(q, p)}) = i - 1]
=============================================================================
