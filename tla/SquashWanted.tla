---------------------------- MODULE SquashWanted ----------------------------
(***************************************************************************)
(* What an image should hold, said without the scans and the tables: the    *)
(* view of an image a reader has, and the view that a command asks for.     *)
(***************************************************************************)
EXTENDS SquashSource

\* Each path with its attributes, its link count and the paths of the same inode.
View(d) ==
  The({[p \in DOMAIN c |->
          [attr |-> c[p].attr, nlink |-> c[p].nlink,
           same |-> {q \in DOMAIN c : c[q].number = c[p].number}]] : c \in {Contents(d, Depth)}})

Under_(n, ps) == {<<n>> \o p : p \in ps}
OldPart(c, before) ==
  IF c.becomes = {} THEN [p \in DOMAIN before \ {<<>>} |-> before[p]]
  ELSE LET n == CHOOSE x \in c.becomes : TRUE
       IN [p \in Under_(n, DOMAIN before) |->
             [before[Tail(p)] EXCEPT !.same = Under_(n, @)]]

\* A file is left out if a pattern names it, or a directory it is in.
Named(c, at, src) ==
  IF c.wildcards
  THEN \E e \in Range(c.excludes) :
         LET k == Len(at) - Len(e.path)
         IN /\ IF e.sticky THEN k >= 0 ELSE k = 0
            /\ \A i \in DOMAIN e.path : at[k + i] \in e.path[i]
  ELSE \E e \in Range(c.excludes) : \E s \in Under(c.sources, e) : Fs[s].ino = Fs[src].ino

Included(c, tops) ==
  UNION {
    {f \in {[at |-> n.at \o SubSeq(s, Len(n.src) + 1, Len(s)), src |-> s] :
              s \in {q \in DOMAIN Fs : IsPrefix(n.src, q)}} :
       \A k \in Len(n.src) + 1 .. Len(f.src) :
         LET up == Len(f.src) - k
         IN ~Named(c, SubSeq(f.at, 1, Len(f.at) - up), SubSeq(f.src, 1, k))
            /\ Opens(SubSeq(f.src, 1, k))} : n \in Range(tops)}

\* A definition adds a file where there is none, in a directory of the command.
Adds(defs, found, oldNames, f) ==
  /\ f.type # "m" /\ f.path[1] \notin oldNames /\ f.path \notin {n.at : n \in found}
  /\ \A k \in 1 .. Len(f.path) - 1 :
       \/ \E n \in found : n.at = SubSeq(f.path, 1, k) /\ Fs[n.src].attr.kind = "dir"
       \/ \E g \in defs : g.type = "d" /\ g.path = SubSeq(f.path, 1, k)

Modified(defs, same, attr) ==
  IF \E f \in defs : f.type = "m" /\ f.path \in same
  THEN LET f == CHOOSE f \in defs : f.type = "m" /\ f.path \in same
       IN [attr EXCEPT !.mode = f.mode, !.owner = f.owner]
  ELSE attr

NewPart(c, defs, found, oldNames) ==
  LET names(s) == {n.at : n \in {x \in found : Fs[x.src].ino = Fs[s].ino}}
      added == {f \in defs : Adds(defs, found, oldNames, f)}
  IN [p \in {n.at : n \in found} |->
        LET s == (CHOOSE n \in found : n.at = p).src
        IN [attr |-> Modified(defs, names(s), Fs[s].attr), nlink |-> 0, same |-> names(s)]]
     @@ [p \in {f.path : f \in added} |->
           [attr |-> PseudoAttr(CHOOSE f \in added : f.path = p), nlink |-> 0, same |-> {p}]]

Linked(v, kept) ==
  [p \in DOMAIN v |->
     IF p \in kept THEN v[p]
     ELSE [v[p] EXCEPT !.nlink =
             IF v[p].attr.kind = "dir"
             THEN 2 + Cardinality({q \in DOMAIN v : q # <<>> /\ Front(q) = p /\ v[q].attr.kind = "dir"})
             ELSE Cardinality(v[p].same)]]

Wanted(c, before) ==
  LET old   == OldPart(c, before)
      olds  == {p[1] : p \in DOMAIN old}
      defs  == Range(PseudoDefs(c))
      found == Included(c, TopNodes(c, Excludes(c), olds))
      root  == [attr |-> IF AsRoot(c) THEN Fs[c.sources[1]].attr ELSE c.root,
                nlink |-> 0, same |-> {<<>>}]
  IN Linked((<<>> :> root) @@ old @@ NewPart(c, defs, found, olds), DOMAIN old)
=============================================================================
