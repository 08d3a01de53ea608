---------------------------- MODULE OpkgDepends ----------------------------
(* The relations between packages (libopkg/pkg_depends.c and parts of        *)
(* opkg_install.c, opkg_remove.c and opkg_cmd.c that only read them).  A     *)
(* dependency is [type, alts]: any one of alts satisfies it, each of them    *)
(* [name, rel, version].  Greedy dependencies are not modelled.              *)
EXTENDS OpkgDb

ASSUME DependsAssumption ==
  \A p \in Pkg : /\ Info[p].depends \in Seq(Range(Info[p].depends))
                 /\ \A dep \in Range(Info[p].depends) : dep.alts \in Seq(Range(dep.alts))

(* version_constraints_satisfied: an equal version satisfies every relation. *)
Satisfies(alt, p) ==
  LET c == IF alt.rel = "none" THEN 0 ELSE Compare(Info[p].version, alt.version)
  IN  \/ c = 0
      \/ alt.rel \in {"<<", "<="} /\ c < 0
      \/ alt.rel \in {">>", ">="} /\ c > 0

Alternatives == UNION {UNION {Range(Info[p].depends[i].alts) : i \in DOMAIN Info[p].depends} :
                       p \in Pkg}
Satisfying == [alt \in Alternatives |-> {p \in Pkg : Satisfies(alt, p)}]

(* Whether what is preferred among the present packages satisfies alt, and   *)
(* the package to install for it, or None.                                   *)
BestIn(d, alt, good) == {Best(d, alt.name, good, TRUE)} \cap good

Met(d, alt) == BestIn(d, alt, {p \in Satisfying[alt] : d.status[p] \in Present}) # {}

Satisfier(d, dep, alt) ==
  Latest({q \in BestIn(d, alt, Satisfying[alt]) :
            dep.type \in {"recommend", "suggest"} => d.want[q] # "deinstall"})

FirstOf(by) ==
  LET found == {i \in DOMAIN by : by[i] # None}
  IN  IF found = {} THEN None ELSE by[Min(found)]
FirstSatisfier(d, dep) ==
  FirstOf([i \in DOMAIN dep.alts |-> Satisfier(d, dep, dep.alts[i])])

(* pkg_hash_fetch_unsatisfied_dependencies.  todo are dependencies, each with*)
(* the package that has it, in the order the recursion meets them: those of  *)
(* a package it adds come before the rest.  A name is checked once, so that  *)
(* a cycle ends.                                                             *)
DependsOf(p) == [i \in DOMAIN Info[p].depends |-> [p |-> p, dep |-> Info[p].depends[i]]]

Lose(walk, dep) == [walk EXCEPT !.lost = @ \/ dep.type \notin {"recommend", "suggest"}]
Enter(walk, q) ==
  IF walk.checked[NameOf(q)] # 0 THEN walk
  ELSE [walk EXCEPT !.checked[NameOf(q)] = 1, !.todo = DependsOf(q) \o @]
Include(walk, p, dep, q) ==
  IF q = None THEN Lose(walk, dep)
  ELSE IF dep.type = "suggest" \/ q = p \/ Contains(walk.vec, q) THEN walk
  ELSE Enter([walk EXCEPT !.vec = Append(@, q)], q)

Dependency == UNION {Range(Info[p].depends) : p \in Pkg}
Walk == [vec : Seq(Pkg), lost : BOOLEAN, checked : [Name -> 0..2],
         todo : Seq([p : Pkg, dep : Dependency])]

Look(d, walk) ==
  LET head == Head(walk.todo)
      next == [walk EXCEPT !.todo = Tail(@)]
  IN  IF \E i \in DOMAIN head.dep.alts : Met(d, head.dep.alts[i]) THEN next
      ELSE Include(next, head.p, head.dep, FirstSatisfier(d, head.dep))

Unsatisfied(d, p) ==
  LET walked[walk \in Walk] == IF walk.todo = <<>> THEN walk ELSE walked[Look(d, walk)]
  IN  walked[Enter([vec |-> <<>>, lost |-> FALSE, checked |-> d.checked, todo |-> <<>>], p)]

-----------------------------------------------------------------------------
PkgReplaces(p, q) == Info[p].replaces \cap Provides(q) # {}
PkgConflicts(p, q) == Info[p].conflicts \cap Provides(q) # {}

(* pkg_hash_fetch_conflicts: a package that is only wanted counts.           *)
Conflicts(d, p) ==
  {q \in d.known : /\ NameOf(q) \in Info[p].conflicts \ Info[p].replaces
                   /\ d.status[q] = "installed" \/ d.want[q] = "install"}

(* pkg_get_installed_replacees.                                              *)
Replacees(d, p) ==
  {q \in d.known : /\ NameOf(q) \in Info[p].replaces
                   /\ PkgConflicts(p, q)
                   /\ d.status[q] = "installed"}

(* The names among the alternatives of p's dependencies of the given types,  *)
(* in order.                                                                 *)
DependNames(p, types) ==
  FlattenSeq([i \in DOMAIN Info[p].depends |->
    IF Info[p].depends[i].type \in types
    THEN [j \in DOMAIN Info[p].depends[i].alts |-> Info[p].depends[i].alts[j].name]
    ELSE <<>>])
Depends == [p \in Pkg |-> DependNames(p, {"depend"})]
Needs == [p \in Pkg |-> DependNames(p, {"depend", "recommend"})]
Wishes == [p \in Pkg |-> DependNames(p, {"depend", "recommend", "suggest"})]

(* pkg_has_installed_dependents, over the entries that buildDependedUponBy   *)
(* has made for what p provides: one for each record parsed, not one for     *)
(* each package.                                                             *)
DependentEntries(d, p) ==
  {e \in d.known \X (1..2) \X (1..8) :
     /\ e[2] <= d.copies[e[1]]
     /\ e[3] \in DOMAIN Needs[e[1]] /\ Needs[e[1]][e[3]] \in Provides(p)
     /\ d.abs[NameOf(e[1])] = "installed"}
NDependents(d, p) == Cardinality(DependentEntries(d, p))
Dependents(d, p) == {NameOf(e[1]) : e \in DependentEntries(d, p)}

(* opkg_recurse_pkgs_in_order: what is present, each after what it needs.    *)
PresentOf(d, n) == {q \in Records(d, n) : d.status[q] # "not_installed"}
PresentProvider(d, n) ==
  LET found == {m \in Providers(d, n) : PresentOf(d, m) # {}}
  IN  IF found = {} THEN None ELSE Earliest(PresentOf(d, CHOOSE m \in found : TRUE))

(* todo are packages to visit, and those visited that go into the order once *)
(* what comes before them in todo is done.                                   *)
ToDo == [p : Pkg \cup {None}, below : {FALSE}] \cup [p : Pkg, below : {TRUE}]
Tour == [visited : SUBSET Name, ordered : Seq(Pkg), todo : Seq(ToDo)]
ToVisit(ps) == [i \in DOMAIN ps |-> [p |-> ps[i], below |-> FALSE]]

Visit(d, tour) ==
  LET p == Head(tour.todo).p
      next == [tour EXCEPT !.todo = Tail(@)]
  IN  IF Head(tour.todo).below THEN [next EXCEPT !.ordered = Append(@, p)]
      ELSE IF p = None THEN next
      ELSE IF d.status[p] = "not_installed" \/ NameOf(p) \in tour.visited THEN next
      ELSE [next EXCEPT !.visited = @ \cup {NameOf(p)},
                        !.todo = ToVisit([i \in DOMAIN Wishes[p] |-> PresentProvider(d, Wishes[p][i])])
                                 \o <<[p |-> p, below |-> TRUE]>> \o @]

InOrder(d) ==
  LET toured[tour \in Tour] == IF tour.todo = <<>> THEN tour ELSE toured[Visit(d, tour)]
  IN  toured[[visited |-> {}, ordered |-> <<>>, todo |-> ToVisit(Sorted(d.known))]].ordered
=============================================================================
