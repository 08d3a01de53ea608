------------------------------- MODULE MCOpkg -------------------------------
(* A small distribution.  A has two versions; both need E, which needs A,    *)
(* and only the older needs B, which needs something that provides D: d1, or *)
(* c1, which replaces and conflicts with d1, which is essential.  X has a    *)
(* file of A; Y needs the older A, B and D, and conflicts with X; what W     *)
(* needs does not exist.                                                     *)
EXTENDS Opkg, TLC

CONSTANTS a1, a2, b1, c1, d1, e1, w1, x1, y1, fA, gA, oA, kB, mD

MCPkg == {a1, a2, b1, c1, d1, e1, w1, x1, y1}
MCNames == <<"A", "B", "C", "D", "E", "W", "X", "Y">>

Alt(n) == [name |-> n, rel |-> "none", version |-> None]
AtLeast(n, v) == [name |-> n, rel |-> ">=", version |-> v]
AtMost(n, v) == [name |-> n, rel |-> "<=", version |-> v]
Dep(alt) == [type |-> "depend", alts |-> <<alt>>]

One == [epoch |-> 0, version |-> <<49>>, revision |-> <<>>]
PreOne == [epoch |-> 0, version |-> <<49, Tilde>>, revision |-> <<>>]

Control(name, files, depends) ==
  [name |-> name, version |-> One, files |-> files, conffiles |-> {}, depends |-> depends,
   conflicts |-> {}, replaces |-> {}, provides |-> {}, essential |-> FALSE]

MCInfo ==
  (a1 :> [Control("A", {fA, gA, oA}, <<Dep(AtLeast("B", One)), Dep(Alt("E"))>>)
            EXCEPT !.version = PreOne, !.conffiles = {gA}]) @@
  (a2 :> [Control("A", {fA, gA}, <<Dep(Alt("E"))>>) EXCEPT !.conffiles = {gA}]) @@
  (b1 :> Control("B", {kB}, <<Dep(Alt("D"))>>)) @@
  (c1 :> [Control("C", {mD}, <<>>)
            EXCEPT !.provides = {"D"}, !.conflicts = {"D"}, !.replaces = {"D"}]) @@
  (d1 :> [Control("D", {mD}, <<>>) EXCEPT !.essential = TRUE]) @@
  (e1 :> Control("E", {}, <<Dep(Alt("A"))>>)) @@
  (w1 :> Control("W", {}, <<Dep(Alt("Q"))>>)) @@
  (x1 :> Control("X", {fA}, <<>>)) @@
  (y1 :> [Control("Y", {}, <<Dep(Alt("B")), Dep(Alt("D")),
                             [type |-> "recommend", alts |-> <<Alt("Q")>>],
                             [type |-> "depend", alts |-> <<Alt("Q"), AtMost("A", PreOne)>>]>>)
            EXCEPT !.conflicts = {"X"}])

MCInstalled == {{}, {a1, b1, d1, e1}, {x1, d1}}

Essentials == "force_removal_of_essential_packages"
Cmd(kind, args, opts) == [kind |-> kind, args |-> args, opts |-> opts]
MCCommands ==
  <<{Cmd("install", <<"A">>, {}), Cmd("install", <<"W", "C">>, {}), Cmd("install", <<"Y">>, {}),
     Cmd("install", <<"C">>, {Essentials}), Cmd("install", <<"X">>, {"force_overwrite"}),
     Cmd("upgrade", <<"A", "A", "A">>, {}),
     Cmd("remove", <<"A">>, {"force_remove", "autoremove"}), Cmd("remove", <<"B">>, {"force_depends"}),
     Cmd("remove", <<"D">>, {"force_removal_of_dependents", Essentials}),
     Cmd("flag", <<"A">>, {"hold"}), Cmd("flag", <<"A">>, {"unpacked"}),
     Cmd("opkg_install_package", <<"A">>, {}), Cmd("opkg_upgrade_package", <<"A">>, {})},
    {Cmd("install", <<"A">>, {}), Cmd("install", <<"Y">>, {}), Cmd("upgrade", <<"A">>, {}),
     Cmd("remove", <<"A">>, {}), Cmd("remove", <<"X">>, {}), Cmd("configure", <<>>, {}),
     Cmd("remove", <<"D">>, {"force_removal_of_dependents", Essentials}), Cmd("opkg_upgrade_all", <<>>, {}),
     Cmd("opkg_remove_package", <<"A">>, {})}>>

MCStrings == UNION {[1..n -> {Tilde, 48, 49, 97}] : n \in 0..2}
=============================================================================
