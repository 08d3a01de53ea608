------------------------------- MODULE OpkgDb -------------------------------
(* The package database of opkg: the packages known to one process (pkg_hash *)
(* and the abstract packages), the owners of files (file_hash), and what is  *)
(* on disk: the files, the backups of conffiles, the .list files and the     *)
(* status file.  Everything here is a function of these records; the modules *)
(* OpkgRemove, OpkgInstall and Opkg are the actions.                         *)
EXTENDS OpkgVersion, FiniteSetsExt, SequencesExt

CONSTANTS
  Pkg,        \* packages: a name with a version
  File,       \* data files, without directories
  NameSeq,    \* the names of packages, real or virtual, in strcmp order
  Info,       \* [Pkg -> control fields and files]
  Feed,       \* the packages the feeds offer
  User,       \* the content of a file its user has changed
  None

Name == Range(NameSeq)

ASSUME InfoAssumption ==
  /\ Feed \subseteq Pkg
  /\ \A p \in Pkg :
       /\ Info[p].name \in Name
       /\ Info[p].essential \in BOOLEAN
       /\ Info[p].conffiles \subseteq Info[p].files
       /\ Info[p].files \subseteq File
       /\ Info[p].conflicts \cup Info[p].replaces \cup Info[p].provides \subseteq Name

Content == Pkg \cup {User, None}
Status == {"not_installed", "unpacked", "installed"}
Present == {"unpacked", "installed"}

NameOf(p) == Info[p].name
Provides(p) == {NameOf(p)} \cup Info[p].provides
Newer == [p \in Pkg |-> [q \in Pkg |-> Compare(Info[p].version, Info[q].version)]]

Place(p) == CHOOSE i \in DOMAIN NameSeq : NameSeq[i] = NameOf(p)

(* pkg_name_version_and_architecture_compare, with one architecture.         *)
Before == [p \in Pkg |-> [q \in Pkg |-> IF NameOf(p) = NameOf(q) THEN Newer[p][q] < 0
                                       ELSE Place(p) < Place(q)]]
Latest(S) == IF S = {} THEN None ELSE CHOOSE p \in S : \A q \in S \ {p} : Before[q][p]
Earliest(S) == IF S = {} THEN None ELSE CHOOSE p \in S : \A q \in S \ {p} : Before[p][q]
Sorted(S) ==
  [i \in 1..Cardinality(S) |-> CHOOSE p \in S : Cardinality({q \in S : Before[q][p]}) = i - 1]

(* What makes these an order: a version is what the parser makes of one, and *)
(* a record that compares equal to one of its name in the table is merged    *)
(* with it (pkg_vec_insert_merge), so two packages of a name differ.         *)
Distinguished ==
  /\ NameSeq \in Seq(Name)
  /\ \A p \in Pkg : Info[p].version \in Version
  /\ \A p, q \in Pkg : p # q /\ NameOf(p) = NameOf(q) => Newer[p][q] # 0

ASSUME PkgAssumption == IsFiniteSet(Pkg) /\ None \notin Pkg /\ Distinguished

-----------------------------------------------------------------------------
(* One process's database.  copies is how many records of the package were   *)
(* parsed: each adds its own entries to depended_upon_by.  archive is what is *)
(* under local_filename, fetched are the packages with a tmp_unpack_dir.     *)
Db == [known : SUBSET Pkg, copies : [Pkg -> 0..2], status : [Pkg -> Status],
       want : [Pkg -> {"unknown", "install", "deinstall"}],
       flags : [Pkg -> SUBSET {"hold", "user", "replace", "changed"}],
       auto : SUBSET Pkg, abs : [Name -> Status], checked : [Name -> 0..2],
       owner : [File -> Pkg \cup {None}], obs : SUBSET File,
       archive : [Pkg -> {"none", "missing", "bad", "whole"}], fetched : SUBSET Pkg]

Entry == [status : Status, want : {"unknown", "install", "deinstall"},
          flags : SUBSET {"hold", "user"}, auto : BOOLEAN]

(* pkg_vec_insert_merge: a record of the status file takes the place of the  *)
(* feed's.                                                                   *)
InStatus(stat) == {p \in Pkg : stat[p] # None}
InsertMerge(stat, p, fld, default) == IF p \in InStatus(stat) THEN stat[p][fld] ELSE default

(* Reading the feeds, unless the command does without, and then the status   *)
(* file.                                                                     *)
Load(feed, stat) ==
  LET recorded == InStatus(stat)
      Of(p, fld, default) == InsertMerge(stat, p, fld, default)
      status == [p \in Pkg |-> Of(p, "status", "not_installed")]
  IN  [known   |-> feed \cup recorded,
       copies  |-> [p \in Pkg |-> Cardinality({i \in 1..2 : p \in <<feed, recorded>>[i]})],
       status  |-> status,
       want    |-> [p \in Pkg |-> Of(p, "want", "unknown")],
       flags   |-> [p \in Pkg |-> Of(p, "flags", {})],
       auto    |-> {p \in recorded : stat[p].auto},
       abs     |-> [n \in Name |->
                      LET S == {status[p] : p \in {q \in recorded : NameOf(q) = n}}
                      IN  IF "installed" \in S THEN "installed"
                          ELSE IF "unpacked" \in S THEN "unpacked" ELSE "not_installed"],
       checked |-> [n \in Name |-> 0],
       owner   |-> [f \in File |-> None],
       obs     |-> {},
       archive |-> [p \in Pkg |-> "none"],
       fetched |-> {}]

(* A mutant: flags that only mean something to this process are printed too. *)
Printed_AllFlags(d, p) ==
  IF p \notin d.known \/ d.status[p] = "not_installed" THEN None
  ELSE [status |-> d.status[p], want |-> d.want[p],
        flags |-> d.flags[p], auto |-> p \in d.auto]

(* pkg_state_flag_to_str: the flags that outlive the process.                *)
FlagToStr(flags) == flags \cap {"hold", "user"}

(* What opkg_conf_write_status_files prints of a package.                    *)
Printed(d, p) ==
  IF \/ p \notin d.known
     \/ /\ d.status[p] = "not_installed"
        /\ \/ d.want[p] = "unknown"
           \/ d.want[p] = "deinstall" /\ d.flags[p] # {"hold"}
  THEN None
  ELSE [status |-> d.status[p], want |-> d.want[p],
        flags |-> FlagToStr(d.flags[p]), auto |-> p \in d.auto]

-----------------------------------------------------------------------------
(* pkg_hash.c.                                                               *)
Records(d, n) == {p \in d.known : NameOf(p) = n}
Providers(d, n) == {NameOf(p) : p \in {q \in d.known : n \in Provides(q)}}
ReplacedBy(d, n) ==
  {NameOf(p) : p \in {q \in d.known : n \in Info[q].replaces \cap Info[q].conflicts}}

InstalledIn(d, S) == Earliest({p \in S : d.status[p] \in Present})

(* pkg_hash_fetch_installed_by_name, over pkg_vec_fetch_by_name.             *)
InstalledByName(d, n) ==
  LET other == Providers(d, n)
  IN  IF Records(d, n) # {} \/ other = {} THEN InstalledIn(d, Records(d, n))
      ELSE InstalledIn(d, Records(d, CHOOSE m \in other : TRUE))

AllInstalled(d) == {p \in d.known : d.status[p] \in Present}

(* pkg_hash_fetch_best_installation_candidate.  A provider that some package *)
(* replaces and conflicts with gives way to it, unless it is a provider too. *)
Chosen(d, providers) ==
  {m \in providers : ReplacedBy(d, m) \subseteq {m}} \cup
  {CHOOSE r \in ReplacedBy(d, m) \ {m} : TRUE :
     m \in {k \in providers : /\ ~ReplacedBy(d, k) \subseteq {k}
                             /\ (ReplacedBy(d, k) \ {k}) \cap providers = {}}}
Candidates(d, n) == UNION {Records(d, m) : m \in Chosen(d, Providers(d, n))}

BestOf(d, matching, good, quiet) ==
  LET held == {p \in Pkg : "hold" \in d.flags[p]}
      parents == {p \in Pkg : d.abs[NameOf(p)] \in Present}
      ranks == SelectSeq(<<good, held, parents>>, LAMBDA S : S \cap matching # {})
  IN  IF ranks # <<>> THEN Latest(Head(ranks) \cap matching)
      ELSE IF Cardinality(matching) > 1 /\ quiet THEN None
      ELSE Earliest(matching)

(* What is in good comes first.                                              *)
Best(d, n, good, quiet) == BestOf(d, Candidates(d, n), good, quiet)

BestByName(d, n) == Best(d, n, {p \in Pkg : NameOf(p) = n}, FALSE)

(* A mutant: the change of owner is not noted.                               *)
Mark_None(flags, S) == flags

(* SF_FILELIST_CHANGED.                                                      *)
Mark(flags, S) == [p \in Pkg |-> IF p \in S THEN flags[p] \cup {"changed"} ELSE flags[p]]

(* file_hash_set_file_owner, of each file of S: a change of owner marks both *)
(* file lists.                                                               *)
SetOwners(d, S, p) ==
  LET owned == {f \in S : d.owner[f] # None}
      marked == IF owned = {} THEN {} ELSE {p} \cup {d.owner[f] : f \in owned}
  IN  [d EXCEPT !.owner = [f \in File |-> IF f \in S THEN p ELSE @[f]],
                !.flags = Mark(@, marked)]

(* pkg_get_installed_files of an installed package: its .list file, if any.  *)
Listed(list, p) == IF list[NameOf(p)] = None THEN {} ELSE list[NameOf(p)]

(* pkg_info_preinstall_check: the owners of the files of installed packages. *)
Preinstall(d, list) ==
  LET Claims(f) == {p \in AllInstalled(d) : f \in Listed(list, p)}
      shared == {f \in File : Cardinality(Claims(f)) > 1}
  IN  [d EXCEPT !.owner = [f \in File |-> IF Claims(f) = {} THEN None
                                          ELSE CHOOSE p \in Claims(f) : TRUE],
                !.flags = Mark(@, UNION {Claims(f) : f \in shared})]
=============================================================================
