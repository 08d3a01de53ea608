-------------------------------- MODULE Opkg --------------------------------
(* opkg as a program: a command loads the database, works on it in memory    *)
(* and on the files, and at the end, or when it is interrupted, writes the   *)
(* status file and the file lists that changed (libopkg/opkg_cmd.c,          *)
(* opkg_conf.c, opkg_upgrade.c, opkg_configure.c).  The machine may crash at *)
(* any step.  One process runs at a time: the lock file is not modelled.     *)
EXTENDS OpkgInstall

CONSTANTS
  Commands,      \* the commands there are at each turn: records [kind, args, opts]
  Installed,     \* systems to start from: sets of packages
  MaxCommands,   \* bounds the commands run
  Strings        \* the version strings of compare-versions

ASSUME StringsAssumption == Strings \subseteq Text

ASSUME CommandsAssumption ==
  /\ MaxCommands \in Nat
  /\ Installed \subseteq SUBSET Pkg
  /\ \A n \in 1..MaxCommands : \A c \in Commands[n] : c.args \in Seq(Range(c.args))

VARIABLES ncommands, answer

all == <<vars, ncommands, answer>>

(* The calls of the library, opkg.c.                                         *)
Calls == {"opkg_install_package", "opkg_remove_package", "opkg_upgrade_package",
          "opkg_upgrade_all"}

Forcing == {"force_depends", "force_overwrite", "nodeps", "unpacked"}

-----------------------------------------------------------------------------
(* A system on which opkg installed the packages S; of these, those that     *)
(* another one of them needs are there because of it.                        *)
Needed(S) == {p \in S : \E q \in S : Range(Depends[q]) \cap Provides(p) # {}}

Init ==
  /\ \E S \in Installed :
       /\ content = [f \in File |-> LET P == {p \in S : f \in Info[p].files}
                                    IN  IF P = {} THEN None ELSE CHOOSE p \in P : TRUE]
       /\ list = [n \in Name |-> LET P == {p \in S : NameOf(p) = n}
                                 IN  IF P = {} THEN None ELSE Info[CHOOSE p \in P : TRUE].files]
       /\ stat = [p \in Pkg |-> IF p \notin S THEN None
                                ELSE [status |-> "installed", want |-> "install", flags |-> {},
                                      auto |-> p \in Needed(S)]]
  /\ backup = [f \in File |-> None]
  /\ db = Load({}, [p \in Pkg |-> None])
  /\ stack = <<>> /\ ret = 0 /\ run = None
  /\ faults = 0 /\ ncommands = 0 /\ answer = None
  /\ hist = [failed |-> FALSE, hosed |-> FALSE, crashed |-> FALSE, forced |-> FALSE, unsaved |-> FALSE,
             lost |-> FALSE, again |-> {}, edits |-> {}]

(* main and the start of the command, or opkg_new and a call of the library, *)
(* which handles no signal: the feeds are read for all that may install.     *)
Start ==
  /\ run = None /\ ncommands < MaxCommands
  /\ ncommands' = ncommands + 1
  /\ \E c \in Commands[ncommands'] :
       LET d == Load(IF c.kind \in {"install", "upgrade"} \cup Calls THEN Feed ELSE {}, stat)
       IN  /\ run' = [kind |-> c.kind, opts |-> c.opts, blocked |-> FALSE, changed |-> FALSE,
                      handler |-> c.kind \notin {"configure"} \cup Calls]
           /\ db' = IF c.kind \in {"configure", "flag"} THEN d ELSE Preinstall(d, list)
           /\ stack' = <<[Frame("cmd", None) EXCEPT !.todo = c.args]>>
           /\ hist' = [hist EXCEPT !.forced = @ \/ c.opts \cap Forcing # {}]
  /\ ret' = 0
  /\ UNCHANGED <<disk, faults, answer>>

(* The version opkg_upgrade_pkg would install for old, or None.              *)
UpgradeTo(old) ==
  Latest({new \in {BestByName(db, NameOf(old))} \ {None} :
            "hold" \notin db.flags[old] /\ Newer[old][new] < 0})

(* A command of one argument after the other: whether one failed is in err.  *)
Err == IF ret = 0 THEN Top.err ELSE -1
Rest == [Top EXCEPT !.todo = Tail(@), !.err = Err]
Install(new, old) ==
  /\ Call(Frame("install", new), Rest)
  /\ db' = [db EXCEPT !.flags[new] = @ \cup {"user"},
                      !.want = [p \in Pkg |-> IF p = old THEN "deinstall" ELSE @[p]]]

(* opkg_install_by_name, and opkg_upgrade_pkg for what is installed.         *)
CmdInstall ==
  /\ At("cmd", "start") /\ run.kind \in {"install", "upgrade"} /\ Top.todo # <<>>
  /\ \E old \in {InstalledByName(db, Head(Top.todo))} :
     LET upgrades == run.kind = "upgrade" /\ old # None
     IN  \E new \in {IF upgrades THEN UpgradeTo(old) ELSE BestByName(db, Head(Top.todo))} :
         IF new = None
         THEN Goto(Rest) /\ ret' = (IF upgrades THEN 0 ELSE -1) /\ UNCHANGED db
         ELSE IF old # None /\ Newer[old][new] >= 0
         THEN Goto(Rest) /\ ret' = 0 /\ db' = [db EXCEPT !.flags[new] = @ \cup {"user"}]
         ELSE Install(new, old) /\ ret' = 0
  /\ UNCHANGED <<disk, run, faults, hist, ncommands, answer>>

CmdRemove ==
  /\ At("cmd", "start") /\ run.kind = "remove" /\ Top.todo # <<>>
  /\ LET p == InstalledIn(db, Records(db, Head(Top.todo)))
     IN  IF p = None THEN Goto(Rest) ELSE Call(Frame("remove", p), Rest)
  /\ ret' = 0
  /\ UNCHANGED <<disk, db, run, faults, hist, ncommands, answer>>

(* opkg_flag_cmd: hold takes the place of all other flags; unpacked is a     *)
(* status.                                                                   *)
CmdFlag ==
  /\ At("cmd", "start") /\ run.kind = "flag" /\ Top.todo # <<>>
  /\ \E p \in {InstalledByName(db, Head(Top.todo))} :
         IF p = None THEN UNCHANGED <<db, run>>
         ELSE /\ db' = IF Option("hold") THEN [db EXCEPT !.flags[p] = {"hold"}]
                       ELSE [db EXCEPT !.status[p] = "unpacked"]
              /\ run' = [run EXCEPT !.changed = TRUE]
  /\ Goto(Rest)
  /\ UNCHANGED <<disk, ret, faults, hist, ncommands, answer>>

CmdConfigure ==
  /\ At("cmd", "start") /\ run.kind \in {"install", "upgrade", "configure"} /\ Top.todo = <<>>
  /\ Goto([Top EXCEPT !.op = "configure", !.pc = "loop", !.todo = InOrder(db)])
  /\ ret' = Err
  /\ UNCHANGED <<disk, db, run, faults, hist, ncommands, answer>>

CmdSave ==
  /\ At("cmd", "start") /\ run.kind \in {"remove", "flag"} /\ Top.todo = <<>>
  /\ Goto(Frame("save", None))
  /\ ret' = Err
  /\ UNCHANGED <<disk, db, run, faults, hist, ncommands, answer>>

-----------------------------------------------------------------------------

(* A call that fails returns with nothing saved.                             *)
GiveUp == Goto([Top EXCEPT !.pc = "fails"]) /\ UNCHANGED <<db, ret>>

(* opkg_install_package downloads the dependencies, and then takes back the  *)
(* marks of the check.                                                       *)
LibInstall ==
  /\ At("cmd", "start") /\ run.kind = "opkg_install_package"
  /\ \E new \in {BestByName(db, Head(Top.todo))} :
         IF new = None \/ InstalledByName(db, Head(Top.todo)) # None
         THEN GiveUp /\ UNCHANGED faults
         ELSE \E deps \in {Unsatisfied(db, new)}, fails \in BOOLEAN :
              LET wanted == Range(deps.vec) \cup {new}
              IN  IF deps.lost \/ ~(wanted \subseteq Feed)
                  THEN ~fails /\ GiveUp /\ UNCHANGED faults
                  ELSE /\ Fault(fails)
                       /\ IF fails THEN GiveUp
                          ELSE /\ db' = [db EXCEPT !.flags[new] = @ \cup {"user"},
                                   !.archive = [p \in Pkg |-> IF p \in wanted THEN "whole" ELSE @[p]]]
                               /\ Call(Frame("install", new), [Top EXCEPT !.pc = "configure"])
                               /\ UNCHANGED ret
  /\ UNCHANGED <<disk, run, hist, ncommands, answer>>

LibRemove ==
  /\ At("cmd", "start") /\ run.kind = "opkg_remove_package"
  /\ LET p == InstalledByName(db, Head(Top.todo))
     IN  IF p = None THEN GiveUp
         ELSE Call(Frame("remove", p), [Top EXCEPT !.pc = "save"]) /\ UNCHANGED <<db, ret>>
  /\ UNCHANGED <<disk, run, faults, hist, ncommands, answer>>

LibUpgrade ==
  /\ At("cmd", "start") /\ run.kind = "opkg_upgrade_package"
  /\ LET old == InstalledByName(db, Head(Top.todo))
     IN  IF old = None THEN GiveUp
         ELSE Goto([Top EXCEPT !.pc = "all", !.todo = <<old>>]) /\ UNCHANGED <<db, ret>>
  /\ UNCHANGED <<disk, run, faults, hist, ncommands, answer>>

LibUpgradeAll ==
  /\ At("cmd", "start") /\ run.kind = "opkg_upgrade_all"
  /\ Goto([Top EXCEPT !.pc = "all", !.todo = Sorted(AllInstalled(db))])
  /\ UNCHANGED <<disk, db, ret, run, faults, hist, ncommands, answer>>

LibUpgradeNext ==
  /\ At("cmd", "all")
  /\ IF Top.todo = <<>>
     THEN Goto([Top EXCEPT !.pc = "configure"]) /\ ret' = Err /\ UNCHANGED db
     ELSE \E new \in {UpgradeTo(Head(Top.todo))} :
              /\ IF new = None THEN Goto(Rest) /\ UNCHANGED db ELSE Install(new, Head(Top.todo))
              /\ ret' = 0
  /\ UNCHANGED <<disk, run, faults, hist, ncommands, answer>>

(* The library configures in the order of the hash table; Sorted is one.     *)
LibConfigure ==
  /\ At("cmd", "configure")
  /\ IF ret # 0 THEN GiveUp
     ELSE /\ Goto([Top EXCEPT !.op = "configure", !.pc = "loop", !.todo = Sorted(db.known)])
          /\ UNCHANGED <<db, ret>>
  /\ UNCHANGED <<disk, run, faults, hist, ncommands, answer>>

LibSave ==
  /\ At("cmd", "save")
  /\ Goto(Frame("save", None))
  /\ UNCHANGED <<disk, db, ret, run, faults, hist, ncommands, answer>>

-----------------------------------------------------------------------------
(* A mutant: a package that is done is queued again.                         *)
Later_Again(todo) ==
  IF db.status[Head(todo)] = "installed" THEN Append(Tail(todo), Head(todo)) ELSE Tail(todo)

(* opkg_configure: the postinst script.                                      *)
OpkgConfigure(p, fails) == Script(p, fails)

(* opkg_configure_packages: what is unpacked and whose postinst succeeds.    *)
Later(todo) == Tail(todo)

Configure ==
  /\ At("configure", "loop") /\ Top.todo # <<>>
  /\ Goto([Top EXCEPT !.todo = Later(@)])
  /\ LET p == Head(Top.todo)
     IN  IF db.status[p] # "unpacked" THEN UNCHANGED <<db, ret, run, faults>>
         ELSE \E fails \in BOOLEAN :
                /\ OpkgConfigure(p, fails)
                /\ IF fails THEN ret' = -1 /\ UNCHANGED <<db, run>>
                   ELSE /\ db' = SetStatus(db, p, "installed")
                        /\ run' = [run EXCEPT !.changed = TRUE]
                        /\ UNCHANGED ret
  /\ UNCHANGED <<disk, hist, ncommands, answer>>

ConfigureEnd ==
  /\ At("configure", "loop") /\ Top.todo = <<>>
  /\ IF run.kind \in Calls /\ ret # 0 THEN Goto([Top EXCEPT !.op = "cmd", !.pc = "fails"])
     ELSE Goto(Frame("save", None))
  /\ UNCHANGED <<disk, db, ret, run, faults, hist, ncommands, answer>>

-----------------------------------------------------------------------------
(* write_status_files_if_changed, or a call that saves in any case: the      *)
(* status file is emptied, then written in place, then each file list that   *)
(* changed.  Each of these may fail, and nobody looks at what they return:   *)
(* the command goes on and ends as if it had saved.                          *)
ToLists ==
  Goto([Top EXCEPT !.pc = "lists",
                   !.left = {p \in AllInstalled(db) : "changed" \in db.flags[p]}])
Unnoticed(fails) == Fault(fails) /\ hist' = [hist EXCEPT !.lost = @ \/ fails]

SaveOpen ==
  /\ At("save", "start") /\ (run.changed \/ run.kind \in Calls)
  /\ \E fails \in BOOLEAN :
       /\ Unnoticed(fails)
       /\ IF fails THEN ToLists /\ UNCHANGED stat
          ELSE Go("write") /\ stat' = [p \in Pkg |-> None]
  /\ UNCHANGED <<content, backup, list, db, ret, run, ncommands, answer>>

(* The first parts of a status file: Sorted stands for the order of the hash *)
(* table.                                                                    *)
FirstParts ==
  {[p \in Pkg |-> IF p \in Range(SubSeq(Sorted(AllInstalled(db)), 1, n)) THEN Printed(db, p)
                  ELSE None] : n \in 0..Cardinality(AllInstalled(db))}

SaveWrite ==
  /\ At("save", "write")
  /\ \E fails \in BOOLEAN :
       /\ Unnoticed(fails)
       /\ stat' \in IF fails THEN FirstParts ELSE {[p \in Pkg |-> Printed(db, p)]}
  /\ ToLists
  /\ UNCHANGED <<content, backup, list, db, ret, run, ncommands, answer>>

SaveList ==
  /\ At("save", "lists")
  /\ \E p \in Top.left :
       /\ \/ WriteFilelist(p)
          \/ Unnoticed(TRUE) /\ UNCHANGED <<list, db>>
       /\ Goto([Top EXCEPT !.left = @ \ {p}])
  /\ UNCHANGED <<content, backup, stat, ret, run, ncommands, answer>>

Gone == /\ run' = None /\ stack' = <<>> /\ ret' = 0
        /\ db' = Load({}, [p \in Pkg |-> None])

Exit ==
  /\ \/ At("save", "start") /\ ~(run.changed \/ run.kind \in Calls)
     \/ At("save", "lists") /\ Top.left = {}
     \/ At("cmd", "fails")
  /\ Gone
  /\ hist' = [hist EXCEPT !.failed = @ \/ ret # 0 \/ At("cmd", "fails"),
                          !.unsaved = @ \/ At("cmd", "fails")]
  /\ UNCHANGED <<disk, faults, ncommands, answer>>

(* sigint_handler: saves what the database says at that moment, and exits.   *)
Interrupt ==
  /\ run # None /\ run.handler /\ ~run.blocked
  /\ Fault(TRUE)
  /\ run' = [run EXCEPT !.handler = FALSE]
  /\ stack' = <<Frame("save", None)>>
  /\ hist' = [hist EXCEPT !.failed = TRUE]
  /\ UNCHANGED <<disk, db, ret, ncommands, answer>>

(* A crash while the status file is written leaves its first part.           *)
Crash ==
  /\ run # None
  /\ Fault(TRUE)
  /\ hist' = [hist EXCEPT !.crashed = TRUE]
  /\ stat' \in IF At("save", "write") THEN FirstParts ELSE {stat}
  /\ Gone
  /\ UNCHANGED <<content, backup, list, ncommands, answer>>

(* Between two commands, the user changes a configuration file.              *)
Edit ==
  /\ run = None /\ hist.edits = {} /\ ncommands < MaxCommands
  /\ \E p \in Pkg : \E f \in Info[p].conffiles :
       /\ content[f] = p
       /\ content' = [content EXCEPT ![f] = User]
       /\ hist' = [hist EXCEPT !.edits = {f}]
  /\ UNCHANGED <<backup, list, stat, db, stack, ret, run, faults, ncommands, answer>>

(* opkg_compare_versions_cmd, without epochs and revisions.                  *)
CompareVersions ==
  /\ run = None /\ ncommands = 0 /\ hist.edits = {}
  /\ \A p \in Pkg : stat[p] = None
  /\ \E v, w \in Strings :
       LET Only(s) == [epoch |-> 0, version |-> s, revision |-> <<>>]
       IN  answer' = [it |-> v, ref |-> w, is |-> Sign(Compare(Only(v), Only(w)))]
  /\ ncommands' = MaxCommands
  /\ UNCHANGED vars

(* The bounds are reached: the model has nothing more to do.                 *)
Done == run = None /\ ncommands = MaxCommands /\ UNCHANGED all

Next ==
  \/ (RemoveNext \/ InstallNext) /\ UNCHANGED <<ncommands, answer>>
  \/ CmdInstall \/ CmdRemove \/ CmdFlag \/ CmdConfigure \/ CmdSave
  \/ LibInstall \/ LibRemove \/ LibUpgrade \/ LibUpgradeAll \/ LibUpgradeNext
  \/ LibConfigure \/ LibSave \/ Configure \/ ConfigureEnd
  \/ SaveOpen \/ SaveWrite \/ SaveList \/ Exit
  \/ Start \/ Interrupt \/ Crash \/ Edit \/ CompareVersions \/ Done

(* Weak fairness of Next, written without ENABLED: the process does not stop *)
(* by itself.  Next is enabled as long as there is a command, since the runs *)
(* check that nothing deadlocks, and every step but Done changes something.  *)
(* The faults are bounded, so that the steps are in the end the process's.   *)
Fairness == []<>(run = None) \/ []<><<TRUE>>_all

Spec == Init /\ [][Next]_all /\ Fairness

-----------------------------------------------------------------------------
(* The database, the disk and the counters have their types.                 *)
TypeOK ==
  /\ content \in [File -> Content] /\ backup \in [File -> Content]
  /\ list \in [Name -> {None} \cup SUBSET File]
  /\ stat \in [Pkg -> Entry \cup {None}]
  /\ DOMAIN db = {"known", "copies", "status", "want", "flags", "auto", "abs",
                  "checked", "owner", "obs", "archive", "fetched"}
  /\ db.status \in [Pkg -> Status] /\ db.owner \in [File -> Pkg \cup {None}]
  /\ faults \in 0..MaxFaults /\ ncommands \in 0..MaxCommands

Recorded(p) == stat[p] # None /\ stat[p].status \in Present
FilesOf(n) == IF list[n] = None THEN {} ELSE list[n]

(* Between commands, unless the machine crashed, an upgrade failed after its *)
(* point of no return, the library gave up with nothing saved or the records *)
(* were read or written in part with no caller noticing (lost), only         *)
(* installed packages have a file list (pkg_remove_installed_files_list,     *)
(* pkg_write_filelist). If moreover all commands succeeded, every listed     *)
(* file is there, no file is in two lists and, when nothing was forced, each *)
(* file of an installed package is in one (update_file_ownership), except    *)
(* for packages that replace another one: a file they share with it is in no *)
(* list, since its removal forgets the owner of the file after the new       *)
(* package was made to own what it can.                                      *)
RecordsAgree ==
  run = None /\ ~hist.crashed /\ ~hist.hosed /\ ~hist.unsaved /\ ~hist.lost =>
    /\ \A n \in Name : list[n] # None => \E p \in Pkg : NameOf(p) = n /\ Recorded(p)
    /\ ~hist.failed =>
         /\ \A n \in Name : FilesOf(n) \subseteq {x \in File : content[x] # None}
         /\ \A n, l \in Name : n # l => FilesOf(n) \cap FilesOf(l) = {}
         /\ \A p \in Pkg : Recorded(p) /\ Info[p].replaces = {} /\ ~hist.forced =>
              Info[p].files \subseteq UNION {FilesOf(n) : n \in Name}

(* The status file never records two versions of a package as installed,     *)
(* whatever fails, is interrupted or crashes: opkg_install_pkg takes the old *)
(* one's status back only at its very end.                                   *)
OneVersion ==
  \A p, q \in Pkg : Recorded(p) /\ Recorded(q) /\ NameOf(p) = NameOf(q) => p = q

(* What the user wrote into a conffile is still in the file or in its backup *)
(* after any commands, failures, interrupts and crashes                      *)
(* (backup_modified_conffiles, resolve_conffiles,                            *)
(* remove_data_files_and_list), except where an attempt after an upgrade that*)
(* failed or crashed beyond its point of no return writes a new backup over  *)
(* the one that upgrade made: backup_make_backup does not look for one.      *)
UserEditsSurvive ==
  run = None => \A f \in hist.edits \ hist.again : User \in {content[f], backup[f]}

(* After commands that all succeeded and forced nothing, and that read and   *)
(* wrote all their records (lost says when not), each package has what it    *)
(* depends on, of a version that its lower bounds allow; an upgrade does not *)
(* look at the upper bounds others set.                                      *)
DependenciesHold ==
  run = None /\ ~hist.failed /\ ~hist.crashed /\ ~hist.forced /\ ~hist.lost =>
    \A p \in Pkg : Recorded(p) =>
      \A i \in DOMAIN Info[p].depends :
        Info[p].depends[i].type = "depend" =>
          \E j \in DOMAIN Info[p].depends[i].alts, q \in Pkg :
            LET alt == Info[p].depends[i].alts[j]
            IN  /\ Recorded(q) /\ alt.name \in Provides(q)
                /\ alt.rel \in {"=", ">=", ">>"} => Satisfies(alt, q)

(* An installation that fails before its point of no return, and whose       *)
(* replaced packages could be installed again, leaves every file and backup  *)
(* as it found them (the UNWIND labels of opkg_install_pkg).                 *)
UnwindRestores ==
  At("install", "unwind") /\ Top.todo = <<>> /\ ret = 0 => Top.was = <<content, backup>>

(* pkg_compare_versions orders the strings as their numbers, texts and       *)
(* tildes do.                                                                *)
VersionOrder == answer # None => answer.is = Reference(answer.it, answer.ref)

(* A file that a package brought is only ever deleted on behalf of a package *)
(* of the same name, whoever else had it or lists it, unless a crash or a    *)
(* save whose failure nobody noticed lost the records                        *)
(* (remove_data_files_and_list, pkg_write_changed_filelists).                *)
RemovesOwn ==
  [][~hist.crashed /\ ~hist.lost => \A f \in File :
       content[f] \in Pkg /\ content'[f] = None => NameOf(content[f]) = NameOf(Top.p)]_all

(* Every command ends, in spite of circular dependencies and of the mutual   *)
(* recursion of installing, removing and unwinding.                          *)
CommandsEnd == run # None ~> run = None
=============================================================================
