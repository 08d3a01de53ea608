---------------------------- MODULE OpkgInstall ----------------------------
(* The installation of a package and of what it needs, up to its point of no *)
(* return and back from there when something fails (libopkg/opkg_install.c). *)
EXTENDS OpkgRemove

(* satisfy_dependencies_for.                                                 *)
Resolved(r) ==
  LET d == [db EXCEPT !.checked = r.checked]
  IN  IF r.lost /\ ~Option("force_depends")
      THEN db' = d /\ Return(-1)
      ELSE /\ db' = [d EXCEPT !.want = [p \in Pkg |->
                       IF Contains(r.vec, p) THEN "install" ELSE @[p]]]
           /\ Goto([Top EXCEPT !.pc = "loop", !.todo = r.vec])
           /\ ret' = 0

SatisfyStart ==
  /\ At("satisfy", "start")
  /\ \E r \in {Unsatisfied(db, Top.p)} : Resolved(r)
  /\ UNCHANGED <<disk, run, faults, hist>>

SatisfyNext ==
  /\ At("satisfy", "loop")
  /\ IF Top.todo = <<>> THEN Return(0)
     ELSE /\ IF db.status[Head(Top.todo)] \in Present
             THEN Goto([Top EXCEPT !.todo = Tail(@)])
             ELSE Call(Frame("install", Head(Top.todo)), [Top EXCEPT !.pc = "auto"])
          /\ UNCHANGED ret
  /\ UNCHANGED <<disk, db, run, faults, hist>>

SatisfyAuto ==
  /\ At("satisfy", "auto")
  /\ db' = [db EXCEPT !.auto = @ \cup {Head(Top.todo)}]
  /\ IF ret # 0 THEN Return(ret)
     ELSE Goto([Top EXCEPT !.pc = "loop", !.todo = Tail(@)]) /\ UNCHANGED ret
  /\ UNCHANGED <<disk, run, faults, hist>>

-----------------------------------------------------------------------------
(* check_conflicts_for, and opkg_install_check_downgrade without -force-downgrade. *)
HasConflicts(d, p) == ~Option("force_depends") /\ Conflicts(d, p) # {}
Downgrades(p, old) == old # None /\ Newer[old][p] >= 0

(* opkg_install_pkg up to check_conflicts_for.  No caller asks for a package *)
(* that is installed already.                                                *)
InstallStart ==
  /\ At("install", "start")
  /\ \E p \in {Top.p}, old \in {InstalledByName(db, NameOf(Top.p))} :
     LET wanted == [db EXCEPT !.want = [q \in Pkg |-> IF q = p THEN "install"
                                                      ELSE IF q = old THEN "deinstall" ELSE @[q]]]
     IN  IF Downgrades(p, old)
         THEN Return(-1) /\ UNCHANGED db
         ELSE /\ db' = wanted
              /\ IF HasConflicts(wanted, p)
                 THEN Return(-1)
                 ELSE Goto([Top EXCEPT !.pc = "space", !.old = old]) /\ UNCHANGED ret
  /\ UNCHANGED <<disk, run, faults, hist>>

(* A mutant: the old version keeps its files.                                *)
UpdateOwnership_None(d, files, p, old) == d

(* update_file_ownership: the new package takes the files it shares with the *)
(* old one and those nobody owns; what is left of the old one is obsolete.   *)
UpdateOwnership(d, files, p, old) ==
  LET taken == {f \in files : d.owner[f] \in {None, old} \/ f \in d.obs}
      e == SetOwners(d, taken, p)
  IN  IF old = None THEN e
      ELSE [e EXCEPT !.obs = @ \cup {f \in Listed(list, old) : e.owner[f] \in {None, old}}]

(* verify_pkg_installable, on what the file system has left.                 *)
InstallSpace ==
  /\ At("install", "space")
  /\ \E fails \in BOOLEAN :
       /\ Fault(fails)
       /\ IF fails THEN Return(-1) ELSE Go("download") /\ UNCHANGED ret
  /\ UNCHANGED <<disk, db, run, hist>>

(* opkg_download_pkg, for what a feed offers: the archive has its name       *)
(* before it is there, and a later attempt of the process does not download. *)
InstallDownload ==
  /\ At("install", "download")
  /\ \E got \in {"missing", "bad", "whole"} :
       /\ Fault(got # "whole")
       /\ db.archive[Top.p] # "none" \/ Top.p \notin Feed => got = "whole"
       /\ IF db.archive[Top.p] # "none" THEN Go("unpack") /\ UNCHANGED <<db, ret>>
          ELSE IF Top.p \notin Feed THEN Return(-1) /\ UNCHANGED db
          ELSE /\ db' = [db EXCEPT !.archive[Top.p] = got]
               /\ IF got = "missing" THEN Return(-1) ELSE Go("unpack") /\ UNCHANGED ret
  /\ UNCHANGED <<disk, run, hist>>

(* The checksums of the archive, unless it is missing.                       *)
BadChecksum(p) == db.archive[p] = "bad"

(* The checksums are compared, and the control files unpacked unless their   *)
(* directory, which may be all there is, was made by an attempt that failed. *)
InstallUnpack ==
  /\ At("install", "unpack")
  /\ IF BadChecksum(Top.p) THEN Return(-1) /\ UNCHANGED <<db, faults>>
     ELSE IF Top.p \in db.fetched THEN Go("owners") /\ UNCHANGED <<db, ret, faults>>
     ELSE \/ Fault(TRUE) /\ Return(-1) /\ UNCHANGED db
          \/ /\ db' = [db EXCEPT !.fetched = @ \cup {Top.p}]
             /\ \E fails \in BOOLEAN :
                  /\ db.archive[Top.p] = "missing" => fails
                  /\ Fault(fails /\ db.archive[Top.p] # "missing")
                  /\ IF fails THEN Return(-1) ELSE Go("owners") /\ UNCHANGED ret
  /\ UNCHANGED <<disk, run, hist>>

(* An archive that is missing although the control files' directory is there *)
(* is found out here.                                                        *)
InstallOwners ==
  /\ At("install", "owners")
  /\ \E seen \in Seen(Top.p) :
       /\ FilesIn(Top.p, seen)
       /\ IF seen = None THEN Return(-1) /\ UNCHANGED <<db, hist>>
          ELSE /\ db' = UpdateOwnership(db, seen, Top.p, Top.old)
               /\ IF Option("nodeps") THEN Go("replace")
                  ELSE Call(Frame("satisfy", Top.p), [Top EXCEPT !.pc = "deps"])
               /\ GoesOnWith(Top.p, seen)
               /\ UNCHANGED ret
  /\ UNCHANGED <<disk, run>>

(* A circular dependency may have installed it meanwhile.                    *)
InstallDeps ==
  /\ At("install", "deps")
  /\ IF ret # 0 THEN Return(-1)
     ELSE IF db.status[Top.p] = "unpacked" THEN Return(0)
     ELSE Go("replace") /\ UNCHANGED ret
  /\ UNCHANGED <<disk, db, run, faults, hist>>

-----------------------------------------------------------------------------
(* With SIGINT blocked: what the old version needed and nobody else, and     *)
(* what the new package replaces, is removed.                                *)
InstallReplace ==
  /\ At("install", "replace")
  /\ run' = [run EXCEPT !.blocked = TRUE, !.changed = TRUE]
  /\ db' = [db EXCEPT !.flags[Top.p] = @ \cup {"changed"}]
  /\ Goto([Top EXCEPT !.pc = "orphans",
             !.rep = Sorted(Replacees(db, Top.p)),
             !.todo = IF Top.old = None THEN <<>> ELSE Depends[Top.old]])
  /\ UNCHANGED <<disk, ret, faults, hist>>

(* pkg_remove_orphan_dependent: nothing is ever found among the dependencies *)
(* of the new version, since the two depend_t it compares are never the same.*)
InstallOrphans ==
  /\ At("install", "orphans")
  /\ Top.todo # <<>>
  /\ \E q \in {InstalledByName(db, Head(Top.todo))} :
     LET next == [Top EXCEPT !.todo = Tail(@)]
     IN  IF q # None /\ Orphaned(q, 1)
         THEN /\ db' = [db EXCEPT !.flags[q] = @ \cup {"replace"}]
              /\ Call(Frame("remove", q), next)
         ELSE Goto(next) /\ UNCHANGED db
  /\ UNCHANGED <<disk, ret, run, faults, hist>>

InstallOrphansEnd ==
  /\ At("install", "orphans")
  /\ Top.todo = <<>>
  /\ Goto([Top EXCEPT !.pc = "replacees", !.todo = Top.rep, !.was = <<content, backup>>])
  /\ ret' = 0
  /\ UNCHANGED <<disk, db, run, faults, hist>>

Unwind == Goto([Top EXCEPT !.pc = "unwind", !.todo = Top.rep]) /\ ret' = 0

InstallReplacees ==
  /\ At("install", "replacees")
  /\ IF ret # 0 THEN Unwind /\ UNCHANGED db
     ELSE /\ IF Top.todo = <<>> THEN Go("preinst") /\ UNCHANGED db
             ELSE /\ db' = [db EXCEPT !.flags[Head(Top.todo)] = @ \cup {"replace"}]
                  /\ Call(Frame("remove", Head(Top.todo)), [Top EXCEPT !.todo = Tail(@)])
          /\ UNCHANGED ret
  /\ UNCHANGED <<disk, run, faults, hist>>

InstallPreinst ==
  /\ At("install", "preinst")
  /\ \E fails \in BOOLEAN :
       /\ Script(Top.p, fails)
       /\ IF fails THEN Unwind ELSE Go("backup") /\ UNCHANGED ret
  /\ UNCHANGED <<disk, db, run, hist>>

(* backup_modified_conffiles and its unwinding, with no offline root and     *)
(* feeds that name the conffiles.                                            *)
ConffilesOf(p) == IF p = None THEN {} ELSE Info[p].conffiles

(* A mutant: what the user changed in the old version's is not saved.        *)
ToBackUp_NewOnly(p, old) ==
  {f \in ConffilesOf(p) \ ConffilesOf(old) : content[f] # None /\ backup[f] = None}

ToBackUp(p, old) ==
  {f \in ConffilesOf(old) : content[f] \notin {None, old}} \cup
  {f \in ConffilesOf(p) \ ConffilesOf(old) : content[f] # None /\ backup[f] = None}

(* For the properties: the backups that an attempt after one that was hosed  *)
(* or crashed takes again, of what that one had put in place.                *)
Overwritten(B) == {f \in B : (hist.hosed \/ hist.crashed) /\ backup[f] # None}

InstallBackup ==
  /\ At("install", "backup")
  /\ LET B == ToBackUp(Top.p, Top.old)
     IN  \E fails \in BOOLEAN :
           /\ Fault(fails)
           /\ fails => B # {}
           /\ IF fails THEN Go("unbackup") /\ UNCHANGED backup
              ELSE /\ backup' = [f \in File |-> IF f \in B THEN content[f] ELSE backup[f]]
                   /\ Go("clashes")
           /\ hist' = [hist EXCEPT !.again = IF fails THEN @ ELSE @ \cup Overwritten(B)]
  /\ UNCHANGED <<content, list, stat, db, ret, run>>

(* A mutant: the backups stay.                                              *)
ToUnwind_None(p, old) == {}

ToUnwind(p, old) == ConffilesOf(p) \cup ConffilesOf(old)

InstallUnbackup ==
  /\ At("install", "unbackup")
  /\ backup' = [f \in File |-> IF f \in ToUnwind(Top.p, Top.old) THEN None ELSE backup[f]]
  /\ Unwind
  /\ UNCHANGED <<content, list, stat, db, run, faults, hist>>

(* check_data_file_clashes.                                                  *)
Clashes(files, p) ==
  {f \in files :
     LET holder == db.owner[f]
     IN  /\ content[f] # None /\ backup[f] = None /\ f \notin db.obs
         /\ holder # None => NameOf(holder) # NameOf(p) /\ ~PkgReplaces(p, holder)}

InstallClashes ==
  /\ At("install", "clashes")
  /\ \E seen \in Seen(Top.p) :
       /\ FilesIn(Top.p, seen)
       /\ IF seen = None THEN Go("unbackup") /\ UNCHANGED <<db, hist>>
          ELSE /\ GoesOnWith(Top.p, seen)
               /\ IF Option("force_overwrite")
                  THEN /\ db' = SetOwners(db, {f \in seen : content[f] # None /\ backup[f] = None},
                                          Top.p)
                       /\ Go("commit")
                  ELSE /\ Go(IF Clashes(seen, Top.p) = {} THEN "commit" ELSE "unbackup")
                       /\ UNCHANGED db
  /\ UNCHANGED <<disk, ret, run>>

(* The replaced packages are installed again, and the call fails.            *)
InstallUnwind ==
  /\ At("install", "unwind")
  /\ IF ret # 0 \/ Top.todo = <<>>
     THEN Return(-1) /\ run' = [run EXCEPT !.blocked = FALSE]
     ELSE /\ LET next == [Top EXCEPT !.todo = Tail(@)]
             IN  IF db.status[Head(Top.todo)] = "installed" THEN Goto(next)
                 ELSE Call(Frame("install", Head(Top.todo)), next)
          /\ UNCHANGED <<ret, run>>
  /\ UNCHANGED <<disk, db, faults, hist>>

-----------------------------------------------------------------------------
(* After the point of no return.  remove_obsolesced_files removes files that *)
(* only the old version has, conffiles too; if it fails, they stay.          *)
Obsolete(seen, old) ==
  IF seen = None THEN {} ELSE {f \in Listed(list, old) \ seen : db.owner[f] = old}

InstallCommit ==
  /\ At("install", "commit")
  /\ IF Top.old = None THEN Go("scripts") /\ UNCHANGED <<content, db, faults, hist>>
     ELSE /\ db' = [db EXCEPT !.want[Top.old] = "deinstall"]
          /\ \E seen \in Seen(Top.p) :
               /\ FilesIn(Top.p, seen)
               /\ GoesOnWith(Top.p, seen)
               /\ content' = [f \in File |-> IF f \in Obsolete(seen, Top.old) THEN None
                                             ELSE content[f]]
          /\ Call(Frame("data", Top.old), [Top EXCEPT !.pc = "scripts"])
  /\ UNCHANGED <<backup, list, stat, ret, run>>

Hosed ==
  /\ Return(-1)
  /\ run' = [run EXCEPT !.blocked = FALSE]
  /\ hist' = [hist EXCEPT !.hosed = TRUE]

InstallScripts ==
  /\ At("install", "scripts")
  /\ \E fails \in BOOLEAN :
       /\ Fault(fails)
       /\ IF fails THEN Hosed
          ELSE /\ Goto([Top EXCEPT !.pc = "extract", !.left = Info[Top.p].files])
               /\ UNCHANGED <<ret, run, hist>>
  /\ UNCHANGED <<disk, db>>

(* pkg_extract_data_files_to_dir.                                            *)
InstallFile ==
  /\ At("install", "extract")
  /\ \E f \in Top.left, fails \in BOOLEAN :
       /\ Fault(fails)
       /\ IF fails THEN Hosed /\ UNCHANGED content
          ELSE /\ content' = [content EXCEPT ![f] = Top.p]
               /\ Goto([Top EXCEPT !.left = @ \ {f}])
               /\ UNCHANGED <<ret, run, hist>>
  /\ UNCHANGED <<backup, list, stat, db>>

(* pkg_write_filelist, once the list is open: nobody looks at what fclose    *)
(* says, so that a full file system leaves any part of it.                   *)
Owned(d, p) == {f \in File : d.owner[f] = p}

WriteFilelist(p) ==
  /\ \E kept \in SUBSET Owned(db, p) :
       /\ Fault(kept # Owned(db, p))
       /\ list' = [list EXCEPT ![NameOf(p)] = kept]
       /\ hist' = [hist EXCEPT !.lost = @ \/ kept # Owned(db, p)]
  /\ db' = [db EXCEPT !.flags[p] = @ \ {"changed"}]

InstallList ==
  /\ At("install", "extract")
  /\ Top.left = {}
  /\ \/ WriteFilelist(Top.p) /\ Go("claim") /\ UNCHANGED <<ret, run>>
     \/ Fault(TRUE) /\ Hosed /\ UNCHANGED <<list, db>>
  /\ UNCHANGED <<content, backup, stat>>

(* check_data_file_clashes_change, whose failure is only reported.           *)
Claimed(seen, p) ==
  IF seen = None THEN {}
  ELSE {f \in seen : /\ content[f] # None
                     /\ \/ Option("force_overwrite")
                        \/ db.owner[f] # None /\ PkgReplaces(p, db.owner[f])}

InstallClaim ==
  /\ At("install", "claim")
  /\ \E seen \in Seen(Top.p) :
       /\ FilesIn(Top.p, seen)
       /\ GoesOnWith(Top.p, seen)
       /\ db' = SetOwners(db, Claimed(seen, Top.p), Top.p)
  /\ Go("resolve")
  /\ UNCHANGED <<disk, ret, run>>

(* resolve_conffiles, in two steps: a conffile whose backup is not what the  *)
(* package brings is moved aside, and then the backup takes its place.       *)
Restored(p) ==
  {f \in Info[p].conffiles : /\ content[f] # None
                             /\ backup[f] \notin {None, p}
                             /\ ~Option("force_maintainer")}

InstallResolve ==
  /\ At("install", "resolve")
  /\ LET R == Restored(Top.p)
     IN  /\ content' = [f \in File |-> IF f \in R THEN None ELSE content[f]]
         /\ backup' = [f \in File |-> IF f \in Info[Top.p].conffiles \ R /\ content[f] # None
                                      THEN None ELSE backup[f]]
         /\ Goto([Top EXCEPT !.pc = "finish", !.left = R])
  /\ UNCHANGED <<list, stat, db, ret, run, faults, hist>>

(* A mutant: the old version keeps its status.                               *)
Finished_OldStays(d, p, old) == SetStatus(d, p, "unpacked")

Finished(d, p, old) ==
  LET e == SetStatus(d, p, "unpacked")
  IN  IF old = None THEN e ELSE [e EXCEPT !.status[old] = "not_installed"]

InstallFinish ==
  /\ At("install", "finish")
  /\ content' = [f \in File |-> IF f \in Top.left THEN backup[f] ELSE content[f]]
  /\ backup' = [f \in File |-> IF f \in Top.left THEN None ELSE backup[f]]
  /\ db' = Finished(db, Top.p, Top.old)
  /\ run' = [run EXCEPT !.blocked = FALSE]
  /\ Return(0)
  /\ UNCHANGED <<list, stat, faults, hist>>

InstallNext ==
  \/ SatisfyStart \/ SatisfyNext \/ SatisfyAuto
  \/ InstallStart \/ InstallSpace \/ InstallDownload \/ InstallUnpack
  \/ InstallOwners \/ InstallDeps
  \/ InstallReplace \/ InstallOrphans \/ InstallOrphansEnd \/ InstallReplacees
  \/ InstallPreinst \/ InstallBackup \/ InstallUnbackup \/ InstallClashes \/ InstallUnwind
  \/ InstallCommit \/ InstallScripts \/ InstallFile \/ InstallList \/ InstallClaim
  \/ InstallResolve \/ InstallFinish
=============================================================================
