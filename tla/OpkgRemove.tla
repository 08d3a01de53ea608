----------------------------- MODULE OpkgRemove -----------------------------
(* The state of opkg, the calls of its process, and the removal of a package *)
(* (libopkg/opkg_remove.c).  The recursion of the C functions is a stack of  *)
(* frames; ret is what the call that returned last returned.                 *)
EXTENDS OpkgDepends

CONSTANT MaxFaults    \* bounds failures, interrupts and crashes

ASSUME FaultsAssumption == MaxFaults \in Nat

VARIABLES
  content,    \* what each file holds
  backup,     \* what its backup (the name with "-opkg.backup") holds
  list,       \* the .list file of each name
  stat,       \* the status file
  db,         \* the database of the running process
  stack,      \* its calls, the innermost first
  ret,        \* the last returned value
  run,        \* its command, or None
  faults,     \* how many have happened
  hist        \* what happened, for the properties

disk == <<content, backup, list, stat>>
vars == <<content, backup, list, stat, db, stack, ret, run, faults, hist>>

Frame(op, p) == [op |-> op, p |-> p, pc |-> "start", old |-> None,
                 todo |-> <<>>, left |-> {}, rep |-> <<>>, was |-> <<>>, err |-> 0]

Top == Head(stack)
At(op, pc) == stack # <<>> /\ Top.op = op /\ Top.pc = pc
Option(o) == o \in run.opts

Goto(frame) == stack' = <<frame>> \o Tail(stack)
Go(pc) == Goto([Top EXCEPT !.pc = pc])
Call(frame, caller) == stack' = <<frame, caller>> \o Tail(stack)
Return(v) == stack' = Tail(stack) /\ ret' = v

(* Something outside opkg fails, within the bound, or does not.              *)
Fault(fails) ==
  /\ fails => faults < MaxFaults
  /\ faults' = IF fails THEN faults + 1 ELSE faults

(* pkg_run_script: what is not installed has its scripts in the directory    *)
(* its control files were unpacked to, and without one cannot run them.      *)
Script(p, fails) ==
  LET runnable == db.status[p] \in Present \/ p \in db.fetched
  IN  /\ ~runnable => fails
      /\ runnable => Fault(fails)
      /\ ~runnable => UNCHANGED faults

(* pkg_get_installed_files of a package that is not installed: its archive is*)
(* listed into a temporary file.  Without that file the list is empty, which *)
(* no caller can tell from a package with no files; if the archive cannot be *)
(* read there is no list, None.                                              *)
FilesIn(p, seen) ==
  \/ seen = Info[p].files /\ db.archive[p] = "whole" /\ Fault(FALSE)
  \/ seen = {} /\ Fault(TRUE)
  \/ seen = None /\ Fault(db.archive[p] = "whole")
Seen(p) == {Info[p].files, {}, None}

(* The caller goes on with what it was given.                                *)
GoesOnWith(p, seen) == hist' = [hist EXCEPT !.lost = @ \/ seen # Info[p].files]

-----------------------------------------------------------------------------
(* remove_data_files_and_list: files another package has claimed stay, and   *)
(* so do conffiles that are not as the package brought them.                 *)
DataStart ==
  /\ At("data", "start")
  /\ Goto([Top EXCEPT !.pc = "loop",
                      !.left = {f \in Listed(list, Top.p) : db.owner[f] = Top.p}])
  /\ UNCHANGED <<disk, db, ret, run, faults, hist>>

Keeps(p, f) == f \in Info[p].conffiles /\ content[f] # p

DataFile ==
  /\ At("data", "loop")
  /\ \E f \in Top.left :
       /\ Goto([Top EXCEPT !.left = @ \ {f}])
       /\ IF Keeps(Top.p, f) THEN UNCHANGED <<content, db>>
          ELSE /\ content' = [content EXCEPT ![f] = None]
               /\ db' = [db EXCEPT !.owner[f] = None]
  /\ UNCHANGED <<backup, list, stat, ret, run, faults, hist>>

DataEnd ==
  /\ At("data", "loop")
  /\ Top.left = {}
  /\ list' = [list EXCEPT ![NameOf(Top.p)] = None]
  /\ Return(0)
  /\ UNCHANGED <<content, backup, stat, db, run, faults, hist>>

-----------------------------------------------------------------------------
(* A mutant: nobody is asked.                                                *)
HasDependents_Never(p) == FALSE

(* opkg_remove_pkg.                                                          *)
HasDependents(p) ==
  /\ ~Option("force_depends")
  /\ "replace" \notin db.flags[p]
  /\ NDependents(db, p) > 0

(* No caller says that it comes from an upgrade: an essential package is not *)
(* removed for the one that replaces it either.                              *)
Essential(p) == Info[p].essential /\ ~Option("force_removal_of_essential_packages")

RemoveRefused ==
  /\ At("remove", "start")
  /\ \/ Essential(Top.p)
     \/ HasDependents(Top.p) /\ ~Option("force_removal_of_dependents")
  /\ Return(-1)
  /\ UNCHANGED <<disk, db, run, faults, hist>>

(* opkg_remove_dependent_pkgs, unless this name is already being removed.    *)
RemoveStart ==
  /\ At("remove", "start")
  /\ ~Essential(Top.p)
  /\ IF HasDependents(Top.p) /\ db.checked[NameOf(Top.p)] # 2
     THEN LET d == [db EXCEPT !.checked[NameOf(Top.p)] = 2]
              todo == {q \in d.known : /\ NameOf(q) \in Dependents(db, Top.p)
                                       /\ d.checked[NameOf(q)] # 2
                                       /\ d.status[q] = "installed"}
          IN  /\ Option("force_removal_of_dependents")
              /\ db' = d
              /\ Goto([Top EXCEPT !.pc = "dependents", !.todo = Sorted(todo)])
     ELSE /\ HasDependents(Top.p) => Option("force_removal_of_dependents")
          /\ Go("mark")
          /\ UNCHANGED db
  /\ ret' = 0
  /\ UNCHANGED <<disk, run, faults, hist>>

RemoveDependents ==
  /\ At("remove", "dependents")
  /\ IF ret # 0 THEN Return(ret)
     ELSE /\ IF Top.todo = <<>> THEN Go("mark")
             ELSE Call(Frame("remove", Head(Top.todo)), [Top EXCEPT !.todo = Tail(@)])
          /\ UNCHANGED ret
  /\ UNCHANGED <<disk, db, run, faults, hist>>

RemoveMark ==
  /\ At("remove", "mark")
  /\ db' = [db EXCEPT !.flags[Top.p] = @ \cup {"changed"}, !.want[Top.p] = "deinstall"]
  /\ run' = [run EXCEPT !.changed = TRUE]
  /\ \E fails \in BOOLEAN :
       /\ Script(Top.p, fails)
       /\ IF fails /\ ~Option("force_remove")
          THEN Return(-1)
          ELSE Call(Frame("data", Top.p), [Top EXCEPT !.pc = "postrm"]) /\ UNCHANGED ret
  /\ UNCHANGED <<disk, hist>>

SetStatus(d, p, s) == [d EXCEPT !.status[p] = s, !.abs[NameOf(p)] = s]

RemovePostrm ==
  /\ At("remove", "postrm")
  /\ db' = SetStatus(db, Top.p, "not_installed")
  /\ \E fails \in BOOLEAN :
       /\ Script(Top.p, fails)
       /\ Goto([Top EXCEPT !.pc = "auto", !.err = IF fails THEN -1 ELSE 0,
                  !.todo = IF Option("autoremove")
                           THEN Needs[Top.p] ELSE <<>>])
  /\ ret' = 0
  /\ UNCHANGED <<disk, run, hist>>

(* remove_autoinstalled: gives up at the first dependency that is gone.      *)
Orphaned(q, mine) == q \in db.auto /\ NDependents(db, q) = mine

RemoveAuto ==
  /\ At("remove", "auto")
  /\ LET err == IF ret # 0 THEN -1 ELSE Top.err
         next == [Top EXCEPT !.todo = Tail(@), !.err = err]
     IN  IF Top.todo = <<>> THEN Return(err)
         ELSE \E q \in {InstalledByName(db, Head(Top.todo))} :
              IF q = None THEN Return(-1)
              ELSE /\ IF Orphaned(q, 0) THEN Call(Frame("remove", q), next) ELSE Goto(next)
                   /\ ret' = 0
  /\ UNCHANGED <<disk, db, run, faults, hist>>

RemoveNext ==
  \/ DataStart \/ DataFile \/ DataEnd
  \/ RemoveRefused \/ RemoveStart \/ RemoveDependents \/ RemoveMark \/ RemovePostrm
  \/ RemoveAuto
=============================================================================
