----------------------------- MODULE MkRecover -----------------------------
(***************************************************************************)
(* MkAppend with everything that can interrupt it: signals, an error in     *)
(* main or in another thread, a kill; what mksquashfs does about each, and  *)
(* the recovery file it leaves (restorefs, EXIT_MKSQUASHFS,                 *)
(* read_recovery_data).                                                     *)
(***************************************************************************)
EXTENDS MkAppend

Busy == pc \notin {"idle", "hung", "recover1", "recover2"}
Fault == faults < MaxFaults /\ faults' = faults + 1
Creating == saved = NotSaved

\* setjmp has been called: an interrupt may go back to it.
Restorable == ~Creating /\ pc \notin {"recovery", "idle", "hung", "recover1", "recover2"}

\* A command that ends before it changes the image file: a definition that does
\* not fit, an append to an image not whole, or a sort file naming a file of two
\* sources.
Refused ==
  /\ pc = "idle" /\ runs < MaxCommands
  /\ \E c \in Commands[runs + 1] :
       /\ PseudoGood(c) => ~Creates(c) /\ (Ambiguous(c) \/ ~read_super(disk))
       /\ runs' = runs + 1
  /\ UNCHANGED <<disk, recs, pc, memory, flags, hist, faults, spoiled, halfway>>

\* The same sort file when the destination is a new file, which is removed.
RefusedNew ==
  /\ pc = "idle" /\ runs < MaxCommands
  /\ \E c \in Commands[runs + 1] :
       /\ Creates(c) /\ Ambiguous(c) /\ PseudoGood(c)
       /\ runs' = runs + 1
  /\ disk' = NoImage /\ spoiled' = FALSE /\ halfway' = FALSE
  /\ UNCHANGED <<recs, pc, memory, flags, hist, faults>>

(* restorefs, which goes back to setjmp.  It is without effect once the reader *)
(* has removed itself from the thread table, which it does when it has read    *)
(* everything: perhaps during dir_scan3, and surely when main has had it all.  *)
ReaderMayRun == pc \in {"clear", "save", "scan", "scan3"} /\ flags.reader
ReaderMayEnd == pc \notin {"clear", "save", "scan"}

restore_xattrs ==
  [m.xattrs EXCEPT !.cells = SubSeq(@, 1, saved.xattrs.cells), !.ids = SubSeq(@, 1, saved.xattrs.ids)]
\* A restored image lacks the last block of a root directory that ends with its
\* block, which is not saved, and all other blocks of directories if they are not
\* saved yet.
Lacking == saved.full \/ (pc \in {"clear", "save"} /\ OldDirectories # <<>>)
Restored ==
  [m EXCEPT !.bytes = saved.bytes, !.icache = saved.icache, !.dtab = saved.dtab,
            !.itab = SubSeq(@, 1, saved.itab), !.dcache = saved.dcache, !.pend = <<>>,
            !.frags = SubSeq(@, 1, saved.frags), !.ids = SubSeq(@, 1, saved.ids),
            !.xattrs = restore_xattrs, !.count = saved.count]

Restore ==
  /\ ReaderMayRun
  /\ m' = Restored /\ pc' = "fragment"
  /\ spoiled' = (spoiled \/ Lacking)
  /\ stack' = <<>> /\ todo' = <<>>
  /\ UNCHANGED <<disk, recs, cmd, saved, sBlk, tree, done, hist, runs, halfway>>

\* sighandler: the first signal warns, the second restores, the others do nothing.
Interrupt ==
  /\ Fault /\ Restorable /\ flags.interrupted = 0
  /\ flags' = [flags EXCEPT !.interrupted = 1]
  /\ UNCHANGED <<disk, recs, pc, memory, hist, runs, spoiled, halfway>>
InterruptAgain ==
  /\ Fault /\ Restorable /\ flags.interrupted = 1 /\ ~flags.restoring
  /\ flags' = [flags EXCEPT !.interrupted = 2, !.restoring = TRUE]
  /\ Restore
InterruptLost ==
  /\ Fault /\ Restorable /\ flags.interrupted = 1 /\ ReaderMayEnd
  /\ flags' = [flags EXCEPT !.interrupted = 2, !.reader = FALSE]
  /\ UNCHANGED <<disk, recs, pc, memory, hist, runs, spoiled, halfway>>

\* sighandler prints under the mutex that main holds while it moves the
\* progress bar: main waits for itself.
InterruptHangs ==
  /\ Fault /\ Restorable /\ pc = "scan3" /\ todo = <<>> /\ flags.interrupted < 2
  /\ pc' = "hung"
  /\ UNCHANGED <<disk, recs, memory, flags, hist, runs, spoiled, halfway>>

\* A recovery file of which only a part was written.
Truncated == IF pc = "recovery" /\ cmd.recover THEN runs :> RecoveryFile(FALSE) ELSE <<>>

\* EXIT_MKSQUASHFS before setjmp, or while an image is created: sighandler2, an error.
GiveUp ==
  /\ Fault /\ Busy /\ ~Restorable
  /\ disk' = IF Creating THEN NoImage ELSE disk
  /\ recs' = Truncated @@ recs
  /\ Exit /\ UNCHANGED <<runs, spoiled, halfway>>

\* An error in main after setjmp: restored if the reader still runs, unless the
\* error comes while restoring.
Error ==
  /\ Fault /\ Restorable /\ ~flags.restoring
  /\ flags' = [flags EXCEPT !.restoring = TRUE]
  /\ Restore
ErrorExits ==
  /\ Fault /\ Restorable /\ (flags.restoring \/ ReaderMayEnd)
  /\ Exit /\ UNCHANGED <<disk, recs, runs, spoiled, halfway>>

\* An error in another thread: it stops the threads, itself included, and main
\* waits for it for ever.
WorkerError ==
  /\ Fault /\ Restorable /\ pc = "scan3" /\ flags.reader
  /\ flags' = [flags EXCEPT !.restoring = TRUE, !.reader = FALSE]
  /\ pc' = "hung"
  /\ UNCHANGED <<disk, recs, memory, hist, runs, spoiled, halfway>>

(* A kill, or a crash of the machine: the files stay as they are.             *)
Kill ==
  /\ Fault /\ pc # "idle"
  /\ recs' = Truncated @@ recs
  /\ halfway' = (halfway \/ pc = "recover2")
  /\ Exit /\ UNCHANGED <<disk, runs, spoiled>>

(* mksquashfs -recover: the recovery file has to be whole and to have the     *)
(* superblock of the image, the magic number apart; the superblock is written *)
(* first, then the tables.                                                    *)
Matches(r, d) == r.whole /\ [d.super EXCEPT !.magic = TRUE] = r.super

Recover ==
  /\ pc = "idle" /\ disk.exists
  /\ \E n \in DOMAIN recs :
       /\ Matches(recs[n], disk)
       /\ saved' = recs[n] /\ hist' = [before |-> recs[n].of, asked |-> <<>>]
  /\ pc' = "recover1"
  /\ UNCHANGED <<disk, recs, cmd, m, sBlk, tree, stack, todo, done, flags, runs, faults,
                 spoiled, halfway>>
RecoverSuper ==
  /\ pc = "recover1" /\ pc' = "recover2"
  /\ disk' = [disk EXCEPT !.super = saved.super]
  /\ UNCHANGED <<recs, memory, flags, hist, runs, faults, spoiled, halfway>>
RecoverTables ==
  /\ pc = "recover2"
  /\ disk' = [disk EXCEPT !.data = Put(@, saved.super.itab, saved.units)]
  /\ halfway' = FALSE /\ spoiled' = FALSE
  /\ Exit /\ UNCHANGED <<recs, runs, faults>>

RunSteps ==
  \/ WriteRecoveryData \/ ClearMagic \/ SaveDirectories \/ Scan \/ SortedFile
  \/ OldRootEntry \/ LinkEntry \/ FileEntry \/ OtherEntry \/ EnterDir \/ LeaveDir
  \/ LastFragment \/ WriteInodes \/ WriteDirectories \/ WriteFragmentTable
  \/ WriteLookupTable \/ WriteIdTable \/ WriteXattrs \/ WriteSuper \/ UnlinkRecovery
  \/ RecoverSuper \/ RecoverTables

Commanded == Create \/ AppendTo \/ Refused \/ RefusedNew \/ Recover
Faults ==
  \/ Interrupt \/ InterruptAgain \/ InterruptLost \/ InterruptHangs \/ GiveUp \/ Error \/ ErrorExits
  \/ WorkerError \/ Kill

Next == RunSteps \/ Commanded \/ Faults
=============================================================================
