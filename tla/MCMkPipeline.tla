---------------------------- MODULE MCMkPipeline ----------------------------
(***************************************************************************)
(* MkPipeline on source trees in which some of the files are of a certain  *)
(* kind, so that TLC gets to the third file and beyond.                    *)
(***************************************************************************)
EXTENDS MkPipeline

CONSTANTS Plain,         (* files that can be read, of no process and not  *)
                         (* sparse                                         *)
          Tails,         (* files of a tail only, too short for a block    *)
          Short, Long    (* files of one block, and of MaxBlocks           *)

Sources ==
  /\ reader.file \in Plain =>
       /\ reader'.pc # "process"
       /\ \A b \in Range(reader'.held) : b.content.kind # "sparse" /\ b.content.error = 0
  /\ reader'.file \in Short \cup Tails =>
       (reader'.pc = "file" => reader'.blocks = 1) /\ reader'.count <= 1
  /\ reader'.file \in Tails /\ reader'.pc = "file" => reader'.tail
  /\ reader'.file \in Long /\ reader'.pc = "file" => reader'.blocks = MaxBlocks

MCSpec == Init /\ [][Next /\ Sources]_vars
MCFairSpec == MCSpec /\ Fairness
=============================================================================
