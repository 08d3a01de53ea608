---------------------------- MODULE AtomicImage ----------------------------
(***************************************************************************)
(* What mksquashfs promises of an image file.  A run puts in it what it was *)
(* asked for, or leaves what was there: no run ends with a mixture.  While  *)
(* a run writes, the file is not an image; if the run is killed then it is  *)
(* not an image afterwards, and -recover puts back what was there when the  *)
(* run began.  A run that is not killed ends, or hangs for one of the known *)
(* causes.                                                                  *)
(***************************************************************************)
CONSTANTS Absent, Torn, Spoiled   \* what is no image, or not a good one

VARIABLES
  image,    \* Absent, Torn, Spoiled, or the contents of the image file
  mode,     \* "idle", "creating", "appending", "hung" or "recovering"
  before,   \* the contents when the run began
  asked,    \* the contents the run was asked to make
  safe,     \* the run makes a recovery file
  copy      \* the contents that -recover can put back

absvars == <<image, mode, before, asked, safe, copy>>
run == <<mode, before, asked, safe>>

AbsInit == image = Absent /\ mode = "idle" /\ copy = {}

\* What is asked for, and whether a recovery file is made, is for the caller to say.
AbsCreate ==
  /\ mode = "idle" /\ mode' = "creating" /\ image' = Torn /\ copy' = {}
AbsAppend ==
  /\ mode = "idle" /\ mode' = "appending" /\ image \notin {Absent, Torn, Spoiled}
  /\ before' = image /\ UNCHANGED <<image, copy>>
AbsRefuse ==
  /\ mode = "idle" /\ UNCHANGED run
  /\ image' \in {image, Absent} /\ copy' = IF image' = image THEN copy ELSE {}

Keep ==
  /\ mode = "appending" /\ image = before /\ safe
  /\ copy' = copy \cup {before} /\ UNCHANGED <<image, run>>
\* From here a kill leaves no image, and the copy is there if one was wanted.
Tear ==
  /\ mode = "appending" /\ image = before /\ (safe => before \in copy)
  /\ image' = Torn /\ UNCHANGED <<run, copy>>
\* All of what was asked for, or all of what was there.
Commit ==
  /\ mode \in {"creating", "appending"}
  /\ image' \in {asked, Spoiled} \cup (IF mode = "appending" THEN {before} ELSE {})
  /\ copy' \subseteq copy /\ UNCHANGED run
Leave ==
  /\ mode # "idle" /\ mode' = "idle"
  /\ image' \in {image} \cup (IF mode = "creating" THEN {Absent} ELSE {})
  /\ IF image' = Torn THEN copy' = copy ELSE copy' \subseteq copy
Hang ==
  /\ mode = "appending" /\ mode' = "hung" /\ image = Torn
  /\ UNCHANGED <<image, before, asked, safe, copy>>

StartRecovery ==
  /\ mode = "idle" /\ mode' = "recovering" /\ before' \in copy /\ UNCHANGED <<image, copy>>
PutBack ==
  /\ mode = "recovering" /\ copy' = copy
  /\ \/ image' = Torn /\ UNCHANGED run
     \/ image' = before /\ mode' = "idle"

AbsNext ==
  \/ AbsCreate \/ AbsAppend \/ AbsRefuse \/ Keep \/ Tear \/ Commit \/ Leave \/ Hang
  \/ StartRecovery \/ PutBack

AtomicSpec == AbsInit /\ [][AbsNext]_absvars
=============================================================================
