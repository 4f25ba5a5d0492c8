------------------------------ MODULE Pregenerate ------------------------------
(***************************************************************************)
(* colab/09_batch_pregenerate.py: a job that may run for days and be       *)
(* killed at any moment, which fills a matrix of cells (a persona and a    *)
(* prompt) with a portrait and, where the prompt asks for it, a scene, and *)
(* notes them in manifest.json.  A later start finds what the disk kept.   *)
(***************************************************************************)
EXTENDS Naturals, FiniteSets

CONSTANTS
  Cells,        \* cells of the matrices, run in order
  WithScene,    \* those of them whose prompt has generate_scene
  MaxStarts     \* bound: how often the job is started

ASSUME CellsAssumption == Cells \in Nat \ {0} /\ WithScene \subseteq 1..Cells

VARIABLES
  files,     \* per output: it is no file, a torn one, or whole
  saved,     \* manifest.json: [file, lists]
  job,       \* [step, cell, manifest]: the process
  starts,
  made       \* history, per output: how often it was made whole

batchVars == <<files, saved, job, starts, made>>

Portrait(c) == <<c, "portrait">>
Scene(c) == <<c, "scene">>
Outputs == {Portrait(c) : c \in 1..Cells} \cup {Scene(c) : c \in WithScene}
NoJob == [step |-> "down", cell |-> 1, manifest |-> {}]

BatchInit ==
  /\ files = [o \in Outputs |-> "none"]
  /\ saved = [file |-> "none", lists |-> {}]
  /\ job = NoJob /\ starts = 0
  /\ made = [o \in Outputs |-> 0]

Exists(output) == files[output] # "none"

At(step) == job' = [job EXCEPT !.step = step]
Noted(output, step) == job' = [job EXCEPT !.step = step, !.manifest = @ \cup {output}]
AfterPortrait == IF job.cell \in WithScene THEN "scene" ELSE "saving"

\* json.load throws on a torn manifest, and the job ends there.
Start ==
  /\ job.step \in {"down", "complete", "refused"} /\ starts < MaxStarts
  /\ starts' = starts + 1
  /\ job' = IF saved.file = "torn" THEN [NoJob EXCEPT !.step = "refused"]
            ELSE [step |-> "portrait", cell |-> 1, manifest |-> saved.lists]
  /\ UNCHANGED <<files, saved, made>>

\* generate_portrait.
SkipPortrait ==
  /\ job.step = "portrait" /\ Exists(Portrait(job.cell))
  /\ Noted(Portrait(job.cell), AfterPortrait)
  /\ UNCHANGED <<files, saved, starts, made>>

OpenPortrait ==
  /\ job.step = "portrait" /\ ~Exists(Portrait(job.cell))
  /\ files' = [files EXCEPT ![Portrait(job.cell)] = "torn"]
  /\ At("painting")
  /\ UNCHANGED <<saved, starts, made>>

Finished(output) ==
  /\ files' = [files EXCEPT ![output] = "whole"]
  /\ made' = [made EXCEPT ![output] = @ + 1]

ClosePortrait ==
  /\ job.step = "painting"
  /\ Finished(Portrait(job.cell))
  /\ Noted(Portrait(job.cell), AfterPortrait)
  /\ UNCHANGED <<saved, starts>>

\* generate_scene: LingBot's process opens the file, or ends without one.
SkipScene ==
  /\ job.step = "scene" /\ Exists(Scene(job.cell))
  /\ Noted(Scene(job.cell), "saving")
  /\ UNCHANGED <<files, saved, starts, made>>

OpenScene ==
  /\ job.step = "scene" /\ ~Exists(Scene(job.cell))
  /\ files' = [files EXCEPT ![Scene(job.cell)] = "torn"]
  /\ At("filming")
  /\ UNCHANGED <<saved, starts, made>>

CloseScene ==
  /\ job.step = "filming"
  /\ Finished(Scene(job.cell))
  /\ Noted(Scene(job.cell), "saving")
  /\ UNCHANGED <<saved, starts>>

\* What a process that failed left behind is noted too, for it is a file.
SceneFails ==
  \/ /\ job.step = "filming" /\ Noted(Scene(job.cell), "saving")
     /\ UNCHANGED <<files, saved, starts, made>>
  \/ /\ job.step = "scene" /\ ~Exists(Scene(job.cell)) /\ At("saving")
     /\ UNCHANGED <<files, saved, starts, made>>

\* The manifest is written after every cell, over the one before.
OpenManifest ==
  /\ job.step = "saving"
  /\ saved' = [file |-> "torn", lists |-> {}]
  /\ At("dumping")
  /\ UNCHANGED <<files, starts, made>>

CloseManifest ==
  /\ job.step = "dumping"
  /\ saved' = [file |-> "whole", lists |-> job.manifest]
  /\ job' = IF job.cell = Cells THEN [job EXCEPT !.step = "complete"]
            ELSE [job EXCEPT !.step = "portrait", !.cell = @ + 1]
  /\ UNCHANGED <<files, starts, made>>

\* The session ends, or something throws that nobody catches.
Dies ==
  /\ job.step \notin {"down", "complete", "refused"}
  /\ job' = NoJob
  /\ UNCHANGED <<files, saved, starts, made>>

BatchNext ==
  \/ Start \/ SkipPortrait \/ OpenPortrait \/ ClosePortrait
  \/ SkipScene \/ OpenScene \/ CloseScene \/ SceneFails
  \/ OpenManifest \/ CloseManifest \/ Dies

BatchSpec == BatchInit /\ [][BatchNext]_batchVars

-----------------------------------------------------------------------------
(* Properties. *)

\* However often the job is killed and started, what was made is not made again
\* ("won't be redone"), a manifest lists nothing that is not there, and that of a
\* job that came to its end lists every portrait.
WorkIsKept ==
  /\ \A o \in Outputs : made[o] <= 1
  /\ \A o \in saved.lists \cup job.manifest : files[o] # "none"
  /\ job.step = "complete" => \A c \in 1..Cells : Portrait(c) \in saved.lists

\* "If a session dies partway through, just run it again": no start is refused,
\* and one that comes to its end has every portrait.
ResumesAfterCrash ==
  /\ job.step # "refused"
  /\ job.step = "complete" => \A c \in 1..Cells : files[Portrait(c)] = "whole"
=============================================================================
