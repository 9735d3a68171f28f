----------------------------- MODULE Publication -----------------------------
(***************************************************************************)
(* `clustertool genconfig` (and the regeneration that starts every `talos  *)
(* apply` and `upgrade`): pkg/talosconfig/generate.go renders and          *)
(* validates one file per node and the client's talosconfig in a private   *)
(* directory talos/.generate-*, and publish (documents.go) swaps the       *)
(* result with talos/generated by renames, over the backup                 *)
(* talos/generated.previous.  The process may stop between any two file    *)
(* system calls, and each call may fail.                                   *)
(*                                                                         *)
(* A directory is a record: the generation that wrote it and the files it  *)
(* holds.  Every run ends with the deferred removal of the private         *)
(* directory; after a crash it is left behind and never looked at again.   *)
(***************************************************************************)
EXTENDS Integers, FiniteSets

CONSTANTS
  Nodes,    \* the nodes of the inventory
  MaxRuns   \* bound on the number of generation runs

ASSUME PublicationAssumption ==
  /\ Nodes \subseteq Nat \ {0}
  /\ IsFiniteSet(Nodes)
  /\ MaxRuns \in Nat

Client == 0  \* the talosconfig
Files  == Nodes \cup {Client}
Absent == [gen |-> 0, files |-> {}]

VARIABLES
  generated,    \* talos/generated
  backup,       \* talos/generated.previous
  staged,       \* talos/.generate-*/validated
  hadPrevious,  \* publish's record of having moved talos/generated away
  runs,         \* generation runs so far
  pc

vars == <<generated, backup, staged, hadPrevious, runs, pc>>

Steps == {"render", "check", "save", "install", "restore", "discard"}

(* The process returns, and the private directory is removed with it.        *)
Return ==
  /\ pc' = "idle"
  /\ staged' = Absent
  /\ UNCHANGED <<hadPrevious, runs>>

-----------------------------------------------------------------------------
Begin ==
  /\ pc = "idle"
  /\ runs < MaxRuns
  /\ runs' = runs + 1
  /\ staged' = [gen |-> runs + 1, files |-> {}]
  /\ hadPrevious' = FALSE
  /\ pc' = "render"
  /\ UNCHANGED <<generated, backup>>

(* Patch, validate and check one node's configuration.                       *)
RenderUnderOtherName(n) ==  \* mutant: the file is not named after the node
  /\ pc = "render"
  /\ n \notin staged.files
  /\ staged' = [staged EXCEPT !.files = @ \cup {n + 1}]
  /\ UNCHANGED <<generated, backup, hadPrevious, runs, pc>>
RenderNode(n) ==
  /\ pc = "render"
  /\ n \notin staged.files
  /\ staged' = [staged EXCEPT !.files = @ \cup {n}]
  /\ UNCHANGED <<generated, backup, hadPrevious, runs, pc>>

WriteClientAfterError ==  \* mutant: a node that fails validation is skipped
  /\ pc = "render"
  /\ staged' = [staged EXCEPT !.files = @ \cup {Client}]
  /\ pc' = "check"
  /\ UNCHANGED <<generated, backup, hadPrevious, runs>>
WriteClient ==
  /\ pc = "render"
  /\ Nodes \subseteq staged.files
  /\ staged' = [staged EXCEPT !.files = @ \cup {Client}]
  /\ pc' = "check"
  /\ UNCHANGED <<generated, backup, hadPrevious, runs>>

(* publish, first part: never replace an older backup.                       *)
CheckNothing ==  \* mutant: an older backup is not respected
  /\ pc = "check"
  /\ pc' = "save"
  /\ UNCHANGED <<generated, backup, staged, hadPrevious, runs>>
CheckBackup ==
  /\ pc = "check"
  /\ IF backup = Absent
     THEN pc' = "save" /\ UNCHANGED <<staged, hadPrevious, runs>>
     ELSE Return
  /\ UNCHANGED <<generated, backup>>

RemoveFirst ==  \* mutant: the old files are removed, not moved away
  /\ pc = "save"
  /\ generated' = Absent
  /\ pc' = "install"
  /\ UNCHANGED <<backup, staged, hadPrevious, runs>>
SaveGenerated ==
  /\ pc = "save"
  /\ IF generated = Absent
     THEN UNCHANGED <<generated, backup, hadPrevious>>
     ELSE generated' = Absent /\ backup' = generated /\ hadPrevious' = TRUE
  /\ pc' = "install"
  /\ UNCHANGED <<staged, runs>>

InstallStaged ==
  /\ pc = "install"
  /\ generated' = staged
  /\ IF hadPrevious
     THEN pc' = "discard" /\ staged' = Absent /\ UNCHANGED <<hadPrevious, runs>>
     ELSE Return
  /\ UNCHANGED backup

InstallFails ==
  /\ pc = "install"
  /\ IF hadPrevious
     THEN pc' = "restore" /\ UNCHANGED <<staged, hadPrevious, runs>>
     ELSE Return
  /\ UNCHANGED <<generated, backup>>

Restore ==
  /\ pc = "restore"
  /\ generated' = backup
  /\ backup' = Absent
  /\ Return

(* RemoveAll of the backup: file after file, then the directory.             *)
DiscardFile ==
  /\ pc = "discard"
  /\ \E f \in backup.files : backup' = [backup EXCEPT !.files = @ \ {f}]
  /\ UNCHANGED <<generated, staged, hadPrevious, runs, pc>>

DiscardDirectory ==
  /\ pc = "discard"
  /\ backup.files = {}
  /\ backup' = Absent
  /\ Return
  /\ UNCHANGED generated

(* Any call of the run fails where no reaction is coded, or the process dies. *)
Stops ==
  /\ pc # "idle"
  /\ Return
  /\ UNCHANGED <<generated, backup>>

(* "generation backup exists; inspect it before retrying": the operator puts *)
(* the backup back where nothing was installed, and removes it elsewhere.    *)
InspectBackup ==
  /\ pc = "idle"
  /\ backup # Absent
  /\ generated' = IF generated = Absent THEN backup ELSE generated
  /\ backup' = Absent
  /\ UNCHANGED <<staged, hadPrevious, runs, pc>>

-----------------------------------------------------------------------------
Init ==
  /\ generated = Absent /\ backup = Absent /\ staged = Absent
  /\ hadPrevious = FALSE
  /\ runs = 0
  /\ pc = "idle"

Next ==
  \/ Begin
  \/ (\E n \in Nodes : RenderNode(n)) \/ WriteClient
  \/ CheckBackup \/ SaveGenerated \/ InstallStaged \/ InstallFails \/ Restore
  \/ DiscardFile \/ DiscardDirectory
  \/ Stops
  \/ InspectBackup

Spec == Init /\ [][Next]_vars

-----------------------------------------------------------------------------
(* Every variable keeps to its domain.                                       *)
Directory == [gen : 0..MaxRuns, files : SUBSET Files]

TypeOK ==
  /\ generated \in Directory /\ backup \in Directory /\ staged \in Directory
  /\ hadPrevious \in BOOLEAN
  /\ runs \in 0..MaxRuns
  /\ pc \in {"idle"} \cup Steps

(* "Both validated files are published together": talos/generated is absent  *)
(* or holds every file of one generation, whenever the process stops.        *)
OnlyWholeSets == generated.files = Files \/ generated = Absent

(* A backup with all its files goes away only by being put back, or once a   *)
(* whole younger set is in place: no crash and no failed rename loses both.  *)
BackupGivenUpForYounger ==
  [][backup.files = Files /\ backup' # backup =>
       generated'.files = Files /\ generated'.gen >= backup.gen]_vars

(* The renames implement the replacement of one current set by a younger.    *)
Available == IF generated # Absent THEN generated.gen ELSE backup.gen
Abstract  == INSTANCE ConfigSet WITH Generations <- 0..MaxRuns, current <- Available
ImplementsConfigSet == Abstract!Spec
=============================================================================
