-------------------------- MODULE Publication_proofs --------------------------
(***************************************************************************)
(* Publication never loses or mixes the generated configuration, for every *)
(* inventory and every number of runs, and implements ConfigSet.           *)
(***************************************************************************)
EXTENDS Publication, TLAPS

(* What is on disk: talos/generated is whole; a backup beside it is older,   *)
(* a backup without it is whole.                                             *)
DiskInv ==
  /\ generated = Absent \/ (generated.files = Files /\ generated.gen > 0)
  /\ backup = Absent \/ backup.gen > 0
  /\ generated = Absent /\ backup # Absent => backup.files = Files
  /\ generated # Absent => backup.gen < generated.gen
  /\ generated.gen <= runs /\ backup.gen <= runs

(* What the run has staged is younger than what is on disk, and whole from   *)
(* the moment it is published.                                               *)
StagedInv ==
  /\ pc \in {"render", "check", "save", "install", "restore"} =>
       /\ staged.gen = runs /\ runs > 0
       /\ generated.gen < runs /\ backup.gen < runs
  /\ pc \in {"check", "save", "install", "restore"} => staged.files = Files

(* Where publish stands between its renames.                                 *)
PublishInv ==
  /\ pc = "save" => backup = Absent
  /\ pc \in {"install", "restore"} => generated = Absent
  /\ pc \in {"render", "check", "save"} => ~hadPrevious
  /\ pc = "install" => (hadPrevious <=> backup # Absent)
  /\ pc = "restore" => backup # Absent
  /\ pc = "discard" => generated # Absent /\ backup # Absent

IInv == TypeOK /\ DiskInv /\ StagedInv /\ PublishInv

-----------------------------------------------------------------------------
LEMMA AbsentIsEmpty ==
  /\ Absent \in Directory
  /\ Absent.files # Files
  /\ Absent.gen = 0
BY PublicationAssumption DEF Absent, Directory, Files, Client

LEMMA InitIInv == Init => IInv
<1> SUFFICES ASSUME Init PROVE IInv OBVIOUS
<1> USE AbsentIsEmpty, PublicationAssumption DEF Init
<1>1. TypeOK
  <2>1. hadPrevious \in BOOLEAN BY Zenon
  <2>2. runs \in 0..MaxRuns OBVIOUS
  <2> QED BY <2>1, <2>2 DEF TypeOK
<1>2. DiskInv BY DEF DiskInv
<1>3. StagedInv BY DEF StagedInv
<1>4. PublishInv BY DEF PublishInv
<1> QED BY <1>1, <1>2, <1>3, <1>4 DEF IInv

(* The steps that build the staged set leave the disk alone.                 *)
LEMMA RenderSteps ==
  ASSUME IInv, Begin \/ (\E n \in Nodes : RenderNode(n)) \/ WriteClient \/ CheckBackup \/ Stops
  PROVE  IInv'
<1> USE DEF IInv, TypeOK, DiskInv, StagedInv, PublishInv, Steps
<1>1. CASE Begin
  <2> USE <1>1, AbsentIsEmpty, PublicationAssumption DEF Begin, Directory
  <2>1. TypeOK'
    <3>1. hadPrevious' \in BOOLEAN BY Zenon
    <3>2. staged' \in Directory /\ runs' \in 0..MaxRuns OBVIOUS
    <3> QED BY <3>1, <3>2
  <2>2. DiskInv' OBVIOUS
  <2>3. StagedInv' OBVIOUS
  <2>4. PublishInv' OBVIOUS
  <2> QED BY <2>1, <2>2, <2>3, <2>4
<1>2. ASSUME NEW n \in Nodes, RenderNode(n) PROVE IInv'
  BY <1>2 DEF RenderNode, Directory, Files
<1>3. CASE WriteClient
  <2>1. staged'.files = Files
    BY <1>3 DEF WriteClient, Directory, Files
  <2>2. staged' \in Directory /\ staged'.gen = staged.gen
    BY <1>3 DEF WriteClient, Directory, Files
  <2> QED BY <1>3, <2>1, <2>2 DEF WriteClient
<1>4. CASE CheckBackup
  BY <1>4, AbsentIsEmpty DEF CheckBackup, Return
<1>5. CASE Stops
  BY <1>5, AbsentIsEmpty DEF Stops, Return
<1> QED BY <1>1, <1>2, <1>3, <1>4, <1>5

LEMMA RenameSteps ==
  ASSUME IInv, SaveGenerated \/ InstallStaged \/ InstallFails \/ Restore
  PROVE  IInv'
<1> USE AbsentIsEmpty DEF IInv, TypeOK, DiskInv, StagedInv, PublishInv, Steps
<1>1. CASE SaveGenerated
  BY <1>1 DEF SaveGenerated, Directory
<1>2. CASE InstallStaged
  BY <1>2 DEF InstallStaged, Return, Directory
<1>3. CASE InstallFails
  BY <1>3 DEF InstallFails, Return
<1>4. CASE Restore
  BY <1>4 DEF Restore, Return, Directory
<1> QED BY <1>1, <1>2, <1>3, <1>4

LEMMA BackupSteps ==
  ASSUME IInv, DiscardFile \/ DiscardDirectory \/ InspectBackup
  PROVE  IInv'
<1> USE AbsentIsEmpty DEF IInv, TypeOK, DiskInv, StagedInv, PublishInv, Steps
<1>1. CASE DiscardFile
  <2>1. PICK f \in backup.files : backup' = [backup EXCEPT !.files = @ \ {f}]
    BY <1>1 DEF DiscardFile
  <2>2. backup' \in Directory /\ backup'.gen = backup.gen /\ backup' # Absent
    BY <2>1, <1>1 DEF DiscardFile, Directory, Absent
  <2> QED BY <1>1, <2>2 DEF DiscardFile
<1>2. CASE DiscardDirectory
  BY <1>2 DEF DiscardDirectory, Return, Directory
<1>3. CASE InspectBackup
  BY <1>3 DEF InspectBackup, Directory
<1> QED BY <1>1, <1>2, <1>3

LEMMA NextIInv == IInv /\ [Next]_vars => IInv'
<1> SUFFICES ASSUME IInv, [Next]_vars PROVE IInv' OBVIOUS
<1>1. CASE UNCHANGED vars
  BY <1>1 DEF IInv, TypeOK, DiskInv, StagedInv, PublishInv, vars
<1> QED BY <1>1, RenderSteps, RenameSteps, BackupSteps DEF Next

(* The strengthening holds in every reachable state.                         *)
THEOREM InductiveInvariant == Spec => []IInv
BY InitIInv, NextIInv, PTL DEF Spec

(* Type correctness of publication, for every inventory.                     *)
THEOREM TypeCorrect == Spec => []TypeOK
<1>1. IInv => TypeOK BY DEF IInv
<1> QED BY <1>1, InductiveInvariant, PTL

(* talos/generated never holds part of a set.                                *)
THEOREM OnlyWholeSetsHolds == Spec => []OnlyWholeSets
<1>1. IInv => OnlyWholeSets BY DEF IInv, DiskInv, OnlyWholeSets
<1> QED BY <1>1, InductiveInvariant, PTL

(* A whole backup is only given up for a whole, younger set.                 *)
THEOREM BackupGivenUpHolds == Spec => BackupGivenUpForYounger
<1> DEFINE Step == backup.files = Files /\ backup' # backup =>
                     generated'.files = Files /\ generated'.gen >= backup.gen
<1>1. IInv /\ [Next]_vars => [Step]_vars
  <2> SUFFICES ASSUME IInv, Next, backup.files = Files, backup' # backup PROVE Step
    BY DEF vars
  <2> USE AbsentIsEmpty DEF IInv, TypeOK, DiskInv, PublishInv
  <2>1. CASE SaveGenerated
    BY <2>1 DEF SaveGenerated
  <2>2. CASE Restore
    BY <2>2 DEF Restore, Return, Directory
  <2>3. CASE DiscardFile
    BY <2>3 DEF DiscardFile, Directory
  <2>4. CASE DiscardDirectory
    BY <2>4 DEF DiscardDirectory, Files
  <2>5. CASE InspectBackup
    BY <2>5 DEF InspectBackup, Directory
  <2>6. backup' = backup \/ SaveGenerated \/ Restore \/ DiscardFile \/ DiscardDirectory \/ InspectBackup
    BY DEF Next, Begin, RenderNode, WriteClient, CheckBackup, InstallStaged,
           InstallFails, Stops
  <2> QED BY <2>1, <2>2, <2>3, <2>4, <2>5, <2>6
<1> QED BY <1>1, InductiveInvariant, PTL DEF Spec, BackupGivenUpForYounger

(* Publication implements ConfigSet: initially nothing is available, and a   *)
(* step either keeps what is available or replaces it by a younger set.      *)
THEOREM Implementation == Spec => ImplementsConfigSet
<1>1. Init => Abstract!Init
  BY DEF Init, Abstract!Init, Available, Absent
<1>2. IInv /\ [Next]_vars => [Abstract!Publish]_Available
  <2> SUFFICES ASSUME IInv, [Next]_vars PROVE [Abstract!Publish]_Available OBVIOUS
  <2> USE AbsentIsEmpty DEF IInv, TypeOK, DiskInv, StagedInv, PublishInv, Available
  <2>1. CASE InstallStaged
    <3>1. generated' # Absent /\ Available' = runs
      BY <2>1 DEF InstallStaged
    <3>2. Available < runs
      BY <2>1 DEF InstallStaged
    <3> QED BY <3>1, <3>2 DEF Abstract!Publish, Directory
  <2>2. CASE SaveGenerated
    BY <2>2 DEF SaveGenerated
  <2>3. CASE Restore
    BY <2>3 DEF Restore
  <2>4. CASE DiscardFile \/ DiscardDirectory
    BY <2>4 DEF DiscardFile, DiscardDirectory
  <2>5. CASE InspectBackup
    BY <2>5 DEF InspectBackup
  <2>6. UNCHANGED <<generated, backup>> \/ InstallStaged \/ SaveGenerated \/ Restore
          \/ DiscardFile \/ DiscardDirectory \/ InspectBackup
    BY DEF Next, vars, Begin, RenderNode, WriteClient, CheckBackup, InstallFails, Stops
  <2> QED BY <2>1, <2>2, <2>3, <2>4, <2>5, <2>6
<1> QED BY <1>1, <1>2, InductiveInvariant, PTL DEF Spec, ImplementsConfigSet, Abstract!Spec
=============================================================================
