------------------------------- MODULE RepoInit -------------------------------
(***************************************************************************)
(* The life of a cluster repository from an empty folder to a complete     *)
(* setup: clustertool init, the operator's edits between its two runs, and *)
(* the commands that rely on what it made (genconfig, encrypt, decrypt).   *)
(*                                                                         *)
(* init creates, in this order and each only where it is missing, the age  *)
(* key, .sops.yaml, the settings and the inventory; the first run ends     *)
(* there and leaves the marker RUNAGAIN.  A later run checks the settings  *)
(* and creates the Talos identity, the applications, the deploy key, the   *)
(* Secret that carries the age key and the git hook; then it removes the   *)
(* marker.  Every file is a value: None, Torn (created, not yet written)   *)
(* or the number of the key that is in it.                                 *)
(*                                                                         *)
(* A run can be stopped between any two file operations, by a call that    *)
(* fails or by the end of the process: both leave the files as they are.   *)
(***************************************************************************)
EXTENDS Integers

CONSTANTS
  FaultKinds,   \* subset of {"stop", "torn", "clone", "lose"}
  MaxFaults     \* bound on the number of faults

ASSUME FaultsAssumption ==
  /\ FaultKinds \subseteq {"stop", "torn", "clone", "lose"}
  /\ MaxFaults \in Nat

VARIABLES
  repo,       \* the files of the repository
  tool,       \* the running command: its name, its next step, firstInit
  made,       \* how many age keys, identities and deploy keys were generated
  completed,  \* some init has completed successfully
  unmarked,   \* the marker of the first init was lost, or never written
  faults

vars == <<repo, tool, made, completed, unmarked, faults>>

-----------------------------------------------------------------------------
(* Values.                                                                  *)

None == 0
Torn == -1
Template == -2         \* a file of the template, its placeholders not replaced
Keys == Nat \ {0}
File == Keys \cup {None, Torn}

Idle == [cmd |-> "none", pc |-> "idle", first |-> FALSE]

InitSteps == {"confirm", "decrypt", "stat", "age", "ageWrite", "root", "recipient",
              "settings", "inventory", "mark", "env", "secrets", "secretsWrite",
              "kubernetes", "deploy", "deployWrite", "deployFill", "sopsSecret",
              "kustomize", "hook", "unmark"}
GenSteps == {"gate", "decrypt", "version", "env", "check", "save", "install",
             "discard", "hook"}

(* Steps that write into a file the step before has created.                *)
Writing == {"ageWrite", "secretsWrite", "deployFill"}

EmptyRepo ==
  [runagain |-> FALSE,      \* RUNAGAIN exists
   agekey |-> None,         \* age.agekey
   rules |-> None,          \* the recipient .sops.yaml names
   lock |-> None,           \* the key the secret files are encrypted for
   settings |-> "none",     \* cluster-secrets.sops.yaml: none, template, filled
   inventory |-> FALSE,     \* talos/clustertool.yaml and its patches
   secrets |-> None,        \* talos/secrets.sops.yaml, the cluster identity
   generated |-> None,      \* talos/generated, made for this identity
   backup |-> None,         \* talos/generated.previous
   apps |-> FALSE,          \* kubernetes/, rendered
   deploy |-> None,         \* deploy-key.sops.yaml
   pub |-> None,            \* ssh-public-key.txt
   sopsAge |-> None,        \* sops-age.sops.yaml, the age key for Flux
   kustomized |-> FALSE,    \* Kustomizations written
   hook |-> FALSE]          \* git pre-commit hook

Init ==
  /\ repo = EmptyRepo
  /\ tool = Idle
  /\ made = [age |-> 0, identity |-> 0, deploy |-> 0]
  /\ completed = FALSE
  /\ unmarked = FALSE
  /\ faults = 0

At(p) == tool.pc = p
Goto(p) == tool' = [tool EXCEPT !.pc = p]
Return == tool' = Idle
KeepHistory == UNCHANGED <<completed, unmarked, faults>>
Fresh(kind) == made[kind] + 1

-----------------------------------------------------------------------------
(* Commands are started one at a time (HOW_TO.md asks not to run generation *)
(* and apply concurrently).                                                 *)

StartInit ==
  /\ At("idle")
  /\ tool' = [cmd |-> "init", pc |-> "confirm", first |-> FALSE]
  /\ UNCHANGED <<repo, made>> /\ KeepHistory

StartGenconfig ==
  /\ At("idle")
  /\ tool' = [cmd |-> "genconfig", pc |-> "gate", first |-> FALSE]
  /\ UNCHANGED <<repo, made>> /\ KeepHistory

(* ConfirmInit: asks only about a repository that has an identity and no    *)
(* marker; nobody is asked about an unfinished one.                         *)
Asks == ~repo.runagain /\ repo.secrets # None

Confirm ==
  /\ At("confirm")
  /\ Goto("decrypt")
  /\ UNCHANGED <<repo, made>> /\ KeepHistory

Decline ==
  /\ At("confirm")
  /\ Asks
  /\ Return
  /\ UNCHANGED <<repo, made>> /\ KeepHistory

(* GenConfig refuses to work on a repository whose init is not finished.    *)
NoGate ==  \* mutant: genconfig does not look at RUNAGAIN
  /\ At("gate")
  /\ Goto("decrypt")
  /\ UNCHANGED <<repo, made>> /\ KeepHistory
Gate ==
  /\ At("gate")
  /\ IF repo.runagain THEN Return ELSE Goto("decrypt")
  /\ UNCHANGED <<repo, made>> /\ KeepHistory

(* DecryptFiles: every encrypted file that .sops.yaml selects.  Without     *)
(* .sops.yaml it fails, which the first init and no other command expects.  *)
Readable == repo.lock = None \/ repo.agekey = repo.lock
Opened == IF repo.rules = None THEN tool.cmd = "init" ELSE Readable

IgnoreUnreadable ==  \* mutant: init goes on when decryption fails
  /\ At("decrypt")
  /\ IF repo.rules # None /\ Readable
     THEN repo' = [repo EXCEPT !.lock = None]
     ELSE UNCHANGED repo
  /\ Goto(IF tool.cmd = "init" THEN "stat" ELSE "version")
  /\ UNCHANGED made /\ KeepHistory
Decrypt ==
  /\ At("decrypt")
  /\ IF Opened
     THEN /\ repo' = [repo EXCEPT !.lock = None]
          /\ Goto(IF tool.cmd = "init" THEN "stat" ELSE "version")
     ELSE Return /\ UNCHANGED repo
  /\ UNCHANGED made /\ KeepHistory

(* InitFiles: firstInit is read here and used after the base files exist.   *)
StatFirstOnly ==  \* mutant: only a first init writes the base files
  /\ At("stat")
  /\ LET first == repo.settings = "none"
     IN tool' = [tool EXCEPT !.first = first, !.pc = IF first THEN "age" ELSE "env"]
  /\ UNCHANGED <<repo, made>> /\ KeepHistory
Stat ==
  /\ At("stat")
  /\ LET first == repo.settings = "none"
     IN tool' = [tool EXCEPT !.first = first,
                             !.pc = IF first \/ ~repo.runagain THEN "age" ELSE "env"]
  /\ UNCHANGED <<repo, made>> /\ KeepHistory

-----------------------------------------------------------------------------
(* The part of init that a finished first run is not asked to repeat.       *)

(* ageGen: created exclusively, then written.                               *)
AgeCreate ==
  /\ At("age")
  /\ IF repo.agekey = None
     THEN repo' = [repo EXCEPT !.agekey = Torn] /\ Goto("ageWrite")
     ELSE Goto("root") /\ UNCHANGED repo
  /\ UNCHANGED made /\ KeepHistory

AgeWrite ==
  /\ At("ageWrite")
  /\ repo' = [repo EXCEPT !.agekey = Fresh("age")]
  /\ made' = [made EXCEPT !.age = Fresh("age")]
  /\ Goto("root")
  /\ KeepHistory

(* genRootFiles: files that exist are kept; the public key replaces the     *)
(* placeholder where it is still there.                                     *)
RootFiles ==
  /\ At("root")
  /\ IF repo.rules = None
     THEN repo' = [repo EXCEPT !.rules = Template]
     ELSE UNCHANGED repo
  /\ Goto("recipient")
  /\ UNCHANGED made /\ KeepHistory

Recipient ==
  /\ At("recipient")
  /\ IF repo.agekey \notin Keys
     THEN Return /\ UNCHANGED repo
     ELSE /\ IF repo.rules = Template
             THEN repo' = [repo EXCEPT !.rules = repo.agekey]
             ELSE UNCHANGED repo
          /\ Goto("settings")
  /\ UNCHANGED made /\ KeepHistory

(* genBaseFiles copies in lexical order: kubernetes/ before talos/.         *)
BaseSettings ==
  /\ At("settings")
  /\ IF repo.settings = "none"
     THEN repo' = [repo EXCEPT !.settings = "template"]
     ELSE UNCHANGED repo
  /\ Goto("inventory")
  /\ UNCHANGED made /\ KeepHistory

BaseInventory ==
  /\ At("inventory")
  /\ repo' = [repo EXCEPT !.inventory = TRUE]
  /\ Goto(IF tool.first THEN "mark" ELSE "env")
  /\ UNCHANGED made /\ KeepHistory

(* createRunAgainFile: the end of a first init.                             *)
Mark ==
  /\ At("mark")
  /\ repo' = [repo EXCEPT !.runagain = TRUE]
  /\ Return
  /\ UNCHANGED made /\ KeepHistory

-----------------------------------------------------------------------------
(* The part that needs the operator's settings.                             *)

(* CheckEnvVariables, for init and for genconfig.                           *)
CheckEnv ==
  /\ At("env")
  /\ IF repo.settings = "filled" /\ repo.inventory
     THEN Goto(IF tool.cmd = "init" THEN "secrets" ELSE "check")
     ELSE Return
  /\ UNCHANGED <<repo, made>> /\ KeepHistory

(* EnsureSecrets: an identity is created once, and never beside generated   *)
(* files of an identity that is missing.                                    *)
SecretsUnguarded ==  \* mutant: without checkExistingIdentity
  /\ At("secrets")
  /\ IF repo.secrets # None
     THEN Goto("kubernetes") /\ UNCHANGED repo
     ELSE repo' = [repo EXCEPT !.secrets = Torn] /\ Goto("secretsWrite")
  /\ UNCHANGED made /\ KeepHistory
SecretsCreate ==
  /\ At("secrets")
  /\ CASE repo.secrets # None -> Goto("kubernetes") /\ UNCHANGED repo
       [] repo.secrets = None /\ repo.generated # None -> Return /\ UNCHANGED repo
       [] OTHER -> repo' = [repo EXCEPT !.secrets = Torn] /\ Goto("secretsWrite")
  /\ UNCHANGED made /\ KeepHistory

SecretsWrite ==
  /\ At("secretsWrite")
  /\ repo' = [repo EXCEPT !.secrets = Fresh("identity")]
  /\ made' = [made EXCEPT !.identity = Fresh("identity")]
  /\ Goto("kubernetes")
  /\ KeepHistory

(* genKubernetes and UpdateFluxConfig.                                      *)
Kubernetes ==
  /\ At("kubernetes")
  /\ repo' = [repo EXCEPT !.apps = TRUE]
  /\ Goto("deploy")
  /\ UNCHANGED made /\ KeepHistory

(* CreateGitSecret.  A missing Secret gets a new key pair, its public half  *)
(* written first; a missing public half is taken from the Secret.           *)
DeployByPublicKey ==  \* mutant: the public key decides whether there is a pair
  /\ At("deploy")
  /\ IF repo.pub = None
     THEN /\ made' = [made EXCEPT !.deploy = Fresh("deploy")]
          /\ repo' = [repo EXCEPT !.pub = Fresh("deploy")]
          /\ Goto("deployWrite")
     ELSE Goto("sopsSecret") /\ UNCHANGED <<repo, made>>
  /\ KeepHistory
DeployKey ==
  /\ At("deploy")
  /\ CASE repo.deploy = None ->
            /\ made' = [made EXCEPT !.deploy = Fresh("deploy")]
            /\ repo' = [repo EXCEPT !.pub = Fresh("deploy")]
            /\ Goto("deployWrite")
       [] repo.deploy \in Keys /\ repo.pub = None ->
            repo' = [repo EXCEPT !.pub = repo.deploy] /\ Goto("sopsSecret") /\ UNCHANGED made
       [] repo.deploy = Torn /\ repo.pub = None -> Return /\ UNCHANGED <<repo, made>>
       [] OTHER -> Goto("sopsSecret") /\ UNCHANGED <<repo, made>>
  /\ KeepHistory

DeployCreate ==
  /\ At("deployWrite")
  /\ repo' = [repo EXCEPT !.deploy = Torn]
  /\ Goto("deployFill")
  /\ UNCHANGED made /\ KeepHistory

DeployFill ==
  /\ At("deployFill")
  /\ repo' = [repo EXCEPT !.deploy = made.deploy]
  /\ Goto("sopsSecret")
  /\ UNCHANGED made /\ KeepHistory

(* GenSopsSecret: written anew in every run, from the age key.              *)
SopsSecret ==
  /\ At("sopsSecret")
  /\ IF repo.agekey \in Keys
     THEN repo' = [repo EXCEPT !.sopsAge = repo.agekey] /\ Goto("kustomize")
     ELSE Return /\ UNCHANGED repo
  /\ UNCHANGED made /\ KeepHistory

Kustomize ==
  /\ At("kustomize")
  /\ repo' = [repo EXCEPT !.kustomized = TRUE]
  /\ Goto("hook")
  /\ UNCHANGED made /\ KeepHistory

(* CreateEncrPreCommitHook; the last step of genconfig.                     *)
Hook ==
  /\ At("hook")
  /\ repo' = [repo EXCEPT !.hook = TRUE]
  /\ IF tool.cmd = "init" THEN Goto("unmark") ELSE Return
  /\ UNCHANGED made /\ KeepHistory

(* removeRunAgainFile: init has completed.                                  *)
Unmark ==
  /\ At("unmark")
  /\ repo' = [repo EXCEPT !.runagain = FALSE]
  /\ completed' = TRUE
  /\ Return
  /\ UNCHANGED <<made, unmarked, faults>>

-----------------------------------------------------------------------------
(* genconfig after the checks.  Publication.tla has the detail of publish.  *)

Version ==
  /\ At("version")
  /\ Goto("env") \/ Return
  /\ UNCHANGED <<repo, made>> /\ KeepHistory

GenerateFromAnySecrets ==  \* mutant: a secrets file that exists is good enough
  /\ At("check")
  /\ IF repo.secrets # None /\ repo.backup = None THEN Goto("save") ELSE Return
  /\ UNCHANGED <<repo, made>> /\ KeepHistory
CheckGeneration ==
  /\ At("check")
  /\ IF repo.secrets \in Keys /\ repo.backup = None THEN Goto("save") ELSE Return
  /\ UNCHANGED <<repo, made>> /\ KeepHistory

SaveGenerated ==
  /\ At("save")
  /\ repo' = [repo EXCEPT !.backup = repo.generated, !.generated = None]
  /\ Goto("install")
  /\ UNCHANGED made /\ KeepHistory

Install ==
  /\ At("install")
  /\ repo' = [repo EXCEPT !.generated = repo.secrets]
  /\ Goto("discard")
  /\ UNCHANGED made /\ KeepHistory

Discard ==
  /\ At("discard")
  /\ repo' = [repo EXCEPT !.backup = None]
  /\ Goto("hook")
  /\ UNCHANGED made /\ KeepHistory

-----------------------------------------------------------------------------
(* The operator, between commands.                                          *)

FillSettings ==
  /\ At("idle")
  /\ repo.settings = "template" /\ repo.lock = None
  /\ repo' = [repo EXCEPT !.settings = "filled"]
  /\ UNCHANGED <<tool, made>> /\ KeepHistory

(* clustertool encrypt: for the recipient .sops.yaml names, whichever key   *)
(* age.agekey holds.                                                        *)
EncryptRepo ==
  /\ At("idle")
  /\ repo.rules \in Keys /\ repo.settings # "none" /\ repo.lock = None
  /\ repo' = [repo EXCEPT !.lock = repo.rules]
  /\ UNCHANGED <<tool, made>> /\ KeepHistory

(* "generation backup exists; inspect it before retrying".                  *)
InspectBackup ==
  /\ At("idle")
  /\ repo.backup # None
  /\ repo' = [repo EXCEPT !.generated = IF @ = None THEN repo.backup ELSE @,
                          !.backup = None]
  /\ UNCHANGED <<tool, made>> /\ KeepHistory

(* "Keep the original age.agekey separately to decrypt a fresh clone."      *)
RestoreKey ==
  /\ At("idle")
  /\ repo.agekey = None /\ repo.lock # None
  /\ repo' = [repo EXCEPT !.agekey = repo.lock]
  /\ UNCHANGED <<tool, made>> /\ KeepHistory

(* "restore secrets.sops.yaml before continuing".                           *)
RestoreSecrets ==
  /\ At("idle")
  /\ repo.secrets = None /\ repo.generated # None
  /\ repo' = [repo EXCEPT !.secrets = repo.generated]
  /\ UNCHANGED <<tool, made>> /\ KeepHistory

-----------------------------------------------------------------------------
(* Faults.                                                                  *)

Fault(kind) ==
  /\ kind \in FaultKinds
  /\ faults < MaxFaults
  /\ faults' = faults + 1

(* A call fails, or the process dies, before the next file operation.  In   *)
(* the middle of a file it leaves that file torn.                           *)
Stop ==
  /\ ~At("idle")
  /\ Fault(IF tool.pc \in Writing THEN "torn" ELSE "stop")
  /\ unmarked' = (unmarked \/ (tool.first /\ repo.settings # "none"))
  /\ Return
  /\ UNCHANGED <<repo, made, completed>>

(* The operator goes on in a fresh clone of the encrypted repository: what  *)
(* git ignores is not in it, RUNAGAIN only where it was committed.          *)
Clone ==
  /\ At("idle")
  /\ repo.lock # None
  /\ Fault("clone")
  /\ \E marker \in {FALSE, repo.runagain} :
       /\ repo' = [repo EXCEPT !.agekey = None, !.generated = None, !.backup = None,
                               !.hook = FALSE, !.runagain = marker]
       /\ unmarked' = (unmarked \/ (repo.runagain /\ ~marker))
  /\ Return
  /\ UNCHANGED <<made, completed>>

(* The identity is deleted by mistake, no publication being half done.      *)
LoseSecrets ==
  /\ At("idle")
  /\ repo.secrets \in Keys /\ repo.backup = None
  /\ Fault("lose")
  /\ repo' = [repo EXCEPT !.secrets = None]
  /\ UNCHANGED <<tool, made, completed, unmarked>>

-----------------------------------------------------------------------------
ToolStep ==
  \/ Confirm \/ Gate \/ Decrypt \/ Stat
  \/ AgeCreate \/ AgeWrite \/ RootFiles \/ Recipient
  \/ BaseSettings \/ BaseInventory \/ Mark
  \/ CheckEnv \/ SecretsCreate \/ SecretsWrite \/ Kubernetes
  \/ DeployKey \/ DeployCreate \/ DeployFill
  \/ SopsSecret \/ Kustomize \/ Hook \/ Unmark
  \/ Version \/ CheckGeneration \/ SaveGenerated \/ Install \/ Discard

Operator ==
  \/ StartInit \/ StartGenconfig \/ Decline
  \/ FillSettings \/ EncryptRepo \/ InspectBackup \/ RestoreKey \/ RestoreSecrets

Next == ToolStep \/ Operator \/ Stop \/ Clone \/ LoseSecrets

Spec == Init /\ [][Next]_vars

(* A command that runs takes its next step.  The operator does not give up: *)
(* repeats init, confirms it, fills in the settings and restores what the   *)
(* tool asks for, whatever else is done in between.                         *)
Fairness ==
  /\ WF_vars(ToolStep)
  /\ SF_vars(StartInit) /\ SF_vars(Confirm) /\ SF_vars(FillSettings)
  /\ SF_vars(RestoreKey) /\ SF_vars(RestoreSecrets)

FairSpec == Spec /\ Fairness

-----------------------------------------------------------------------------
(* Properties.                                                              *)

RepoType ==
  [runagain : BOOLEAN, agekey : File, rules : Keys \cup {None, Template},
   lock : Keys \cup {None}, settings : {"none", "template", "filled"}, inventory : BOOLEAN,
   secrets : File, generated : Keys \cup {None}, backup : Keys \cup {None}, apps : BOOLEAN,
   deploy : File, pub : Keys \cup {None}, sopsAge : Keys \cup {None},
   kustomized : BOOLEAN, hook : BOOLEAN]

ToolType ==
  [cmd : {"none", "init", "genconfig"}, pc : {"idle"} \cup InitSteps \cup GenSteps,
   first : BOOLEAN]

(* Files and commands keep their types: no torn or missing key gets into    *)
(* .sops.yaml, the encrypted files, the generated set or Flux's Secret.     *)
TypeOK ==
  /\ repo \in RepoType
  /\ tool \in ToolType
  /\ made \in [age : Nat, identity : Nat, deploy : Nat]
  /\ completed \in BOOLEAN /\ unmarked \in BOOLEAN
  /\ faults \in 0..MaxFaults

(* Whatever is encrypted can be decrypted again: .sops.yaml, the encrypted  *)
(* files, the Secret for Flux and age.agekey, where it is, are about the    *)
(* same key, through interrupted runs, clones and repeated runs of init.    *)
OneAgeKey ==
  LET known == {repo.agekey, repo.rules, repo.lock, repo.sopsAge} \cap Keys
  IN \A k1, k2 \in known : k1 = k2

(* The generated configuration, its backup and the identity in the          *)
(* repository belong together: a lost identity is not replaced under the    *)
(* configuration that was made from it.                                     *)
OneIdentity ==
  LET known == {repo.secrets, repo.generated, repo.backup} \cap Keys
  IN \A k1, k2 \in known : k1 = k2

(* What init promises of the three secrets it generates: repeated, stopped,  *)
(* or continued in a clone, it never exchanges a key for another one.  Only  *)
(* the identity can get lost, where its one file is deleted by mistake.      *)
AgeKey == INSTANCE KeyRegister WITH
  MayLose <- FALSE,
  held    <- {repo.agekey, repo.rules, repo.lock, repo.sopsAge} \cap Keys

DeployPair == INSTANCE KeyRegister WITH
  MayLose <- FALSE,
  held    <- {repo.deploy} \cap Keys

Identity == INSTANCE KeyRegister WITH
  MayLose <- "lose" \in FaultKinds,
  held    <- {repo.secrets, repo.generated, repo.backup} \cap Keys

ImplementsKeyRegisters == AgeKey!Spec /\ DeployPair!Spec /\ Identity!Spec

(* Nothing was cut off between the creation of a file and its content.      *)
Untorn ==
  At("idle") => Torn \notin {repo.agekey, repo.secrets, repo.deploy}

(* The public key to register is that of the deploy key, as soon as there   *)
(* is a deploy key, and init does not complete without the pair.            *)
PairedDeployKey ==
  /\ repo.deploy \in Keys => repo.pub = repo.deploy
  /\ completed => repo.deploy # None

(* A completed init has made the Git deploy key.  Fails: a Secret that could *)
(* be created but not written counts as existing when init is repeated.     *)
CompletedWithDeployKey ==
  completed => repo.deploy \in Keys

(* Configuration is generated for a fleet only after an init has completed, *)
(* unless the marker RUNAGAIN was cut off or left out of a clone.           *)
GenerationAwaitsInit ==
  repo.generated # None => completed \/ unmarked

(* An init that was stopped, at any point but inside of a file, completes   *)
(* when the operator repeats it.                                            *)
SetupCompletes == []Untorn => <>completed
=============================================================================
