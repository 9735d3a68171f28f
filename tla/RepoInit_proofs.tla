--------------------------- MODULE RepoInit_proofs ----------------------------
(***************************************************************************)
(* The keys and the identity of a repository survive interrupted inits,    *)
(* clones and losses, for every number and every kind of faults.           *)
(***************************************************************************)
EXTENDS RepoInit, TLAPS

(* Which steps belong to which command, and what the steps behind the        *)
(* settings check can rely on.                                               *)
AfterEnv == {"secrets", "secretsWrite", "kubernetes", "deploy", "deployWrite", "deployFill",
             "sopsSecret", "kustomize", "hook", "unmark", "check", "save", "install", "discard"}
Opening == {"idle", "confirm", "gate", "decrypt"}
InitOnly == InitSteps \ {"decrypt", "env", "hook"}
GenOnly == {"gate", "version", "check", "save", "install", "discard"}

StepInv ==
  /\ tool.pc \in InitOnly => tool.cmd = "init"
  /\ tool.pc \in GenOnly => tool.cmd = "genconfig"
  /\ tool.pc \in {"decrypt", "env", "hook"} => tool.cmd \in {"init", "genconfig"}
  /\ tool.pc = "recipient" => repo.rules # None
  /\ tool.pc \notin Opening => repo.lock = None
  /\ tool.pc \in AfterEnv => repo.settings = "filled"
  /\ repo.settings # "none" => repo.rules \in Keys
  /\ tool.pc \in {"settings", "inventory", "mark"} => repo.rules \in Keys
  /\ tool.pc = "ageWrite" => repo.agekey = Torn

(* One age key: where it is missing it is not needed, or known to be needed. *)
KeyInv ==
  /\ repo.agekey \in Keys /\ repo.rules \in Keys => repo.agekey = repo.rules
  /\ repo.agekey = Torn => repo.rules \notin Keys
  /\ repo.agekey = None /\ repo.rules \in Keys => repo.lock = repo.rules
  /\ repo.lock \in Keys => repo.lock = repo.rules
  /\ repo.sopsAge \in Keys => repo.sopsAge = repo.rules

(* One identity: it is born beside nothing that another one left.            *)
IdentityInv ==
  /\ repo.secrets \in Keys /\ repo.generated \in Keys => repo.secrets = repo.generated
  /\ repo.backup # None => repo.backup = repo.secrets
  /\ repo.secrets = Torn => repo.generated = None
  /\ tool.pc = "secretsWrite" => repo.secrets = Torn
  /\ tool.pc \in {"save", "install", "discard"} => repo.secrets \in Keys
  /\ tool.pc = "save" => repo.backup = None

(* The halves of the deploy key.                                             *)
DeployInv ==
  /\ repo.deploy \in Keys => repo.pub = repo.deploy
  /\ tool.pc = "deployWrite" => repo.pub = made.deploy /\ repo.deploy = None
  /\ tool.pc = "deployFill" => repo.pub = made.deploy /\ repo.deploy = Torn
  /\ tool.pc \in {"deployWrite", "deployFill"} => made.deploy \in Keys
  /\ tool.pc \in {"sopsSecret", "kustomize", "unmark"} => repo.deploy # None
  /\ tool.pc = "hook" /\ tool.cmd = "init" => repo.deploy # None
  /\ completed => repo.deploy # None

(* A repository with settings carries the marker, or needs it no more, or    *)
(* has lost it; outside the two steps of a first init that come before it.   *)
MarkInv ==
  /\ tool.cmd = "genconfig" /\ tool.pc # "gate" => ~repo.runagain
  /\ tool.first => tool.pc \in {"age", "ageWrite", "root", "recipient", "settings",
                                "inventory", "mark"}
  /\ tool.pc \in {"age", "ageWrite", "root", "recipient", "settings"} =>
       tool.first \/ repo.settings # "none"
  /\ repo.settings # "none" /\ ~repo.runagain =>
       completed \/ unmarked \/ (tool.first /\ tool.pc \in {"inventory", "mark"})
  /\ repo.generated # None \/ repo.backup # None => completed \/ unmarked

IInv == TypeOK /\ StepInv /\ KeyInv /\ IdentityInv /\ DeployInv /\ MarkInv

-----------------------------------------------------------------------------
(* What a step of the tool or of the operator leaves behind.                 *)
Becomes(r, t, m) ==
  /\ repo' = r /\ tool' = t /\ made' = m
  /\ UNCHANGED <<completed, unmarked, faults>>

LEMMA InitIInv == Init => IInv
<1> SUFFICES ASSUME Init PROVE IInv OBVIOUS
<1> USE FaultsAssumption DEF Init, EmptyRepo, Idle, File, Keys, None, Torn, Template
<1>1. TypeOK
  <2>1. repo \in RepoType BY DEF RepoType
  <2>2. tool \in ToolType BY DEF ToolType
  <2>3. completed \in BOOLEAN /\ unmarked \in BOOLEAN BY Zenon
  <2>4. made \in [age : Nat, identity : Nat, deploy : Nat] /\ faults \in 0..MaxFaults OBVIOUS
  <2> QED BY <2>1, <2>2, <2>3, <2>4 DEF TypeOK
<1>2. StepInv BY DEF StepInv, InitOnly, GenOnly, InitSteps, Opening, AfterEnv
<1>3. KeyInv BY DEF KeyInv
<1>4. IdentityInv BY DEF IdentityInv
<1>5. DeployInv BY DEF DeployInv
<1>6. MarkInv BY DEF MarkInv
<1> QED BY <1>1, <1>2, <1>3, <1>4, <1>5, <1>6 DEF IInv

LEMMA PutBackType ==
  ASSUME NEW r \in RepoType, NEW k \in Keys
  PROVE  [r EXCEPT !.generated = k, !.backup = None] \in RepoType
BY DEF RepoType, Keys, None

LEMMA ClonedType ==
  ASSUME NEW r \in RepoType, NEW marker \in BOOLEAN
  PROVE  [r EXCEPT !.agekey = None, !.generated = None, !.backup = None,
                   !.hook = FALSE, !.runagain = marker] \in RepoType
BY DEF RepoType, File, None

LEMMA CloneType ==
  ASSUME repo \in RepoType, Clone
  PROVE  repo' \in RepoType
<1>1. repo.runagain \in BOOLEAN
  BY DEF RepoType
<1>2. PICK marker \in BOOLEAN :
        repo' = [repo EXCEPT !.agekey = None, !.generated = None, !.backup = None,
                             !.hook = FALSE, !.runagain = marker]
  BY <1>1 DEF Clone
<1> QED
  BY <1>2, ClonedType

(* Steps that look and decide, and change no file.                          *)
LEMMA QuietSteps ==
  ASSUME IInv,
         \/ StartInit \/ StartGenconfig \/ Confirm \/ Decline \/ Gate \/ Stat
         \/ CheckEnv \/ Version \/ CheckGeneration
  PROVE  IInv'
<1> USE FaultsAssumption DEF IInv, TypeOK, RepoType, ToolType, StepInv, KeyInv, IdentityInv,
      DeployInv, MarkInv, Idle, File, Keys, None, Torn, Template, InitSteps, GenSteps,
      Opening, AfterEnv, InitOnly, GenOnly, At, Goto, Return, KeepHistory, Fresh
<1>1. CASE StartInit
  BY <1>1, SMTT(30) DEF StartInit
<1>2. CASE StartGenconfig
  BY <1>2, SMTT(30) DEF StartGenconfig
<1>3. CASE Confirm
  BY <1>3, SMTT(30) DEF Confirm
<1>4. CASE Decline
  BY <1>4, SMTT(30) DEF Decline
<1>5. CASE Gate
  <2>1. CASE repo.runagain
    <3>1. Becomes(repo, Idle, made)
      BY <1>5, <2>1 DEF Gate, Becomes
    <3>2. tool.pc = "gate" BY <1>5 DEF Gate
    <3> QED BY <2>1, <3>1, <3>2 DEF Becomes
  <2>2. CASE ~repo.runagain
    <3>1. Becomes(repo, [tool EXCEPT !.pc = "decrypt"], made)
      BY <1>5, <2>2 DEF Gate, Becomes
    <3>2. tool.pc = "gate" BY <1>5 DEF Gate
    <3> QED BY <2>2, <3>1, <3>2 DEF Becomes
  <2> QED BY <2>1, <2>2
<1>6. CASE Stat
  <2>1. CASE repo.settings = "none"
    <3>1. Becomes(repo, [tool EXCEPT !.first = TRUE, !.pc = "age"], made)
      BY <1>6, <2>1 DEF Stat, Becomes
    <3>2. tool.pc = "stat" BY <1>6 DEF Stat
    <3>3. tool' \in ToolType
      BY <3>1 DEF Becomes
    <3> QED BY <3>3, <2>1, <3>1, <3>2 DEF Becomes
  <2>2. CASE repo.settings # "none" /\ ~repo.runagain
    <3>1. Becomes(repo, [tool EXCEPT !.first = FALSE, !.pc = "age"], made)
      BY <1>6, <2>2 DEF Stat, Becomes
    <3>2. tool.pc = "stat" BY <1>6 DEF Stat
    <3>3. tool' \in ToolType
      BY <3>1 DEF Becomes
    <3> QED BY <3>3, <2>2, <3>1, <3>2 DEF Becomes
  <2>3. CASE repo.settings # "none" /\ repo.runagain
    <3>1. Becomes(repo, [tool EXCEPT !.first = FALSE, !.pc = "env"], made)
      BY <1>6, <2>3 DEF Stat, Becomes
    <3>2. tool.pc = "stat" BY <1>6 DEF Stat
    <3>3. tool' \in ToolType
      BY <3>1 DEF Becomes
    <3> QED BY <3>3, <2>3, <3>1, <3>2 DEF Becomes
  <2> QED BY <2>1, <2>2, <2>3
<1>7. CASE CheckEnv
  <2>1. CASE repo.settings = "filled" /\ repo.inventory /\ tool.cmd = "init"
    <3>1. Becomes(repo, [tool EXCEPT !.pc = "secrets"], made)
      BY <1>7, <2>1 DEF CheckEnv, Becomes
    <3>2. tool.pc = "env" BY <1>7 DEF CheckEnv
    <3> QED BY <2>1, <3>1, <3>2 DEF Becomes
  <2>2. CASE repo.settings = "filled" /\ repo.inventory /\ tool.cmd # "init"
    <3>1. Becomes(repo, [tool EXCEPT !.pc = "check"], made)
      BY <1>7, <2>2 DEF CheckEnv, Becomes
    <3>2. tool.pc = "env" BY <1>7 DEF CheckEnv
    <3> QED BY <2>2, <3>1, <3>2 DEF Becomes
  <2>3. CASE ~(repo.settings = "filled" /\ repo.inventory)
    <3>1. Becomes(repo, Idle, made)
      BY <1>7, <2>3 DEF CheckEnv, Becomes
    <3>2. tool.pc = "env" BY <1>7 DEF CheckEnv
    <3> QED BY <2>3, <3>1, <3>2 DEF Becomes
  <2> QED BY <2>1, <2>2, <2>3
<1>8. CASE Version
  <2>1. CASE Goto("env")
    <3>1. Becomes(repo, [tool EXCEPT !.pc = "env"], made)
      BY <1>8, <2>1 DEF Version, Becomes
    <3>2. tool.pc = "version" BY <1>8 DEF Version
    <3> QED BY <2>1, <3>1, <3>2 DEF Becomes
  <2>2. CASE Return
    <3>1. Becomes(repo, Idle, made)
      BY <1>8, <2>2 DEF Version, Becomes
    <3>2. tool.pc = "version" BY <1>8 DEF Version
    <3> QED BY <2>2, <3>1, <3>2 DEF Becomes
  <2> QED BY <2>1, <2>2, <1>8 DEF Version
<1>9. CASE CheckGeneration
  <2>1. CASE repo.secrets \in Keys /\ repo.backup = None
    <3>1. Becomes(repo, [tool EXCEPT !.pc = "save"], made)
      BY <1>9, <2>1 DEF CheckGeneration, Becomes
    <3>2. tool.pc = "check" BY <1>9 DEF CheckGeneration
    <3> QED BY <2>1, <3>1, <3>2 DEF Becomes
  <2>2. CASE ~(repo.secrets \in Keys /\ repo.backup = None)
    <3>1. Becomes(repo, Idle, made)
      BY <1>9, <2>2 DEF CheckGeneration, Becomes
    <3>2. tool.pc = "check" BY <1>9 DEF CheckGeneration
    <3> QED BY <2>2, <3>1, <3>2 DEF Becomes
  <2> QED BY <2>1, <2>2
<1> QED BY <1>1, <1>2, <1>3, <1>4, <1>5, <1>6, <1>7, <1>8, <1>9

(* The steps of a first init.                                               *)
LEMMA FirstSteps ==
  ASSUME IInv,
         \/ Decrypt \/ AgeCreate \/ AgeWrite \/ RootFiles \/ Recipient
         \/ BaseSettings \/ BaseInventory \/ Mark
  PROVE  IInv'
<1> USE FaultsAssumption DEF IInv, TypeOK, RepoType, ToolType, StepInv, KeyInv, IdentityInv,
      DeployInv, MarkInv, Idle, File, Keys, None, Torn, Template, InitSteps, GenSteps,
      Opening, AfterEnv, InitOnly, GenOnly, At, Goto, Return, KeepHistory, Fresh
<1>1. CASE Decrypt
  <2>1. CASE Opened /\ tool.cmd = "init"
    <3>1. Becomes([repo EXCEPT !.lock = None], [tool EXCEPT !.pc = "stat"], made)
      BY <1>1, <2>1 DEF Decrypt, Opened, Readable, Becomes
    <3>2. tool.pc = "decrypt" BY <1>1 DEF Decrypt
    <3> QED BY <2>1, <3>1, <3>2 DEF Becomes, Opened, Readable
  <2>2. CASE Opened /\ tool.cmd # "init"
    <3>1. Becomes([repo EXCEPT !.lock = None], [tool EXCEPT !.pc = "version"], made)
      BY <1>1, <2>2 DEF Decrypt, Opened, Readable, Becomes
    <3>2. tool.pc = "decrypt" BY <1>1 DEF Decrypt
    <3> QED BY <2>2, <3>1, <3>2 DEF Becomes, Opened, Readable
  <2>3. CASE ~Opened
    <3>1. Becomes(repo, Idle, made)
      BY <1>1, <2>3 DEF Decrypt, Opened, Readable, Becomes
    <3>2. tool.pc = "decrypt" BY <1>1 DEF Decrypt
    <3> QED BY <2>3, <3>1, <3>2 DEF Becomes, Opened, Readable
  <2> QED BY <2>1, <2>2, <2>3
<1>2. CASE AgeCreate
  BY <1>2, SMTT(30) DEF AgeCreate
<1>3. CASE AgeWrite
  BY <1>3, SMTT(30) DEF AgeWrite
<1>4. CASE RootFiles
  BY <1>4, SMTT(30) DEF RootFiles
<1>5. CASE Recipient
  <2>1. CASE repo.agekey \notin Keys
    <3>1. Becomes(repo, Idle, made)
      BY <1>5, <2>1 DEF Recipient, Becomes
    <3>2. tool.pc = "recipient" BY <1>5 DEF Recipient
    <3> QED BY <2>1, <3>1, <3>2 DEF Becomes
  <2>2. CASE repo.agekey \in Keys /\ repo.rules = Template
    <3>1. Becomes([repo EXCEPT !.rules = repo.agekey],
                  [tool EXCEPT !.pc = "settings"], made)
      BY <1>5, <2>2 DEF Recipient, Becomes
    <3>2. tool.pc = "recipient" BY <1>5 DEF Recipient
    <3> QED BY <2>2, <3>1, <3>2 DEF Becomes
  <2>3. CASE repo.agekey \in Keys /\ repo.rules # Template
    <3>1. Becomes(repo, [tool EXCEPT !.pc = "settings"], made)
      BY <1>5, <2>3 DEF Recipient, Becomes
    <3>2. tool.pc = "recipient" BY <1>5 DEF Recipient
    <3> QED BY <2>3, <3>1, <3>2 DEF Becomes
  <2> QED BY <2>1, <2>2, <2>3
<1>6. CASE BaseSettings
  <2>1. CASE repo.settings = "none"
    <3>1. Becomes([repo EXCEPT !.settings = "template"],
                  [tool EXCEPT !.pc = "inventory"], made)
      BY <1>6, <2>1 DEF BaseSettings, Becomes
    <3>2. tool.pc = "settings" BY <1>6 DEF BaseSettings
    <3> QED BY <2>1, <3>1, <3>2 DEF Becomes
  <2>2. CASE repo.settings # "none"
    <3>1. Becomes(repo, [tool EXCEPT !.pc = "inventory"], made)
      BY <1>6, <2>2 DEF BaseSettings, Becomes
    <3>2. tool.pc = "settings" BY <1>6 DEF BaseSettings
    <3> QED BY <2>2, <3>1, <3>2 DEF Becomes
  <2> QED BY <2>1, <2>2
<1>7. CASE BaseInventory
  <2> USE <1>7 DEF BaseInventory
  <2>1. TypeOK'
    OBVIOUS
  <2>2. StepInv'
    OBVIOUS
  <2>3. KeyInv'
    OBVIOUS
  <2>4. IdentityInv'
    OBVIOUS
  <2>5. DeployInv'
    OBVIOUS
  <2>6. MarkInv'
    OBVIOUS
  <2> QED BY <2>1, <2>2, <2>3, <2>4, <2>5, <2>6
<1>8. CASE Mark
  <2> USE <1>8 DEF Mark
  <2>1. TypeOK'
    OBVIOUS
  <2>2. StepInv'
    OBVIOUS
  <2>3. KeyInv'
    OBVIOUS
  <2>4. IdentityInv'
    OBVIOUS
  <2>5. DeployInv'
    OBVIOUS
  <2>6. MarkInv'
    OBVIOUS
  <2> QED BY <2>1, <2>2, <2>3, <2>4, <2>5, <2>6
<1> QED BY <1>1, <1>2, <1>3, <1>4, <1>5, <1>6, <1>7, <1>8

(* The steps of an init that finds settings.                                *)
LEMMA SecondSteps ==
  ASSUME IInv,
         \/ SecretsCreate \/ SecretsWrite \/ Kubernetes \/ DeployKey \/ DeployCreate
         \/ DeployFill \/ SopsSecret \/ Kustomize \/ Hook \/ Unmark
  PROVE  IInv'
<1> USE FaultsAssumption DEF IInv, TypeOK, RepoType, ToolType, StepInv, KeyInv, IdentityInv,
      DeployInv, MarkInv, Idle, File, Keys, None, Torn, Template, InitSteps, GenSteps,
      Opening, AfterEnv, InitOnly, GenOnly, At, Goto, Return, KeepHistory, Fresh
<1>1. CASE SecretsCreate
  <2>1. CASE repo.secrets # None
    <3>1. Becomes(repo, [tool EXCEPT !.pc = "kubernetes"], made)
      BY <1>1, <2>1 DEF SecretsCreate, Becomes
    <3>2. tool.pc = "secrets" BY <1>1 DEF SecretsCreate
    <3> QED BY <2>1, <3>1, <3>2 DEF Becomes
  <2>2. CASE repo.secrets = None /\ repo.generated # None
    <3>1. Becomes(repo, Idle, made)
      BY <1>1, <2>2 DEF SecretsCreate, Becomes
    <3>2. tool.pc = "secrets" BY <1>1 DEF SecretsCreate
    <3> QED BY <2>2, <3>1, <3>2 DEF Becomes
  <2>3. CASE repo.secrets = None /\ repo.generated = None
    <3>1. Becomes([repo EXCEPT !.secrets = Torn],
                  [tool EXCEPT !.pc = "secretsWrite"], made)
      BY <1>1, <2>3 DEF SecretsCreate, Becomes
    <3>2. tool.pc = "secrets" BY <1>1 DEF SecretsCreate
    <3> QED BY <2>3, <3>1, <3>2 DEF Becomes
  <2> QED BY <2>1, <2>2, <2>3
<1>2. CASE SecretsWrite
  BY <1>2, SMTT(30) DEF SecretsWrite
<1>3. CASE Kubernetes
  <2> USE <1>3 DEF Kubernetes
  <2>1. TypeOK'
    OBVIOUS
  <2>2. StepInv'
    OBVIOUS
  <2>3. KeyInv'
    OBVIOUS
  <2>4. IdentityInv'
    OBVIOUS
  <2>5. DeployInv'
    OBVIOUS
  <2>6. MarkInv'
    OBVIOUS
  <2> QED BY <2>1, <2>2, <2>3, <2>4, <2>5, <2>6
<1>4. CASE DeployKey
  <2>1. CASE repo.deploy = None
    <3>1. Becomes([repo EXCEPT !.pub = made.deploy + 1], [tool EXCEPT !.pc = "deployWrite"],
                  [made EXCEPT !.deploy = made.deploy + 1])
      BY <1>4, <2>1 DEF DeployKey, Becomes
    <3>2. tool.pc = "deploy" BY <1>4 DEF DeployKey
    <3> QED BY <2>1, <3>1, <3>2 DEF Becomes
  <2>2. CASE repo.deploy \in Keys /\ repo.pub = None
    <3>1. Becomes([repo EXCEPT !.pub = repo.deploy],
                  [tool EXCEPT !.pc = "sopsSecret"], made)
      BY <1>4, <2>2 DEF DeployKey, Becomes
    <3>2. tool.pc = "deploy" BY <1>4 DEF DeployKey
    <3> QED BY <2>2, <3>1, <3>2 DEF Becomes
  <2>3. CASE repo.deploy = Torn /\ repo.pub = None
    <3>1. Becomes(repo, Idle, made)
      BY <1>4, <2>3 DEF DeployKey, Becomes
    <3>2. tool.pc = "deploy" BY <1>4 DEF DeployKey
    <3> QED BY <2>3, <3>1, <3>2 DEF Becomes
  <2>4. CASE repo.deploy # None /\ repo.pub # None
    <3>1. Becomes(repo, [tool EXCEPT !.pc = "sopsSecret"], made)
      BY <1>4, <2>4 DEF DeployKey, Becomes
    <3>2. tool.pc = "deploy" BY <1>4 DEF DeployKey
    <3> QED BY <2>4, <3>1, <3>2 DEF Becomes
  <2> QED BY <2>1, <2>2, <2>3, <2>4
<1>5. CASE DeployCreate
  BY <1>5, SMTT(30) DEF DeployCreate
<1>6. CASE DeployFill
  BY <1>6, SMTT(30) DEF DeployFill
<1>7. CASE SopsSecret
  BY <1>7, SMTT(30) DEF SopsSecret
<1>8. CASE Kustomize
  <2> USE <1>8 DEF Kustomize
  <2>1. TypeOK'
    OBVIOUS
  <2>2. StepInv'
    OBVIOUS
  <2>3. KeyInv'
    OBVIOUS
  <2>4. IdentityInv'
    OBVIOUS
  <2>5. DeployInv'
    OBVIOUS
  <2>6. MarkInv'
    OBVIOUS
  <2> QED BY <2>1, <2>2, <2>3, <2>4, <2>5, <2>6
<1>9. CASE Hook
  <2>1. CASE tool.cmd = "init"
    <3>1. Becomes([repo EXCEPT !.hook = TRUE], [tool EXCEPT !.pc = "unmark"], made)
      BY <1>9, <2>1 DEF Hook, Becomes
    <3>2. tool.pc = "hook" BY <1>9 DEF Hook
    <3> USE <2>1, <3>1, <3>2 DEF Becomes
    <3>3. TypeOK' OBVIOUS
    <3>4. StepInv' OBVIOUS
    <3>5. KeyInv' /\ IdentityInv' OBVIOUS
    <3>6. DeployInv' /\ MarkInv' OBVIOUS
    <3> QED BY <3>3, <3>4, <3>5, <3>6
  <2>2. CASE tool.cmd # "init"
    <3>1. Becomes([repo EXCEPT !.hook = TRUE], Idle, made)
      BY <1>9, <2>2 DEF Hook, Becomes
    <3>2. tool.pc = "hook" BY <1>9 DEF Hook
    <3> USE <2>2, <3>1, <3>2 DEF Becomes
    <3>3. TypeOK' OBVIOUS
    <3>4. StepInv' OBVIOUS
    <3>5. KeyInv' /\ IdentityInv' OBVIOUS
    <3>6. DeployInv' /\ MarkInv' OBVIOUS
    <3> QED BY <3>3, <3>4, <3>5, <3>6
  <2> QED BY <2>1, <2>2
<1>10. CASE Unmark
  <2> USE <1>10 DEF Unmark
  <2>1. TypeOK'
    OBVIOUS
  <2>2. StepInv'
    OBVIOUS
  <2>3. KeyInv'
    OBVIOUS
  <2>4. IdentityInv'
    OBVIOUS
  <2>5. DeployInv'
    OBVIOUS
  <2>6. MarkInv'
    OBVIOUS
  <2> QED BY <2>1, <2>2, <2>3, <2>4, <2>5, <2>6
<1> QED BY <1>1, <1>2, <1>3, <1>4, <1>5, <1>6, <1>7, <1>8, <1>9, <1>10

(* genconfig.                                                               *)
LEMMA GenerationSteps ==
  ASSUME IInv,
         SaveGenerated \/ Install \/ Discard
  PROVE  IInv'
<1> USE FaultsAssumption DEF IInv, TypeOK, RepoType, ToolType, StepInv, KeyInv, IdentityInv,
      DeployInv, MarkInv, Idle, File, Keys, None, Torn, Template, InitSteps, GenSteps,
      Opening, AfterEnv, InitOnly, GenOnly, At, Goto, Return, KeepHistory, Fresh
<1>1. CASE SaveGenerated
  <2> USE <1>1 DEF SaveGenerated
  <2>1. TypeOK'
    OBVIOUS
  <2>2. StepInv'
    OBVIOUS
  <2>3. KeyInv'
    OBVIOUS
  <2>4. IdentityInv'
    OBVIOUS
  <2>5. DeployInv'
    OBVIOUS
  <2>6. MarkInv'
    OBVIOUS
  <2> QED BY <2>1, <2>2, <2>3, <2>4, <2>5, <2>6
<1>2. CASE Install
  BY <1>2, SMTT(30) DEF Install
<1>3. CASE Discard
  BY <1>3, SMTT(30) DEF Discard
<1> QED BY <1>1, <1>2, <1>3

(* The operator.                                                            *)
LEMMA OperatorSteps ==
  ASSUME IInv,
         \/ FillSettings \/ EncryptRepo \/ InspectBackup \/ RestoreKey
         \/ RestoreSecrets
  PROVE  IInv'
<1> USE FaultsAssumption DEF IInv, TypeOK, RepoType, ToolType, StepInv, KeyInv, IdentityInv,
      DeployInv, MarkInv, Idle, File, Keys, None, Torn, Template, InitSteps, GenSteps,
      Opening, AfterEnv, InitOnly, GenOnly, At, Goto, Return, KeepHistory, Fresh
<1>1. CASE FillSettings
  BY <1>1, SMTT(30) DEF FillSettings
<1>2. CASE EncryptRepo
  BY <1>2, SMTT(30) DEF EncryptRepo
<1>3. CASE InspectBackup
  <2>1. CASE repo.generated = None
    <3>1. Becomes([repo EXCEPT !.generated = repo.backup, !.backup = None], tool, made)
      BY <1>3, <2>1 DEF InspectBackup, Becomes
    <3>2. repo.backup # None BY <1>3 DEF InspectBackup
    <3> USE <2>1, <3>1, <3>2 DEF Becomes
    <3>3. repo.backup \in Keys BY Zenon
    <3>4. repo' = [repo EXCEPT !.generated = repo.backup, !.backup = None] BY Zenon
    <3>5. repo' \in RepoType BY ONLY <3>3, <3>4, PutBackType, repo \in RepoType, Zenon
    <3>6. TypeOK' BY <3>5
    <3>7. StepInv' /\ KeyInv' OBVIOUS
    <3>8. IdentityInv' OBVIOUS
    <3>9. DeployInv' /\ MarkInv' OBVIOUS
    <3> QED BY <3>6, <3>7, <3>8, <3>9
  <2>2. CASE repo.generated # None
    <3>1. Becomes([repo EXCEPT !.backup = None], tool, made)
      BY <1>3, <2>2 DEF InspectBackup, Becomes
    <3>2. repo.backup # None BY <1>3 DEF InspectBackup
    <3> QED BY <2>2, <3>1, <3>2 DEF Becomes
  <2> QED BY <2>1, <2>2
<1>4. CASE RestoreKey
  BY <1>4, SMTT(30) DEF RestoreKey
<1>5. CASE RestoreSecrets
  BY <1>5, SMTT(30) DEF RestoreSecrets
<1> QED BY <1>1, <1>2, <1>3, <1>4, <1>5

(* Faults.                                                                  *)
LEMMA FaultSteps ==
  ASSUME IInv,
         Stop \/ Clone \/ LoseSecrets
  PROVE  IInv'
<1> USE FaultsAssumption DEF IInv, TypeOK, RepoType, ToolType, StepInv, KeyInv, IdentityInv,
      DeployInv, MarkInv, Idle, File, Keys, None, Torn, Template, InitSteps, GenSteps,
      Opening, AfterEnv, InitOnly, GenOnly, At, Goto, Return, KeepHistory, Fresh
<1>1. CASE Stop
  BY <1>1 DEF Stop, Fault
<1>2. CASE Clone
  <2> USE <1>2 DEF Clone, Fault
  <2>1. TypeOK'
    <3>1. repo \in RepoType /\ Clone BY Zenon
    <3>4. repo' \in RepoType BY ONLY <3>1, CloneType
    <3>2. unmarked' \in BOOLEAN BY Zenon
    <3>3. tool' \in ToolType /\ UNCHANGED <<made, completed>> /\ faults' \in 0..MaxFaults
      OBVIOUS
    <3> QED BY <3>2, <3>3, <3>4
  <2>2. StepInv'
    OBVIOUS
  <2>3. KeyInv'
    OBVIOUS
  <2>4. IdentityInv'
    OBVIOUS
  <2>5. DeployInv'
    OBVIOUS
  <2>6. MarkInv'
    OBVIOUS
  <2> QED BY <2>1, <2>2, <2>3, <2>4, <2>5, <2>6
<1>3. CASE LoseSecrets
  BY <1>3 DEF LoseSecrets, Fault
<1> QED BY <1>1, <1>2, <1>3

LEMMA NextIInv == IInv /\ [Next]_vars => IInv'
<1> SUFFICES ASSUME IInv, [Next]_vars PROVE IInv' OBVIOUS
<1>1. CASE UNCHANGED vars
  BY <1>1 DEF IInv, TypeOK, RepoType, ToolType, StepInv, KeyInv, IdentityInv, DeployInv, MarkInv,
    vars
<1> QED BY <1>1, QuietSteps, FirstSteps, SecondSteps, GenerationSteps, OperatorSteps,
           FaultSteps DEF Next, ToolStep, Operator

(* The strengthening holds in every reachable state.                         *)
THEOREM InductiveInvariant == Spec => []IInv
<1>1. Init => IInv BY InitIInv
<1>2. IInv /\ [Next]_vars => IInv' BY NextIInv
<1> QED BY <1>1, <1>2, PTL DEF Spec

-----------------------------------------------------------------------------
(* The files and the running command have their types: in particular nothing *)
(* is ever generated from a torn identity, and no torn key is given to Flux. *)
THEOREM TypeCorrect == Spec => []TypeOK
<1>1. IInv => TypeOK BY DEF IInv
<1> QED BY <1>1, InductiveInvariant, PTL

(* However often init is stopped, repeated or moved to a fresh clone, the    *)
(* recipient in .sops.yaml, the encrypted files, the Secret for Flux and the *)
(* key in age.agekey are the same key.                                       *)
THEOREM OneAgeKeyHolds == Spec => []OneAgeKey
<1>1. IInv => OneAgeKey
  BY DEF IInv, KeyInv, TypeOK, RepoType, OneAgeKey, File, Keys, None, Torn, Template
<1> QED BY <1>1, InductiveInvariant, PTL

(* A lost identity is never replaced under the configuration made from it.   *)
THEOREM OneIdentityHolds == Spec => []OneIdentity
<1>1. IInv => OneIdentity
  BY DEF IInv, IdentityInv, TypeOK, RepoType, OneIdentity, File, Keys, None, Torn
<1> QED BY <1>1, InductiveInvariant, PTL

(* The public key an operator registers is that of the deploy key, and no    *)
(* init completes without a deploy key file.                                 *)
THEOREM PairedDeployKeyHolds == Spec => []PairedDeployKey
<1>1. IInv => PairedDeployKey BY DEF IInv, DeployInv, PairedDeployKey
<1> QED BY <1>1, InductiveInvariant, PTL

(* While its marker is neither cut off nor left out of a clone, a repository *)
(* whose init has not completed yields no configuration.                     *)
THEOREM GenerationAwaitsInitHolds == Spec => []GenerationAwaitsInit
<1>1. IInv => GenerationAwaitsInit BY DEF IInv, MarkInv, GenerationAwaitsInit
<1> QED BY <1>1, InductiveInvariant, PTL

-----------------------------------------------------------------------------
(* RepoInit implements a KeyRegister for each of the secrets it generates.  *)

AgeKeys      == {repo.agekey, repo.rules, repo.lock, repo.sopsAge} \cap Keys
DeployKeys   == {repo.deploy} \cap Keys
IdentityKeys == {repo.secrets, repo.generated, repo.backup} \cap Keys

(* A configuration without the identity it was made from is that of an      *)
(* identity that got lost.                                                  *)
LossInv == repo.generated \in Keys /\ repo.secrets \notin Keys => "lose" \in FaultKinds

(* Where the files that name a key agree, two of them are enough to know it. *)
LEMMA WhichAgeKey ==
  ASSUME NEW r, NEW a, NEW l, NEW s,
         a \in Keys /\ r \in Keys => a = r, l \in Keys => l = r, s \in Keys => s = r
  PROVE  {a, r, l, s} \cap Keys = {IF r \in Keys THEN r ELSE a} \cap Keys
<1>1. CASE r \in Keys
  BY <1>1
<1>2. CASE r \notin Keys
  BY <1>2
<1> QED
  BY <1>1, <1>2

LEMMA WhichIdentity ==
  ASSUME NEW s, NEW g, NEW b,
         s \in Keys /\ g \in Keys => s = g, b \in Keys => b = s
  PROVE  {s, g, b} \cap Keys = {IF s \in Keys THEN s ELSE g} \cap Keys
<1>1. CASE s \in Keys
  BY <1>1
<1>2. CASE s \notin Keys
  BY <1>2
<1> QED
  BY <1>1, <1>2

LEMMA WhichKeys ==
  ASSUME IInv, [Next]_vars
  PROVE  /\ AgeKeys = {IF repo.rules \in Keys THEN repo.rules ELSE repo.agekey} \cap Keys
         /\ AgeKeys' = {IF repo'.rules \in Keys THEN repo'.rules ELSE repo'.agekey} \cap Keys
         /\ IdentityKeys =
              {IF repo.secrets \in Keys THEN repo.secrets ELSE repo.generated} \cap Keys
         /\ IdentityKeys' =
              {IF repo'.secrets \in Keys THEN repo'.secrets ELSE repo'.generated} \cap Keys
<1>1. KeyInv /\ KeyInv' /\ IdentityInv /\ IdentityInv' /\ None \notin Keys
  BY NextIInv DEF IInv, None, Keys
<1>2. /\ repo.backup \in Keys => repo.backup = repo.secrets
      /\ repo'.backup \in Keys => repo'.backup = repo'.secrets
  BY <1>1 DEF IdentityInv
<1>3. AgeKeys = {IF repo.rules \in Keys THEN repo.rules ELSE repo.agekey} \cap Keys
  BY <1>1, WhichAgeKey DEF AgeKeys, KeyInv
<1>4. AgeKeys' = {IF repo'.rules \in Keys THEN repo'.rules ELSE repo'.agekey} \cap Keys
  BY <1>1, WhichAgeKey DEF AgeKeys, KeyInv
<1>5. IdentityKeys = {IF repo.secrets \in Keys THEN repo.secrets ELSE repo.generated} \cap Keys
  BY <1>1, <1>2, WhichIdentity DEF IdentityKeys, IdentityInv
<1>6. IdentityKeys' =
        {IF repo'.secrets \in Keys THEN repo'.secrets ELSE repo'.generated} \cap Keys
  BY <1>1, <1>2, WhichIdentity DEF IdentityKeys, IdentityInv
<1> QED
  BY <1>3, <1>4, <1>5, <1>6

(* What a step may do to a key that is recorded, and where it may record one. *)
AgeStep ==
  /\ repo.rules \in Keys => repo'.rules = repo.rules
  /\ repo.rules \notin Keys /\ repo.agekey \in Keys =>
       repo'.agekey = repo.agekey /\ repo'.rules \in {repo.rules, Template, repo.agekey}
  /\ repo.rules \notin Keys /\ repo.agekey \notin Keys => repo'.rules \notin Keys

DeployStep ==
  repo.deploy \in Keys => repo'.deploy = repo.deploy

IdentityStep ==
  /\ repo.secrets \in Keys =>
       \/ repo'.secrets = repo.secrets
       \/ repo'.secrets = None /\ UNCHANGED repo.generated /\ "lose" \in FaultKinds
  /\ repo.secrets \notin Keys /\ repo.generated \in Keys =>
       \/ repo'.secrets = repo.generated
       \/ repo'.secrets = repo.secrets /\ repo'.generated = repo.generated
       \/ repo'.secrets = repo.secrets /\ repo'.generated = None /\ "lose" \in FaultKinds
  /\ repo.secrets \notin Keys /\ repo.generated \notin Keys => repo'.generated \notin Keys

(* Most steps touch none of the files that matter here.                     *)
LEMMA OthersKeepKeys ==
  ASSUME IInv, [Next]_vars
  PROVE  \/ UNCHANGED <<repo.rules, repo.agekey, repo.deploy, repo.secrets, repo.generated>>
         \/ AgeCreate \/ AgeWrite \/ RootFiles \/ Recipient \/ RestoreKey
         \/ DeployCreate \/ DeployFill
         \/ SecretsCreate \/ SecretsWrite \/ SaveGenerated \/ Install
         \/ InspectBackup \/ RestoreSecrets \/ Clone \/ LoseSecrets
<1> USE DEF IInv, TypeOK, RepoType
<1>1. CASE UNCHANGED vars \/ Stop
  BY <1>1 DEF vars, Stop
<1>2. CASE StartInit \/ StartGenconfig \/ Confirm \/ Decline \/ Gate \/ Stat
           \/ CheckEnv \/ Version \/ CheckGeneration
  BY <1>2 DEF StartInit, StartGenconfig, Confirm, Decline, Gate, Stat, CheckEnv, Version,
              CheckGeneration
<1>3. CASE Decrypt \/ BaseSettings \/ BaseInventory \/ Mark \/ Kubernetes
  BY <1>3 DEF Decrypt, BaseSettings, BaseInventory, Mark, Kubernetes
<1>4. CASE DeployKey
  BY <1>4 DEF DeployKey
<1>5. CASE SopsSecret \/ Kustomize \/ Hook \/ Unmark \/ Discard
  BY <1>5 DEF SopsSecret, Kustomize, Hook, Unmark, Discard
<1>6. CASE FillSettings \/ EncryptRepo
  BY <1>6 DEF FillSettings, EncryptRepo
<1> QED
  BY <1>1, <1>2, <1>3, <1>4, <1>5, <1>6 DEF Next, ToolStep, Operator

(* The steps that do touch them exchange no key: a key is written only where *)
(* none is recorded, or copied from where it is.                            *)
LEMMA KeySteps ==
  ASSUME IInv, LossInv, [Next]_vars
  PROVE  AgeStep /\ DeployStep /\ IdentityStep
<1>0. /\ repo \in RepoType /\ tool \in ToolType /\ StepInv /\ KeyInv /\ IdentityInv /\ DeployInv
      /\ made \in [age : Nat, identity : Nat, deploy : Nat]
      /\ None \notin Keys /\ Torn \notin Keys /\ Template \notin Keys
      /\ None # Torn /\ None # Template
  BY DEF IInv, TypeOK, None, Torn, Template, Keys
<1>1. CASE UNCHANGED <<repo.rules, repo.agekey, repo.deploy, repo.secrets, repo.generated>>
  BY <1>1 DEF AgeStep, DeployStep, IdentityStep
<1>2. CASE AgeCreate \/ AgeWrite \/ RootFiles \/ Recipient \/ RestoreKey
  <2>1. UNCHANGED <<repo.deploy, repo.secrets, repo.generated>>
    BY <1>0, <1>2 DEF AgeCreate, AgeWrite, RootFiles, Recipient, RestoreKey, RepoType
  <2>2. CASE AgeCreate \/ AgeWrite
    <3>1. repo'.rules = repo.rules /\ (repo.agekey \in Keys => repo'.agekey = repo.agekey)
      BY <1>0, <2>2 DEF AgeCreate, AgeWrite, At, StepInv, RepoType
    <3> QED
      BY <1>0, <2>1, <3>1 DEF AgeStep, DeployStep, IdentityStep
  <2>3. CASE RootFiles \/ Recipient
    <3>1. /\ repo'.agekey = repo.agekey
          /\ \/ repo'.rules = repo.rules
             \/ repo.rules \notin Keys /\ repo'.rules = Template
             \/ repo.rules \notin Keys /\ repo.agekey \in Keys /\ repo'.rules = repo.agekey
      BY <1>0, <2>3 DEF RootFiles, Recipient, RepoType
    <3> QED
      BY <1>0, <2>1, <3>1 DEF AgeStep, DeployStep, IdentityStep
  <2>4. CASE RestoreKey
    <3>1. repo.agekey \notin Keys /\ repo'.rules = repo.rules
      BY <1>0, <2>4 DEF RestoreKey, RepoType
    <3> QED
      BY <2>1, <3>1 DEF AgeStep, DeployStep, IdentityStep
  <2> QED
    BY <1>2, <2>2, <2>3, <2>4
<1>3. CASE DeployCreate \/ DeployFill
  <2>1. UNCHANGED <<repo.rules, repo.agekey, repo.secrets, repo.generated>>
        /\ repo.deploy \notin Keys
    BY <1>0, <1>3 DEF DeployCreate, DeployFill, At, DeployInv, RepoType
  <2> QED
    BY <2>1 DEF AgeStep, DeployStep, IdentityStep
<1>4. CASE SecretsCreate \/ SecretsWrite \/ SaveGenerated \/ Install \/ InspectBackup
           \/ RestoreSecrets
  <2>1. UNCHANGED <<repo.rules, repo.agekey, repo.deploy>>
    <3>1. CASE SecretsCreate \/ SecretsWrite
      BY <1>0, <3>1 DEF SecretsCreate, SecretsWrite, RepoType
    <3>2. CASE SaveGenerated \/ Install
      BY <1>0, <3>2 DEF SaveGenerated, Install, RepoType
    <3>3. CASE InspectBackup \/ RestoreSecrets
      BY <1>0, <3>3 DEF InspectBackup, RestoreSecrets, RepoType
    <3> QED
      BY <1>4, <3>1, <3>2, <3>3
  <2>2. SUFFICES IdentityStep
    BY <2>1 DEF AgeStep, DeployStep
  <2>3. CASE SecretsCreate
    <3>1. \/ UNCHANGED repo
          \/ repo.secrets = None /\ repo.generated = None /\ repo' = [repo EXCEPT !.secrets = Torn]
      BY <2>3 DEF SecretsCreate
    <3> QED
      BY <1>0, <3>1 DEF IdentityStep, RepoType
  <2>4. CASE SecretsWrite
    <3>1. repo.secrets = Torn /\ repo.generated = None /\ repo'.generated = repo.generated
      BY <1>0, <2>4 DEF SecretsWrite, At, IdentityInv, RepoType
    <3> QED
      BY <1>0, <3>1 DEF IdentityStep
  <2>5. CASE SaveGenerated \/ Install
    <3>1. repo.secrets \in Keys /\ repo'.secrets = repo.secrets
      BY <1>0, <2>5 DEF SaveGenerated, Install, At, IdentityInv, RepoType
    <3> QED
      BY <3>1 DEF IdentityStep
  <2>6. CASE InspectBackup
    <3>1. repo.secrets \in Keys /\ repo'.secrets = repo.secrets
      <4>1. repo.secrets = repo.backup /\ repo.backup \in Keys
        BY <1>0, <2>6 DEF InspectBackup, IdentityInv, RepoType
      <4> QED
        BY <1>0, <2>6, <4>1 DEF InspectBackup, RepoType
    <3> QED
      BY <3>1 DEF IdentityStep
  <2>7. CASE RestoreSecrets
    <3>1. repo.secrets = None /\ repo.generated \in Keys /\ repo'.secrets = repo.generated
      BY <1>0, <2>7 DEF RestoreSecrets, RepoType
    <3> QED
      BY <1>0, <3>1 DEF IdentityStep
  <2> QED
    BY <1>4, <2>3, <2>4, <2>5, <2>6, <2>7
<1>5. CASE Clone
  <2>1. repo.rules \in Keys
    BY <1>0, <1>5 DEF Clone, KeyInv, RepoType
  <2>2. /\ UNCHANGED <<repo.rules, repo.deploy, repo.secrets>> /\ repo'.generated = None
    BY <1>0, <1>5 DEF Clone, RepoType
  <2> QED
    BY <1>0, <2>1, <2>2 DEF AgeStep, DeployStep, IdentityStep, LossInv
<1>6. CASE LoseSecrets
  <2>1. /\ UNCHANGED <<repo.rules, repo.agekey, repo.deploy, repo.generated>>
        /\ repo.secrets \in Keys /\ repo'.secrets = None /\ "lose" \in FaultKinds
    BY <1>0, <1>6 DEF LoseSecrets, Fault, RepoType
  <2> QED
    BY <2>1 DEF AgeStep, DeployStep, IdentityStep
<1> QED
  BY <1>1, <1>2, <1>3, <1>4, <1>5, <1>6, OthersKeepKeys

(* Only a mistaken deletion separates a configuration from its identity.    *)
LEMMA LossStep ==
  ASSUME IInv, LossInv, [Next]_vars
  PROVE  LossInv'
<1> USE DEF IInv, TypeOK, RepoType
<1>1. IInv' /\ IdentityStep
  BY NextIInv, KeySteps
<1>2. CASE repo.secrets \in Keys
  BY <1>1, <1>2 DEF IdentityStep, LossInv
<1>3. CASE repo.secrets \notin Keys
  BY <1>1, <1>3 DEF IdentityStep, LossInv
<1> QED
  BY <1>2, <1>3

LEMMA LossInvariant == Spec => [](IInv /\ LossInv)
<1>1. Init => LossInv
  BY DEF Init, EmptyRepo, LossInv, None, Keys
<1>2. IInv /\ LossInv /\ [Next]_vars => LossInv'
  BY LossStep
<1> QED
  BY <1>1, <1>2, InductiveInvariant, PTL DEF Spec

(* Init repeated, stopped, or continued in a clone, generation, encryption  *)
(* and mistaken deletions together: no age key and no deploy key is ever    *)
(* exchanged for another, and no identity as long as any copy is left.      *)
THEOREM KeyRegistersHold == Spec => ImplementsKeyRegisters
<1>1. Init => AgeKey!Init /\ DeployPair!Init /\ Identity!Init
  BY DEF Init, EmptyRepo, AgeKey!Init, DeployPair!Init, Identity!Init, None, Keys
<1>2. IInv /\ LossInv /\ [Next]_vars
        => /\ [AgeKey!Record \/ AgeKey!Lose]_AgeKeys
           /\ [DeployPair!Record \/ DeployPair!Lose]_DeployKeys
           /\ [Identity!Record \/ Identity!Lose]_IdentityKeys
  <2> SUFFICES ASSUME IInv, LossInv, [Next]_vars
               PROVE  /\ [AgeKey!Record]_AgeKeys
                      /\ [DeployPair!Record]_DeployKeys
                      /\ [Identity!Record \/ Identity!Lose]_IdentityKeys
    OBVIOUS
  <2>1. IInv' /\ AgeStep /\ DeployStep /\ IdentityStep
    BY NextIInv, KeySteps
  <2>2. [AgeKey!Record]_AgeKeys
    <3>1. AgeKeys' = AgeKeys \/ (AgeKeys = {} /\ AgeKeys' \in {{k} : k \in Keys})
      <4>0. Template \notin Keys
        BY DEF Template, Keys
      <4>1. CASE repo.rules \in Keys
        BY <2>1, <4>1, WhichKeys DEF AgeStep
      <4>2. CASE repo.rules \notin Keys /\ repo.agekey \in Keys
        BY <2>1, <4>0, <4>2, WhichKeys DEF AgeStep
      <4>3. CASE repo.rules \notin Keys /\ repo.agekey \notin Keys
        BY <2>1, <4>3, WhichKeys DEF AgeStep
      <4> QED
        BY <4>1, <4>2, <4>3
    <3> QED
      BY <3>1 DEF AgeKey!Record, AgeKeys
  <2>3. [DeployPair!Record]_DeployKeys
    <3>1. DeployKeys' = DeployKeys \/ (DeployKeys = {} /\ DeployKeys' \in {{k} : k \in Keys})
      BY <2>1 DEF DeployStep, DeployKeys
    <3> QED
      BY <3>1 DEF DeployPair!Record, DeployKeys
  <2>4. [Identity!Record \/ Identity!Lose]_IdentityKeys
    <3>1. \/ IdentityKeys' = IdentityKeys
          \/ IdentityKeys = {} /\ IdentityKeys' \in {{k} : k \in Keys}
          \/ IdentityKeys' = {} /\ "lose" \in FaultKinds
      <4>0. None \notin Keys
        BY DEF None, Keys
      <4>1. CASE repo.secrets \in Keys
        <5>1. CASE repo'.secrets = repo.secrets
          BY <4>1, <5>1, WhichKeys
        <5>2. CASE repo'.secrets = None /\ UNCHANGED repo.generated /\ "lose" \in FaultKinds
          <6>1. repo.generated \in Keys => repo.generated = repo.secrets
            BY <4>1 DEF IInv, IdentityInv
          <6> QED
            BY <4>0, <4>1, <5>2, <6>1, WhichKeys
        <5> QED
          BY <2>1, <4>1, <5>1, <5>2 DEF IdentityStep
      <4>2. CASE repo.secrets \notin Keys /\ repo.generated \in Keys
        BY <2>1, <4>0, <4>2, WhichKeys DEF IdentityStep
      <4>3. CASE repo.secrets \notin Keys /\ repo.generated \notin Keys
        BY <2>1, <4>3, WhichKeys DEF IdentityStep
      <4> QED
        BY <4>1, <4>2, <4>3
    <3> QED
      BY <3>1 DEF Identity!Record, Identity!Lose, IdentityKeys
  <2> QED
    BY <2>2, <2>3, <2>4
<1> QED
  BY <1>1, <1>2, LossInvariant, PTL
     DEF Spec, ImplementsKeyRegisters, AgeKey!Spec, DeployPair!Spec, Identity!Spec,
         AgeKeys, DeployKeys, IdentityKeys
=============================================================================
