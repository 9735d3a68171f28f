------------------------------- MODULE SopsFiles -------------------------------
(***************************************************************************)
(* The life of the files .sops.yaml names, in the work tree, in the index  *)
(* of git and in the last commit, under clustertool encrypt and decrypt,   *)
(* the pre-commit hook, and the operator who saves, stages and commits.    *)
(*                                                                         *)
(* A file is plain text, the cipher text of it, or neither; the text is    *)
(* the number of the save it comes from.  Commands read which files are    *)
(* encrypted first and act on the files afterwards, one at a time, so      *)
(* saves, git add and the other process fall in between.                   *)
(*                                                                         *)
(* ExecuteCheck lists a file once for each rule that matches it: an entry  *)
(* is a rule and a file.  Entries are processed in any order here, in the  *)
(* order of rules and paths in the code.                                   *)
(***************************************************************************)
EXTENDS Integers, FiniteSets

CONSTANTS
  Files,        \* the files of the work tree that some creation rule matches
  Matching,     \* set of <<rule, file>>: the rule's path_regex matches
  Settings,     \* cluster-secrets.sops.yaml
  FaultKinds,   \* subset of {"crash", "overlap"}
  MaxActs       \* bound on saves, deletions, decryptions and faults together

ASSUME FilesAssumption ==
  /\ Settings \in Files
  /\ \A m \in Matching : m[2] \in Files
  /\ \A f \in Files : \E m \in Matching : m[2] = f
  /\ FaultKinds \subseteq {"crash", "overlap"}
  /\ MaxActs \in Nat

VARIABLES
  work, index, head,   \* the three copies git knows, by file
  run,        \* by process: what it does (see Idle)
  saved,      \* by file: the last save (0: deleted)
  damaged,    \* files a crash has torn, or whose last save was overwritten
  acts        \* saves, deletions, decryptions and faults so far

vars == <<work, index, head, run, saved, damaged, acts>>

-----------------------------------------------------------------------------
(* Values.                                                                  *)

Text(form, value) == [form |-> form, value |-> value]
None == Text("none", 0)
Torn == Text("torn", -1)

Procs == {"terminal", "hook"}
Other(p) == IF p = "hook" THEN "terminal" ELSE "hook"
NoEntry == <<"no rule", "no file">>

(* A process that does not run.  The last two fields only observe it: files *)
(* saved while it runs; whether git add or the other process came between.  *)
Idle == [cmd     |-> "none",
         pc      |-> "idle",
         listed  |-> {},        \* hook: entries staged, then those unencrypted
         todo    |-> {},        \* entries still to be encrypted or decrypted
         entry   |-> NoEntry,   \* the entry in hand
         result  |-> None,      \* what is to be written to its file
         touched |-> {},
         raced   |-> FALSE]

(* isEncrypted: the document parses and has the top-level key sops.  Twice  *)
(* encrypted, it has the key twice, and does not parse any more.            *)
IsEncrypted(text) == text.form = "cipher"

(* What encryptFile can make of a text; None where it refuses.  A bad text  *)
(* does not parse, or is a settings file with values that are not strings.  *)
(* What is left of a torn file may or may not parse.                        *)
Encryptions(text) ==
  CASE text.form = "plain"                -> {Text("cipher", text.value)}
    [] text.form = "torn"                 -> {Text("cipher", text.value), None}
    [] text.form \in {"cipher", "double"} -> {Text("double", text.value)}
    [] text.form \in {"none", "bad"}      -> {None}

(* Mutant: the outcome of decryptData is written without looking at its     *)
(* error.                                                                   *)
DecryptUnverified(text) ==
  {IF IsEncrypted(text) THEN Text("plain", text.value) ELSE Torn}

(* decryptData: cipher text whose MAC is right, or an error.                *)
Decryptions(text) ==
  {IF IsEncrypted(text) THEN Text("plain", text.value) ELSE None}

Results(cmd, text) == IF cmd = "decrypt" THEN Decryptions(text) ELSE Encryptions(text)

FilesOf(entries) == {m[2] : m \in entries}
Staged == {f \in Files : index[f] # head[f]}

Init ==
  /\ work = [f \in Files |-> Text("plain", 1)]
  /\ index = [f \in Files |-> None] /\ head = [f \in Files |-> None]
  /\ run = [p \in Procs |-> Idle]
  /\ saved = [f \in Files |-> 1] /\ damaged = {}
  /\ acts = 0

-----------------------------------------------------------------------------
(* Steps of the two processes.                                              *)

End(p) == run' = [run EXCEPT ![p] = Idle]

(* What the operator and the faults may do is bounded.                      *)
Act == acts < MaxActs /\ acts' = acts + 1

(* An act beside a running process is a fault: it is possible, and bounded. *)
Beside(p) ==
  IF run[p] = Idle THEN UNCHANGED acts ELSE "overlap" \in FaultKinds /\ Act

(* Mutant: encrypt does not look at the status it has read.                 *)
StartOnEveryFile(cmd) ==
  /\ run["terminal"] = Idle
  /\ IF cmd = "decrypt" /\ run["hook"] = Idle THEN Act ELSE Beside("hook")
  /\ run' = [run EXCEPT !["terminal"] =
       [Idle EXCEPT !.cmd = cmd, !.pc = "next",
                    !.todo = {m \in Matching : work[m[2]] # None}]]
  /\ UNCHANGED <<work, index, head, saved, damaged>>

(* clustertool encrypt, or decrypt: ExecuteCheck reads every file that      *)
(* matches, before the first is changed.                                    *)
StartCommand(cmd) ==
  /\ run["terminal"] = Idle
  /\ IF cmd = "decrypt" /\ run["hook"] = Idle THEN Act ELSE Beside("hook")
  /\ run' = [run EXCEPT !["terminal"] =
       [Idle EXCEPT !.cmd = cmd, !.pc = "next",
                    !.todo = {m \in Matching :
                                /\ work[m[2]] # None
                                /\ IsEncrypted(work[m[2]]) <=> cmd = "decrypt"}]]
  /\ UNCHANGED <<work, index, head, saved, damaged>>

(* git commit runs the hook, which lists what is staged, deletions aside.   *)
StartCommit ==
  /\ run["hook"] = Idle /\ Staged # {}
  /\ Beside("terminal")
  /\ run' = [run EXCEPT !["hook"] =
       [Idle EXCEPT !.cmd = "precommit", !.pc = "stage",
                    !.listed = {m \in Matching : m[2] \in Staged /\ index[m[2]] # None}]]
  /\ UNCHANGED <<work, index, head, saved, damaged>>

Missing(entries) == \E f \in FilesOf(entries) : work[f] = None

(* Mutant: the index is taken to hold what the work tree does.              *)
TrustIndex ==
  /\ run["hook"].pc = "stage"
  /\ run' = [run EXCEPT !["hook"].pc = "check"]
  /\ UNCHANGED <<work, index, head, saved, damaged, acts>>

(* Every listed file is staged again as it is in the work tree; one that is *)
(* missing there ends the hook.                                             *)
StageAgain ==
  /\ run["hook"].pc = "stage"
  /\ IF Missing(run["hook"].listed)
     THEN End("hook") /\ UNCHANGED index
     ELSE /\ index' = [f \in Files |->
                         IF f \in FilesOf(run["hook"].listed) THEN work[f] ELSE index[f]]
          /\ run' = [run EXCEPT !["hook"].pc = "check"]
  /\ UNCHANGED <<work, head, saved, damaged, acts>>

(* Mutant: the hook only reports, like checkcrypt.                          *)
ReportStaged ==
  /\ run["hook"].pc = "check"
  /\ IF \E m \in run["hook"].listed : ~IsEncrypted(work[m[2]])
     THEN End("hook") ELSE run' = [run EXCEPT !["hook"].pc = "commit"]
  /\ UNCHANGED <<work, index, head, saved, damaged, acts>>

(* The encryption status is that of the work tree.                          *)
CheckStaged ==
  /\ run["hook"].pc = "check"
  /\ LET open == {m \in run["hook"].listed : ~IsEncrypted(work[m[2]])}
     IN IF Missing(run["hook"].listed)
        THEN End("hook")
        ELSE run' = [run EXCEPT !["hook"].todo = open, !["hook"].listed = open,
                                !["hook"].pc = IF open = {} THEN "commit" ELSE "next"]
  /\ UNCHANGED <<work, index, head, saved, damaged, acts>>

(* Mutant: encrypt and decrypt go on after an error.                        *)
ReadOrSkip(p, m) ==
  /\ run[p].pc = "next" /\ m \in run[p].todo
  /\ \E result \in Results(run[p].cmd, work[m[2]]) :
       run' = IF result = None
              THEN [run EXCEPT ![p].todo = @ \ {m}]
              ELSE [run EXCEPT ![p].pc = "write", ![p].entry = m, ![p].result = result]
  /\ UNCHANGED <<work, index, head, saved, damaged, acts>>

(* The next file is read.  An error ends encrypt and decrypt; the hook      *)
(* reports it and goes on.                                                  *)
Read(p, m) ==
  /\ run[p].pc = "next" /\ m \in run[p].todo
  /\ \E result \in Results(run[p].cmd, work[m[2]]) :
       \/ /\ result # None
          /\ run' = [run EXCEPT ![p].pc = "write", ![p].entry = m, ![p].result = result]
       \/ result = None /\ p = "terminal" /\ End(p)
       \/ result = None /\ p = "hook" /\ run' = [run EXCEPT ![p].todo = @ \ {m}]
  /\ UNCHANGED <<work, index, head, saved, damaged, acts>>

(* The other process runs, and does not notice a write.                     *)
Raced(p) == run[p] # Idle

(* Mutant: encrypt stages its files as the hook does.                       *)
WriteToAdd(p) ==
  /\ run[p].pc = "write"
  /\ work' = [work EXCEPT ![run[p].entry[2]] = run[p].result]
  /\ run' = [run EXCEPT ![p].todo = @ \ {run[p].entry}, ![p].pc = "add"]
  /\ UNCHANGED <<index, head, saved, damaged, acts>>

(* os.WriteFile replaces the text in place.                                 *)
Write(p) ==
  /\ run[p].pc = "write"
  /\ work' = [work EXCEPT ![run[p].entry[2]] = run[p].result]
  /\ LET entry == run[p].entry
     IN run' = [run EXCEPT ![p] = [run[p] EXCEPT !.todo = run[p].todo \ {entry},
                                                 !.result = None,
                                                 !.pc = IF p = "hook" THEN "add" ELSE "next",
                                                 !.entry = IF p = "hook" THEN entry ELSE NoEntry],
                           ![Other(p)].raced = Raced(Other(p))]
  /\ UNCHANGED <<index, head, saved, damaged, acts>>

(* The hook stages what it has encrypted.                                   *)
Add ==
  /\ run["hook"].pc = "add"
  /\ LET f == run["hook"].entry[2]
     IN IF work[f] = None
        THEN End("hook") /\ UNCHANGED index
        ELSE /\ index' = [index EXCEPT ![f] = work[f]]
             /\ run' = [run EXCEPT !["hook"].pc = "next", !["hook"].entry = NoEntry]
  /\ UNCHANGED <<work, head, saved, damaged, acts>>

(* shamCheck: the settings carry the mark of an encrypted file.             *)
Sham == work[Settings].form \in {"cipher", "double"}

Recheck ==
  /\ run["hook"].pc = "next" /\ run["hook"].todo = {}
  /\ IF Sham /\ \A f \in FilesOf(run["hook"].listed) : IsEncrypted(work[f])
     THEN run' = [run EXCEPT !["hook"].pc = "commit"]
     ELSE End("hook")
  /\ UNCHANGED <<work, index, head, saved, damaged, acts>>

(* The hook has succeeded: git commits the index as it is by now.           *)
Commit ==
  /\ run["hook"].pc = "commit"
  /\ head' = index /\ End("hook")
  /\ UNCHANGED <<work, index, saved, damaged, acts>>

Finish ==
  /\ run["terminal"].pc = "next" /\ run["terminal"].todo = {}
  /\ End("terminal")
  /\ UNCHANGED <<work, index, head, saved, damaged, acts>>

(* A process is killed, or its write fails: the file it was writing may be  *)
(* left truncated.                                                          *)
Crash(p) ==
  /\ "crash" \in FaultKinds /\ Act
  /\ run[p] # Idle
  /\ \/ End(p) /\ UNCHANGED <<work, damaged>>
     \/ /\ run[p].pc = "write"
        /\ work' = [work EXCEPT ![run[p].entry[2]] = Torn]
        /\ damaged' = damaged \cup {run[p].entry[2]}
        /\ run' = [run EXCEPT ![p] = Idle, ![Other(p)].raced = Raced(Other(p))]
  /\ UNCHANGED <<index, head, saved>>

-----------------------------------------------------------------------------
(* The operator.                                                            *)

BeingWritten(f) == \E p \in Procs : run[p].pc = "write" /\ run[p].entry[2] = f

Put(f, text) ==
  /\ work' = [work EXCEPT ![f] = text]
  /\ saved' = [saved EXCEPT ![f] = text.value]
  /\ damaged' = IF BeingWritten(f) THEN damaged \cup {f} ELSE damaged \ {f}
  /\ run' = [p \in Procs |->
               IF run[p] = Idle THEN Idle ELSE [run[p] EXCEPT !.touched = @ \cup {f}]]
  /\ UNCHANGED <<index, head>>

(* An editor saves a file whether or not a command runs.                    *)
Save(f) == Act /\ \E form \in {"plain", "bad"} : Put(f, Text(form, acts + 2))

Delete(f) == Act /\ work[f] # None /\ Put(f, None)

(* What a command has refused is repaired after it.                         *)
Repair(f) ==
  /\ \A p \in Procs : run[p] = Idle
  /\ work[f].form \in {"bad", "double", "torn"}
  /\ Put(f, Text("plain", saved[f]))
  /\ UNCHANGED acts

(* git add.                                                                 *)
Stage(f) ==
  /\ index[f] # work[f]
  /\ Beside("hook")
  /\ index' = [index EXCEPT ![f] = work[f]]
  /\ run' = [run EXCEPT !["hook"].raced = Raced("hook")]
  /\ UNCHANGED <<work, head, saved, damaged>>

-----------------------------------------------------------------------------
ReadWrite(p) == Write(p) \/ \E m \in Matching : Read(p, m)
Hook == StageAgain \/ CheckStaged \/ Add \/ Recheck \/ Commit \/ ReadWrite("hook")
Terminal == Finish \/ ReadWrite("terminal")

Next ==
  \/ \E cmd \in {"encrypt", "decrypt"} : StartCommand(cmd)
  \/ StartCommit
  \/ Hook \/ Terminal
  \/ \E p \in Procs : Crash(p)
  \/ \E f \in Files : Save(f) \/ Delete(f) \/ Repair(f) \/ Stage(f)

Spec == Init /\ [][Next]_vars

(* A started command goes on.  The operator goes on staging and committing, *)
(* and repairs what a message names; nobody has to run encrypt.             *)
Fairness ==
  /\ WF_vars(Hook) /\ WF_vars(Terminal)
  /\ SF_vars(StartCommit)
  /\ SF_vars(\E f \in Files : Stage(f)) /\ SF_vars(\E f \in Files : Repair(f))

FairSpec == Spec /\ Fairness

-----------------------------------------------------------------------------
(* Properties.                                                              *)

Forms == {"none", "plain", "bad", "cipher", "double", "torn"}
Contents == [form : Forms, value : Int]

Runs ==
  [cmd     : {"none", "encrypt", "decrypt", "precommit"},
   pc      : {"idle", "stage", "check", "next", "write", "add", "commit"},
   listed  : SUBSET Matching,
   todo    : SUBSET Matching,
   entry   : Matching \cup {NoEntry},
   result  : Contents,
   touched : SUBSET Files,
   raced   : BOOLEAN]

(* Copies are texts; a process has an entry in hand exactly while it works  *)
(* on one, and each process runs its own commands.                          *)
TypeOK ==
  /\ work \in [Files -> Contents] /\ index \in [Files -> Contents]
  /\ head \in [Files -> Contents]
  /\ run \in [Procs -> Runs]
  /\ saved \in [Files -> Nat] /\ damaged \subseteq Files /\ acts \in Nat
  /\ \A p \in Procs :
       /\ run[p].pc \in {"write", "add"} => run[p].entry \in Matching
       /\ run[p].cmd = "none" <=> run[p].pc = "idle"
       /\ run[p].cmd = "none" <=> run[p] = Idle
  /\ run["terminal"].cmd # "precommit"
  /\ run["terminal"].pc \in {"idle", "next", "write"}
  /\ run["hook"].cmd \in {"none", "precommit"}

(* A commit takes no plain or torn text of a file .sops.yaml names into     *)
(* HEAD, whatever the operator saves while the hook runs - unless something *)
(* else was staged, or another command wrote, during that commit: the hook  *)
(* reads the work tree, git commits the index.                              *)
OnlyEncryptedCommitted ==
  [][\A f \in Files : head'[f] # head[f] =>
        run["hook"].raced \/ head'[f].form \in {"cipher", "none"}]_vars

(* The text last saved is in the work tree, plain or encrypted, whatever    *)
(* commands run, alone or together - unless a crash tore the file or it was *)
(* saved in the instant between a command's read and write of it.           *)
NothingLost ==
  \A f \in Files : work[f].value = saved[f] \/ f \in damaged

(* "Skip files that are already encrypted": no command encrypts a cipher    *)
(* text again, unless another one wrote while it ran.                       *)
EncryptedOnce ==
  [][\A f \in Files : IsEncrypted(work[f]) /\ work'[f].form = "double" =>
        \E p \in Procs : run[p].raced]_vars

(* Where encrypt has done with a file, and at its successful end with all   *)
(* of them, no plain text is left that was there when it began.             *)
EncryptLeavesNoPlain ==
  LET t == run["terminal"]
  IN t.cmd = "encrypt" /\ ~t.raced =>
       \A f \in Files \ (t.touched \cup FilesOf(t.todo)) :
          work[f].form \in {"cipher", "double", "none"}

(* Staging and committing is enough: the last save of each file gets into   *)
(* HEAD without a run of encrypt, in spite of refused commits, crashes and  *)
(* overlaps, unless the save itself was destroyed.                          *)
SavedIsCommitted ==
  \A f \in Files : []<>(f \in damaged \/ head[f].value = saved[f])
=============================================================================
