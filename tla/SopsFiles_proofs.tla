---------------------------- MODULE SopsFiles_proofs ----------------------------
(***************************************************************************)
(* What SopsFiles keeps for every set of files and rules, with any number  *)
(* of saves, deletions, crashes and overlapping commands.                  *)
(***************************************************************************)
EXTENDS SopsFiles, TLAPS

-----------------------------------------------------------------------------
(* The texts the cipher makes, and the records of the processes.            *)

LEMMA NoneFacts ==
  /\ None \in Contents /\ Torn \in Contents
  /\ None.value = 0 /\ None.form = "none" /\ Torn.form = "torn"
BY DEF None, Torn, Text, Contents, Forms

(* What is written keeps the value of what was read.                        *)
LEMMA ResultsFacts ==
  ASSUME NEW cmd, NEW text \in Contents, NEW r \in Results(cmd, text), r # None
  PROVE  /\ r \in Contents
         /\ r.value = text.value
         /\ cmd = "decrypt" => r.form = "plain"
         /\ cmd # "decrypt" => r.form \in {"cipher", "double"}
<1>1. CASE cmd = "decrypt"
  BY <1>1 DEF Results, Decryptions, IsEncrypted, Text, None, Contents, Forms
<1>2. CASE cmd # "decrypt"
  <2>1. r \in Encryptions(text)
    BY <1>2 DEF Results
  <2> QED
    BY <1>2, <2>1 DEF Encryptions, Text, None, Contents, Forms
<1> QED
  BY <1>1, <1>2

LEMMA IdleFacts ==
  /\ Idle \in Runs
  /\ Idle.cmd = "none" /\ Idle.pc = "idle" /\ Idle.todo = {} /\ Idle.raced = FALSE
BY NoneFacts DEF Idle, Runs, NoEntry

LEMMA IdleUnraced == [Idle EXCEPT !.raced = FALSE] = Idle
<1>1. \A r \in Runs : r.raced = FALSE => [r EXCEPT !.raced = FALSE] = r
  BY DEF Runs
<1> QED
  BY <1>1, IdleFacts

LEMMA ProcsFacts ==
  /\ "terminal" \in Procs /\ "hook" \in Procs
  /\ \A p \in Procs : Other(p) \in Procs /\ Other(p) # p
BY DEF Procs, Other

(* A file of a rule is a file.                                              *)
LEMMA MatchingFacts == \A m \in Matching : m[2] \in Files
BY FilesAssumption

-----------------------------------------------------------------------------
(* Type correctness: the records of the processes first.                    *)

(* What TypeOK says of one process.                                         *)
RunOK(p, r) ==
  /\ r \in Runs
  /\ r.pc \in {"write", "add"} => r.entry \in Matching
  /\ r.cmd = "none" <=> r.pc = "idle"
  /\ r.cmd = "none" <=> r = Idle
  /\ p = "terminal" => r.cmd # "precommit" /\ r.pc \in {"idle", "next", "write"}
  /\ p = "hook" => r.cmd \in {"none", "precommit"}

TypeSplit ==
  /\ work \in [Files -> Contents] /\ index \in [Files -> Contents]
  /\ head \in [Files -> Contents]
  /\ saved \in [Files -> Nat] /\ damaged \subseteq Files /\ acts \in Nat
  /\ run = [p \in Procs |-> run[p]]
  /\ \A p \in Procs : RunOK(p, run[p])

LEMMA TypeOKSplit == TypeOK <=> TypeSplit
BY DEF TypeOK, TypeSplit, RunOK, Procs

LEMMA IdleOK == \A p \in Procs : RunOK(p, Idle)
BY IdleFacts DEF RunOK, Procs

LEMMA InitType == Init => TypeOK
<1> SUFFICES ASSUME Init PROVE TypeSplit
  BY TypeOKSplit
<1>1. Text("plain", 1) \in Contents
  BY DEF Text, Contents, Forms
<1> QED
  BY <1>1, NoneFacts, IdleOK DEF Init, TypeSplit

LEMMA ReadType ==
  ASSUME TypeSplit, NEW p \in Procs, NEW m \in Matching, Read(p, m)
  PROVE  TypeSplit'
<1>1. work[m[2]] \in Contents
  BY MatchingFacts DEF TypeSplit
<1>2. RunOK(p, run[p]) /\ run[p].pc = "next"
  BY DEF TypeSplit, Read
<1>3. PICK result \in Results(run[p].cmd, work[m[2]]) :
         \/ /\ result # None
            /\ run' = [run EXCEPT ![p].pc = "write", ![p].entry = m, ![p].result = result]
         \/ result = None /\ p = "terminal" /\ End(p)
         \/ result = None /\ p = "hook" /\ run' = [run EXCEPT ![p].todo = @ \ {m}]
  BY DEF Read
<1>4. CASE result # None
  <2>1. run' = [run EXCEPT ![p] = [run[p] EXCEPT !.pc = "write", !.entry = m, !.result = result]]
    BY <1>3, <1>4 DEF TypeSplit
  <2>2. result \in Contents
    BY <1>1, <1>4, ResultsFacts
  <2>3. RunOK(p, [run[p] EXCEPT !.pc = "write", !.entry = m, !.result = result])
    BY <1>2, <2>2, IdleFacts DEF RunOK, Runs
  <2> QED
    BY <2>1, <2>3 DEF TypeSplit, Read
<1>5. CASE End(p)
  BY <1>5, IdleOK DEF TypeSplit, Read, End
<1>6. CASE run' = [run EXCEPT ![p].todo = @ \ {m}]
  <2>1. RunOK(p, [run[p] EXCEPT !.todo = @ \ {m}])
    BY <1>2, IdleFacts DEF RunOK, Runs
  <2> QED
    BY <1>6, <2>1 DEF TypeSplit, Read
<1> QED
  BY <1>3, <1>4, <1>5, <1>6

(* A process that is told of a race remains what it is.                     *)
LEMMA RacedOK ==
  ASSUME NEW q \in Procs, RunOK(q, run[q])
  PROVE  RunOK(q, [run[q] EXCEPT !.raced = Raced(q)])
<1>1. CASE run[q] = Idle
  <2>1. [run[q] EXCEPT !.raced = Raced(q)] = [Idle EXCEPT !.raced = FALSE]
    BY <1>1 DEF Raced
  <2> QED
    BY <2>1, IdleUnraced, IdleOK
<1>2. CASE run[q] # Idle
  <2>1. [run[q] EXCEPT !.raced = Raced(q)] = [run[q] EXCEPT !.raced = TRUE]
    BY <1>2 DEF Raced
  <2>2. RunOK(q, [run[q] EXCEPT !.raced = TRUE])
    BY <1>2, IdleFacts DEF RunOK, Runs
  <2> QED
    BY <2>1, <2>2
<1> QED
  BY <1>1, <1>2

LEMMA WriteType ==
  ASSUME TypeSplit, NEW p \in Procs, Write(p)
  PROVE  TypeSplit'
<1> DEFINE entry == run[p].entry
           w == [run[p] EXCEPT !.todo = run[p].todo \ {entry}, !.result = None,
                               !.pc = IF p = "hook" THEN "add" ELSE "next",
                               !.entry = IF p = "hook" THEN entry ELSE NoEntry]
           o == [run[Other(p)] EXCEPT !.raced = Raced(Other(p))]
<1>1. RunOK(p, run[p]) /\ run[p].pc = "write" /\ entry \in Matching
  BY DEF TypeSplit, Write, RunOK
<1>2. RunOK(p, w)
  BY <1>1, NoneFacts, IdleFacts DEF RunOK, Runs, Procs
<1>3. RunOK(Other(p), o)
  BY ProcsFacts, RacedOK DEF TypeSplit
<1>4. run' = [run EXCEPT ![p] = w, ![Other(p)] = o]
  BY ProcsFacts DEF Write, TypeSplit
<1>5. work' \in [Files -> Contents]
  BY <1>1 DEF RunOK, Runs, Write, TypeSplit
<1> HIDE DEF w, o
<1> QED
  BY <1>2, <1>3, <1>4, <1>5, ProcsFacts DEF TypeSplit, Write

(* The other steps of the two processes.                                    *)
LEMMA HookType ==
  ASSUME TypeSplit, StageAgain \/ CheckStaged \/ Add \/ Recheck \/ Commit
  PROVE  TypeSplit'
<1> DEFINE h == run["hook"]
<1>1. RunOK("hook", h) /\ h # Idle
  BY ProcsFacts, IdleFacts DEF TypeSplit, StageAgain, CheckStaged, Add, Recheck, Commit
<1>2. index' \in [Files -> Contents] /\ head' \in [Files -> Contents]
      /\ UNCHANGED <<work, saved, damaged, acts>>
  <2>1. CASE StageAgain \/ Commit
    BY <2>1 DEF TypeSplit, StageAgain, Commit
  <2>2. CASE CheckStaged \/ Recheck
    BY <2>2 DEF TypeSplit, CheckStaged, Recheck
  <2>3. CASE Add
    BY <2>3 DEF TypeSplit, Add
  <2> QED
    BY <2>1, <2>2, <2>3
<1>3. /\ RunOK("hook", [h EXCEPT !.pc = "check"])
      /\ RunOK("hook", [h EXCEPT !.pc = "commit"])
      /\ RunOK("hook", [h EXCEPT !.pc = "next", !.entry = NoEntry])
  <2>1. RunOK("hook", [h EXCEPT !.pc = "check"])
    BY <1>1, IdleFacts DEF RunOK, Runs
  <2>2. RunOK("hook", [h EXCEPT !.pc = "commit"])
    BY <1>1, IdleFacts DEF RunOK, Runs
  <2>3. RunOK("hook", [h EXCEPT !.pc = "next", !.entry = NoEntry])
    BY <1>1, IdleFacts DEF RunOK, Runs
  <2> QED
    BY <2>1, <2>2, <2>3
<1>4. \A open \in SUBSET Matching :
         RunOK("hook", [h EXCEPT !.todo = open, !.listed = open,
                                 !.pc = IF open = {} THEN "commit" ELSE "next"])
  <2> TAKE open \in SUBSET Matching
  <2>1. RunOK("hook", [h EXCEPT !.todo = open, !.listed = open, !.pc = "commit"])
    BY <1>1, IdleFacts DEF RunOK, Runs
  <2>2. RunOK("hook", [h EXCEPT !.todo = open, !.listed = open, !.pc = "next"])
    BY <1>1, IdleFacts DEF RunOK, Runs
  <2> QED
    BY <2>1, <2>2
<1>5. h.listed \subseteq Matching
  BY <1>1 DEF RunOK, Runs
<1>6. \E r : RunOK("hook", r) /\ run' = [run EXCEPT !["hook"] = r]
  <2>1. CASE StageAgain \/ Add \/ Recheck \/ Commit
    BY <2>1, <1>3, IdleOK, ProcsFacts DEF StageAgain, Add, Recheck, Commit, End, TypeSplit
  <2>2. CASE CheckStaged
    <3> DEFINE open == {m \in h.listed : ~IsEncrypted(work[m[2]])}
    <3>1. open \in SUBSET Matching
      BY <1>5
    <3>2. \/ End("hook")
          \/ run' = [run EXCEPT !["hook"] =
               [h EXCEPT !.todo = open, !.listed = open,
                         !.pc = IF open = {} THEN "commit" ELSE "next"]]
      BY <2>2, ProcsFacts DEF CheckStaged, TypeSplit
    <3> HIDE DEF open
    <3> QED
      BY <3>1, <3>2, <1>4, IdleOK, ProcsFacts DEF End, TypeSplit
  <2> QED
    BY <2>1, <2>2
<1> QED
  BY <1>2, <1>6, ProcsFacts DEF TypeSplit

(* Beginnings and ends.                                                     *)
LEMMA BoundaryType ==
  ASSUME TypeSplit,
         \/ \E cmd \in {"encrypt", "decrypt"} : StartCommand(cmd)
         \/ StartCommit \/ Finish \/ \E p \in Procs : Crash(p)
  PROVE  TypeSplit'
<1>1. ASSUME NEW cmd \in {"encrypt", "decrypt"}, StartCommand(cmd)
      PROVE  TypeSplit'
  <2> DEFINE todo == {m \in Matching : /\ work[m[2]] # None
                                       /\ IsEncrypted(work[m[2]]) <=> cmd = "decrypt"}
             r == [Idle EXCEPT !.cmd = cmd, !.pc = "next", !.todo = todo]
  <2>1. RunOK("terminal", r)
    BY IdleFacts DEF RunOK, Runs
  <2>2. run' = [run EXCEPT !["terminal"] = r]
    BY <1>1 DEF StartCommand
  <2>3. acts' \in Nat
    BY <1>1 DEF StartCommand, Beside, Act, TypeSplit
  <2> HIDE DEF r
  <2> QED
    BY <1>1, <2>1, <2>2, <2>3, ProcsFacts DEF TypeSplit, StartCommand
<1>2. CASE StartCommit
  <2> DEFINE listed == {m \in Matching : m[2] \in Staged /\ index[m[2]] # None}
             r == [Idle EXCEPT !.cmd = "precommit", !.pc = "stage", !.listed = listed]
  <2>1. RunOK("hook", r)
    BY IdleFacts DEF RunOK, Runs
  <2>2. run' = [run EXCEPT !["hook"] = r]
    BY <1>2 DEF StartCommit
  <2>3. acts' \in Nat
    BY <1>2 DEF StartCommit, Beside, Act, TypeSplit
  <2> HIDE DEF r
  <2> QED
    BY <1>2, <2>1, <2>2, <2>3, ProcsFacts DEF TypeSplit, StartCommit
<1>3. CASE Finish
  BY <1>3, IdleOK, ProcsFacts DEF TypeSplit, Finish, End
<1>4. ASSUME NEW p \in Procs, Crash(p)
      PROVE  TypeSplit'
  <2>1. acts' \in Nat /\ UNCHANGED <<index, head, saved>>
    BY <1>4 DEF Crash, Act, TypeSplit
  <2>2. CASE End(p) /\ UNCHANGED <<work, damaged>>
    BY <2>1, <2>2, IdleOK DEF TypeSplit, End
  <2>3. CASE /\ run[p].pc = "write"
             /\ work' = [work EXCEPT ![run[p].entry[2]] = Torn]
             /\ damaged' = damaged \cup {run[p].entry[2]}
             /\ run' = [run EXCEPT ![p] = Idle, ![Other(p)].raced = Raced(Other(p))]
    <3> DEFINE o == [run[Other(p)] EXCEPT !.raced = Raced(Other(p))]
    <3>1. RunOK(Other(p), o)
      BY ProcsFacts, RacedOK DEF TypeSplit
    <3>2. run' = [run EXCEPT ![p] = Idle, ![Other(p)] = o]
      BY <2>3, ProcsFacts DEF TypeSplit
    <3>3. run[p].entry[2] \in Files
      BY <2>3, MatchingFacts DEF TypeSplit, RunOK
    <3> HIDE DEF o
    <3>4. work' \in [Files -> Contents] /\ damaged' \subseteq Files
      BY <2>3, <3>3, NoneFacts DEF TypeSplit
    <3>5. run' = [q \in Procs |-> run'[q]] /\ \A q \in Procs : RunOK(q, run'[q])
      BY <3>1, <3>2, IdleOK, ProcsFacts DEF TypeSplit
    <3> QED
      BY <2>1, <3>4, <3>5 DEF TypeSplit
  <2> QED
    BY <1>4, <2>2, <2>3 DEF Crash
<1> QED
  BY <1>1, <1>2, <1>3, <1>4

(* What the operator puts into the work tree, by a save, a deletion or a    *)
(* repair.                                                                  *)
OperatorPuts(f, text) ==
  /\ Put(f, text)
  /\ text \in Contents /\ text.value \in Nat
  /\ acts' \in Nat
  /\ text.form \in {"plain", "bad", "none"}

LEMMA OperatorFacts ==
  ASSUME TypeSplit, NEW f \in Files, Save(f) \/ Delete(f) \/ Repair(f)
  PROVE  \E text : OperatorPuts(f, text)
<1>1. ASSUME NEW form \in {"plain", "bad"}, NEW value \in Nat
      PROVE  /\ Text(form, value) \in Contents
             /\ Text(form, value).value \in Nat
             /\ Text(form, value).form \in {"plain", "bad", "none"}
  BY DEF Text, Contents, Forms
<1>2. CASE Save(f)
  BY <1>1, <1>2 DEF Save, Act, TypeSplit, OperatorPuts
<1>3. CASE Delete(f)
  BY <1>3, NoneFacts DEF Delete, Act, TypeSplit, OperatorPuts
<1>4. CASE Repair(f)
  BY <1>1, <1>4 DEF Repair, TypeSplit, OperatorPuts
<1> QED
  BY <1>2, <1>3, <1>4

LEMMA OperatorType ==
  ASSUME TypeSplit, NEW f \in Files, Save(f) \/ Delete(f) \/ Repair(f) \/ Stage(f)
  PROVE  TypeSplit'
<1>1. ASSUME NEW text, OperatorPuts(f, text)
      PROVE  TypeSplit'
  <2> DEFINE r(p) == IF run[p] = Idle THEN Idle
                     ELSE [run[p] EXCEPT !.touched = run[p].touched \cup {f}]
  <2>1. run' = [p \in Procs |-> r(p)]
    BY <1>1 DEF OperatorPuts, Put, TypeSplit
  <2>2. ASSUME NEW p \in Procs PROVE RunOK(p, r(p))
    <3>1. CASE run[p] = Idle
      BY <3>1, IdleOK
    <3>2. CASE run[p] # Idle
      <4>1. RunOK(p, run[p])
        BY DEF TypeSplit
      <4>2. r(p) = [run[p] EXCEPT !.touched = run[p].touched \cup {f}]
        BY <3>2
      <4> HIDE DEF r
      <4> QED
        BY <3>2, <4>1, <4>2, IdleFacts DEF RunOK, Runs
    <3> QED
      BY <3>1, <3>2
  <2> HIDE DEF r
  <2> QED
    BY <1>1, <2>1, <2>2 DEF TypeSplit, OperatorPuts, Put
<1>2. CASE Stage(f)
  <2> DEFINE o == [run["hook"] EXCEPT !.raced = Raced("hook")]
  <2>1. RunOK("hook", o)
    BY ProcsFacts, RacedOK DEF TypeSplit
  <2>2. run' = [run EXCEPT !["hook"] = o]
    BY <1>2, ProcsFacts DEF Stage, TypeSplit
  <2>3. acts' \in Nat
    BY <1>2 DEF Stage, Beside, Act, TypeSplit
  <2> HIDE DEF o
  <2> QED
    BY <1>2, <2>1, <2>2, <2>3, ProcsFacts DEF Stage, TypeSplit
<1> QED
  BY <1>1, <1>2, OperatorFacts

LEMMA NextType ==
  ASSUME TypeOK, [Next]_vars
  PROVE  TypeOK'
<1>1. TypeSplit
  BY TypeOKSplit
<1>2. (TypeOK <=> TypeSplit)'
  BY DEF TypeOK, TypeSplit, RunOK, Procs
<1>3. CASE UNCHANGED vars
  BY <1>3 DEF vars, TypeOK
<1>4. CASE Next
  BY <1>1, <1>2, <1>4, ProcsFacts, ReadType, WriteType, HookType, BoundaryType, OperatorType
  DEF Next, Hook, Terminal, ReadWrite
<1> QED
  BY <1>3, <1>4

(* Copies, saves and the records of both processes keep to their domains,   *)
(* and a process has an entry in hand exactly while it works on one.        *)
THEOREM TypeCorrect == Spec => []TypeOK
BY InitType, NextType, PTL DEF Spec

-----------------------------------------------------------------------------
(* The invariant behind the properties.                                     *)

(* What is about to be written carries the last save of its file, plain     *)
(* where files are decrypted and encrypted elsewhere.                       *)
WritesSaved(p) ==
  run[p].pc = "write" =>
    LET f == run[p].entry[2]
    IN /\ run[p].entry \in run[p].todo
       /\ run[p].result.value = saved[f] \/ f \in damaged
       /\ run[p].cmd = "decrypt" => run[p].result.form = "plain"
       /\ run[p].cmd # "decrypt" => run[p].result.form \in {"cipher", "double"}

WritesLastSave == \A p \in Procs : WritesSaved(p)

(* The hook works on files it has listed.                                   *)
HookWorksOnListed ==
  LET h == run["hook"]
  IN /\ h.todo \subseteq h.listed
     /\ h.pc \in {"write", "add"} => h.entry \in h.listed

Hidden(text) == text.form \in {"cipher", "none"}

(* What the hook lets through is encrypted in the index: staged files are   *)
(* listed, or encrypted there; and a listed file that is encrypted in the   *)
(* work tree is so in the index too, or about to be added.                  *)
Tracked(h, f) ==
  /\ index[f] # head[f] =>
       Hidden(index[f]) \/ (h.pc # "commit" /\ f \in FilesOf(h.listed))
  /\ /\ h.pc \in {"check", "next", "write", "add"}
     /\ f \in FilesOf(h.listed) /\ IsEncrypted(work[f])
     /\ ~(h.pc = "add" /\ h.entry[2] = f)
     => Hidden(index[f])

HookTracksIndex ==
  LET h == run["hook"]
  IN h.pc # "idle" /\ ~h.raced => \A f \in Files : Tracked(h, f)

IInv ==
  /\ TypeOK
  /\ WritesLastSave /\ NothingLost
  /\ HookWorksOnListed /\ HookTracksIndex
  /\ EncryptLeavesNoPlain

(* No two rules match one file.                                             *)
OneRulePerFile == \A m, n \in Matching : m[2] = n[2] => m = n

(* What encrypt and the hook still have to encrypt is not encrypted.        *)
TodoIsOpen ==
  \A p \in Procs : run[p].cmd # "decrypt" /\ ~run[p].raced =>
    \A m \in run[p].todo : ~IsEncrypted(work[m[2]])

-----------------------------------------------------------------------------
(* What the steps do to the fields of a process.                            *)

(* p goes on with the same command and the same files.                      *)
GoesOn(p) ==
  /\ run'[p].cmd = run[p].cmd /\ run'[p].listed = run[p].listed
  /\ run'[p].touched = run[p].touched

Unwritten == UNCHANGED <<work, saved, damaged>>

LEMMA ReadFields ==
  ASSUME TypeSplit, NEW p \in Procs, NEW m \in Matching, Read(p, m)
  PROVE  /\ Unwritten /\ UNCHANGED <<index, head>>
         /\ m \in run[p].todo /\ run[p].pc = "next"
         /\ \A q \in Procs : q # p => run'[q] = run[q]
         /\ \/ /\ \E result \in Results(run[p].cmd, work[m[2]]) :
                    result # None /\ run'[p].result = result
               /\ run'[p].pc = "write" /\ run'[p].entry = m /\ run'[p].todo = run[p].todo
               /\ GoesOn(p) /\ run'[p].raced = run[p].raced
            \/ run'[p] = Idle
            \/ /\ run'[p].pc = "next" /\ run'[p].todo = run[p].todo \ {m}
               /\ GoesOn(p) /\ run'[p].raced = run[p].raced /\ p = "hook"
<1>1. run[p] \in Runs
  BY DEF TypeSplit, RunOK
<1>2. PICK result \in Results(run[p].cmd, work[m[2]]) :
         \/ /\ result # None
            /\ run' = [run EXCEPT ![p].pc = "write", ![p].entry = m, ![p].result = result]
         \/ result = None /\ p = "terminal" /\ End(p)
         \/ result = None /\ p = "hook" /\ run' = [run EXCEPT ![p].todo = @ \ {m}]
  BY DEF Read
<1>3. /\ Unwritten /\ UNCHANGED <<index, head>>
      /\ m \in run[p].todo /\ run[p].pc = "next"
  BY DEF Read, Unwritten
<1>4. CASE /\ result # None
           /\ run' = [run EXCEPT ![p].pc = "write", ![p].entry = m, ![p].result = result]
  BY <1>1, <1>3, <1>4 DEF TypeSplit, GoesOn, Runs
<1>5. CASE End(p)
  BY <1>3, <1>5 DEF TypeSplit, End
<1>6. CASE p = "hook" /\ run' = [run EXCEPT ![p].todo = @ \ {m}]
  BY <1>1, <1>3, <1>6 DEF TypeSplit, GoesOn, Runs
<1> QED
  BY <1>2, <1>4, <1>5, <1>6

LEMMA RacedFields ==
  ASSUME NEW q \in Procs, RunOK(q, run[q]),
         NEW r, r = [run[q] EXCEPT !.raced = Raced(q)]
  PROVE  /\ r.pc = run[q].pc /\ r.cmd = run[q].cmd /\ r.listed = run[q].listed
         /\ r.touched = run[q].touched /\ r.todo = run[q].todo
         /\ r.entry = run[q].entry /\ r.result = run[q].result
         /\ run[q] # Idle => r.raced
BY DEF RunOK, Runs, Raced

(* q only learns that another process wrote.                                *)
LearnsOfRace(q) ==
  /\ run'[q].pc = run[q].pc /\ run'[q].todo = run[q].todo
  /\ run'[q].entry = run[q].entry /\ run'[q].result = run[q].result
  /\ GoesOn(q)
  /\ run[q].pc # "idle" => run'[q].raced

LEMMA WriteFields ==
  ASSUME TypeSplit, NEW p \in Procs, Write(p)
  PROVE  /\ run[p].pc = "write" /\ run[p].entry \in Matching
         /\ work' = [work EXCEPT ![run[p].entry[2]] = run[p].result]
         /\ UNCHANGED <<index, head, saved, damaged>>
         /\ run'[p].todo = run[p].todo \ {run[p].entry}
         /\ GoesOn(p) /\ run'[p].raced = run[p].raced
         /\ p = "hook" => run'[p].pc = "add" /\ run'[p].entry = run[p].entry
         /\ p # "hook" => run'[p].pc = "next"
         /\ \A q \in Procs : q # p => LearnsOfRace(q)
<1> DEFINE entry == run[p].entry
           w == [run[p] EXCEPT !.todo = run[p].todo \ {entry}, !.result = None,
                               !.pc = IF p = "hook" THEN "add" ELSE "next",
                               !.entry = IF p = "hook" THEN entry ELSE NoEntry]
           o == [run[Other(p)] EXCEPT !.raced = Raced(Other(p))]
<1>1. RunOK(p, run[p]) /\ run[p].pc = "write" /\ entry \in Matching
  BY DEF TypeSplit, Write, RunOK
<1>2. run' = [run EXCEPT ![p] = w, ![Other(p)] = o]
  BY ProcsFacts DEF Write, TypeSplit
<1>3. run'[p] = w /\ run'[Other(p)] = o
  BY <1>2, ProcsFacts DEF TypeSplit
<1>4. \A q \in Procs : q # p => q = Other(p)
  BY DEF Procs, Other
<1>5. RunOK(Other(p), run[Other(p)])
  BY ProcsFacts DEF TypeSplit
<1>6. LearnsOfRace(Other(p))
  <2>0. o = [run[Other(p)] EXCEPT !.raced = Raced(Other(p))] /\ Other(p) \in Procs
    BY ProcsFacts
  <2> HIDE DEF w, o
  <2>1. run[Other(p)].pc # "idle" => run[Other(p)] # Idle
    BY IdleFacts
  <2>2. /\ o.pc = run[Other(p)].pc /\ o.cmd = run[Other(p)].cmd
        /\ o.listed = run[Other(p)].listed /\ o.touched = run[Other(p)].touched
        /\ o.todo = run[Other(p)].todo /\ o.entry = run[Other(p)].entry
        /\ o.result = run[Other(p)].result
        /\ run[Other(p)] # Idle => o.raced
    BY <1>5, <2>0, RacedFields
  <2> QED
    BY <1>3, <2>1, <2>2 DEF LearnsOfRace, GoesOn
<1>7. /\ w.todo = run[p].todo \ {entry}
      /\ w.cmd = run[p].cmd /\ w.listed = run[p].listed /\ w.touched = run[p].touched
      /\ w.raced = run[p].raced
      /\ w.pc = IF p = "hook" THEN "add" ELSE "next"
      /\ p = "hook" => w.entry = entry
  BY <1>1 DEF RunOK, Runs
<1> HIDE DEF w, o
<1> QED
  BY <1>1, <1>3, <1>4, <1>6, <1>7 DEF Write, GoesOn

(* The hook's own steps leave the work tree and the terminal alone.         *)
LEMMA HookFrame ==
  ASSUME TypeSplit, StageAgain \/ CheckStaged \/ Add \/ Recheck \/ Commit
  PROVE  /\ Unwritten /\ run'["terminal"] = run["terminal"]
         /\ run["hook"].pc \in {"stage", "check", "next", "add", "commit"}
         /\ run'["hook"].pc # "write"
BY IdleFacts, ProcsFacts
DEF TypeSplit, RunOK, Runs, StageAgain, CheckStaged, Add, Recheck, Commit, End, Unwritten

LEMMA StageAgainFields ==
  ASSUME TypeSplit, StageAgain, run'["hook"] # Idle
  PROVE  /\ index' = [f \in Files |->
                        IF f \in FilesOf(run["hook"].listed) THEN work[f] ELSE index[f]]
         /\ UNCHANGED head
         /\ run["hook"].pc = "stage" /\ run'["hook"].pc = "check"
         /\ run'["hook"].todo = run["hook"].todo
         /\ GoesOn("hook") /\ run'["hook"].raced = run["hook"].raced
BY ProcsFacts DEF TypeSplit, RunOK, Runs, StageAgain, End, GoesOn

LEMMA CheckStagedFields ==
  ASSUME TypeSplit, CheckStaged, run'["hook"] # Idle,
         NEW open, open = {m \in run["hook"].listed : ~IsEncrypted(work[m[2]])}
  PROVE  /\ UNCHANGED <<index, head>>
         /\ run["hook"].pc = "check"
         /\ run'["hook"].pc = IF open = {} THEN "commit" ELSE "next"
         /\ run'["hook"].listed = open /\ run'["hook"].todo = open
         /\ run'["hook"].cmd = run["hook"].cmd
         /\ run'["hook"].raced = run["hook"].raced
<1>1. run' = [run EXCEPT !["hook"] =
               [run["hook"] EXCEPT !.todo = open, !.listed = open,
                                   !.pc = IF open = {} THEN "commit" ELSE "next"]]
  BY ProcsFacts DEF CheckStaged, TypeSplit, End
<1>2. run["hook"] \in Runs
  BY ProcsFacts DEF TypeSplit, RunOK
<1>3. run'["hook"] = [run["hook"] EXCEPT !.todo = open, !.listed = open,
                                         !.pc = IF open = {} THEN "commit" ELSE "next"]
  BY <1>1, ProcsFacts DEF TypeSplit
<1>4. run["hook"].pc = "check" /\ UNCHANGED <<index, head>>
  BY DEF CheckStaged
<1> QED
  BY <1>2, <1>3, <1>4 DEF Runs

LEMMA AddFields ==
  ASSUME TypeSplit, Add, run'["hook"] # Idle
  PROVE  /\ index' = [index EXCEPT ![run["hook"].entry[2]] = work[run["hook"].entry[2]]]
         /\ UNCHANGED head
         /\ run["hook"].pc = "add" /\ run["hook"].entry \in Matching
         /\ run'["hook"].pc = "next" /\ run'["hook"].todo = run["hook"].todo
         /\ GoesOn("hook") /\ run'["hook"].raced = run["hook"].raced
BY ProcsFacts DEF TypeSplit, RunOK, Runs, Add, End, GoesOn

LEMMA RecheckFields ==
  ASSUME TypeSplit, Recheck, run'["hook"] # Idle
  PROVE  /\ UNCHANGED <<index, head>>
         /\ \A f \in FilesOf(run["hook"].listed) : IsEncrypted(work[f])
         /\ run["hook"].pc = "next" /\ run'["hook"].pc = "commit"
         /\ run'["hook"].todo = run["hook"].todo
         /\ GoesOn("hook") /\ run'["hook"].raced = run["hook"].raced
BY ProcsFacts DEF TypeSplit, RunOK, Runs, Recheck, End, GoesOn

LEMMA CommitFields ==
  ASSUME TypeSplit, Commit
  PROVE  run["hook"].pc = "commit" /\ run'["hook"] = Idle /\ head' = index /\ UNCHANGED index
BY ProcsFacts DEF TypeSplit, Commit, End

LEMMA StartCommandFields ==
  ASSUME TypeSplit, NEW cmd \in {"encrypt", "decrypt"}, StartCommand(cmd)
  PROVE  /\ Unwritten /\ UNCHANGED <<index, head>> /\ run'["hook"] = run["hook"]
         /\ run'["terminal"].cmd = cmd /\ run'["terminal"].pc = "next"
         /\ run'["terminal"].todo =
              {m \in Matching : /\ work[m[2]] # None
                                /\ IsEncrypted(work[m[2]]) <=> cmd = "decrypt"}
<1> DEFINE todo == {m \in Matching : /\ work[m[2]] # None
                                     /\ IsEncrypted(work[m[2]]) <=> cmd = "decrypt"}
<1>1. run' = [run EXCEPT !["terminal"] = [Idle EXCEPT !.cmd = cmd, !.pc = "next", !.todo = todo]]
  BY DEF StartCommand
<1> HIDE DEF todo
<1>2. run'["hook"] = run["hook"]
  BY <1>1, ProcsFacts DEF TypeSplit
<1>3. /\ run'["terminal"].cmd = cmd /\ run'["terminal"].pc = "next"
      /\ run'["terminal"].todo = todo
  BY <1>1, ProcsFacts, IdleFacts DEF TypeSplit, Runs
<1>4. Unwritten /\ UNCHANGED <<index, head>>
  BY DEF StartCommand, Unwritten
<1> QED
  BY <1>2, <1>3, <1>4 DEF todo

LEMMA StartCommitFields ==
  ASSUME TypeSplit, StartCommit
  PROVE  /\ Unwritten /\ UNCHANGED <<index, head>> /\ run'["terminal"] = run["terminal"]
         /\ run'["hook"].pc = "stage" /\ run'["hook"].todo = {}
         /\ run'["hook"].cmd = "precommit"
         /\ run'["hook"].listed = {m \in Matching : m[2] \in Staged /\ index[m[2]] # None}
<1> DEFINE listed == {m \in Matching : m[2] \in Staged /\ index[m[2]] # None}
<1>1. run' = [run EXCEPT !["hook"] =
                [Idle EXCEPT !.cmd = "precommit", !.pc = "stage", !.listed = listed]]
  BY DEF StartCommit
<1> HIDE DEF listed
<1>2. run'["terminal"] = run["terminal"]
  BY <1>1, ProcsFacts DEF TypeSplit
<1>3. /\ run'["hook"].pc = "stage" /\ run'["hook"].todo = {}
      /\ run'["hook"].cmd = "precommit" /\ run'["hook"].listed = listed
  BY <1>1, ProcsFacts, IdleFacts DEF TypeSplit, Runs
<1>4. Unwritten /\ UNCHANGED <<index, head>>
  BY DEF StartCommit, Unwritten
<1> QED
  BY <1>2, <1>3, <1>4 DEF listed

LEMMA CrashFields ==
  ASSUME TypeSplit, NEW p \in Procs, Crash(p)
  PROVE  /\ run'[p] = Idle
         /\ UNCHANGED <<index, head, saved>>
         /\ \/ Unwritten /\ \A q \in Procs : q # p => run'[q] = run[q]
            \/ /\ run[p].entry \in Matching
               /\ work' = [work EXCEPT ![run[p].entry[2]] = Torn]
               /\ damaged' = damaged \cup {run[p].entry[2]}
               /\ \A q \in Procs : q # p => LearnsOfRace(q)
<1>1. CASE End(p) /\ UNCHANGED <<work, damaged>>
  BY <1>1 DEF TypeSplit, End, Crash, Unwritten
<1>2. CASE /\ run[p].pc = "write"
           /\ work' = [work EXCEPT ![run[p].entry[2]] = Torn]
           /\ damaged' = damaged \cup {run[p].entry[2]}
           /\ run' = [run EXCEPT ![p] = Idle, ![Other(p)].raced = Raced(Other(p))]
  <2> DEFINE o == [run[Other(p)] EXCEPT !.raced = Raced(Other(p))]
  <2>0. run'[p] = Idle
    BY <1>2, ProcsFacts DEF TypeSplit
  <2>1. run'[Other(p)] = o
    BY <1>2, ProcsFacts DEF TypeSplit
  <2>2. RunOK(Other(p), run[Other(p)]) /\ RunOK(p, run[p])
    BY ProcsFacts DEF TypeSplit
  <2>3. LearnsOfRace(Other(p))
    <3>0. o = [run[Other(p)] EXCEPT !.raced = Raced(Other(p))] /\ Other(p) \in Procs
      BY ProcsFacts
    <3> HIDE DEF o
    <3>1. run[Other(p)].pc # "idle" => run[Other(p)] # Idle
      BY IdleFacts
    <3>2. /\ o.pc = run[Other(p)].pc /\ o.cmd = run[Other(p)].cmd
          /\ o.listed = run[Other(p)].listed /\ o.touched = run[Other(p)].touched
          /\ o.todo = run[Other(p)].todo /\ o.entry = run[Other(p)].entry
          /\ o.result = run[Other(p)].result
          /\ run[Other(p)] # Idle => o.raced
      BY <2>2, <3>0, RacedFields
    <3> QED
      BY <2>1, <3>1, <3>2 DEF LearnsOfRace, GoesOn
  <2>4. \A q \in Procs : q # p => q = Other(p)
    BY DEF Procs, Other
  <2> QED
    BY <1>2, <2>0, <2>2, <2>3, <2>4 DEF Crash, RunOK
<1> QED
  BY <1>1, <1>2 DEF Crash

(* A process that runs while the operator writes f notes it.                *)
Notes(p, f) ==
  /\ run'[p].pc = run[p].pc /\ run'[p].todo = run[p].todo
  /\ run'[p].entry = run[p].entry /\ run'[p].result = run[p].result
  /\ run'[p].cmd = run[p].cmd /\ run'[p].listed = run[p].listed
  /\ run'[p].raced = run[p].raced
  /\ run[p].pc # "idle" => run'[p].touched = run[p].touched \cup {f}

LEMMA PutFields ==
  ASSUME TypeSplit, NEW f \in Files, NEW text, OperatorPuts(f, text)
  PROVE  /\ work' = [work EXCEPT ![f] = text]
         /\ saved' = [saved EXCEPT ![f] = text.value]
         /\ damaged' = IF BeingWritten(f) THEN damaged \cup {f} ELSE damaged \ {f}
         /\ UNCHANGED <<index, head>>
         /\ \A p \in Procs : Notes(p, f)
<1>1. ASSUME NEW p \in Procs PROVE Notes(p, f)
  <2>1. RunOK(p, run[p])
    BY DEF TypeSplit
  <2>2. CASE run[p] = Idle
    <3>1. run'[p] = run[p]
      BY <2>2 DEF OperatorPuts, Put
    <3> QED
      BY <2>2, <3>1, IdleFacts DEF Notes
  <2>3. CASE run[p] # Idle
    <3>1. run'[p] = [run[p] EXCEPT !.touched = run[p].touched \cup {f}]
      BY <2>3 DEF OperatorPuts, Put
    <3> QED
      BY <2>1, <3>1 DEF Notes, RunOK, Runs
  <2> QED
    BY <2>2, <2>3
<1> QED
  BY <1>1 DEF OperatorPuts, Put

LEMMA StageFields ==
  ASSUME TypeSplit, NEW f \in Files, Stage(f)
  PROVE  Unwritten /\ UNCHANGED head /\ \A q \in Procs : q # "hook" => run'[q] = run[q]
         /\ LearnsOfRace("hook")
<1> DEFINE o == [run["hook"] EXCEPT !.raced = Raced("hook")]
<1>1. run'["hook"] = o /\ \A q \in Procs : q # "hook" => run'[q] = run[q]
  BY ProcsFacts DEF TypeSplit, Stage
<1>2. RunOK("hook", run["hook"])
  BY ProcsFacts DEF TypeSplit
<1>3. run["hook"].pc # "idle" => run["hook"] # Idle
  BY IdleFacts
<1>4. o = [run["hook"] EXCEPT !.raced = Raced("hook")] /\ "hook" \in Procs
  BY ProcsFacts
<1>5. /\ o.pc = run["hook"].pc /\ o.cmd = run["hook"].cmd
      /\ o.listed = run["hook"].listed /\ o.touched = run["hook"].touched
      /\ o.todo = run["hook"].todo /\ o.entry = run["hook"].entry
      /\ o.result = run["hook"].result
      /\ run["hook"] # Idle => o.raced
  <2> HIDE DEF o
  <2> QED
    BY <1>2, <1>4, RacedFields
<1> HIDE DEF o
<1>6. LearnsOfRace("hook")
  BY <1>1, <1>3, <1>5 DEF LearnsOfRace, GoesOn
<1> QED
  BY <1>1, <1>6 DEF Stage, Unwritten

-----------------------------------------------------------------------------
(* Nothing is lost.                                                         *)

(* A process whose work goes on, or that writes nothing, keeps its promise. *)
LEMMA KeepsWriting ==
  ASSUME NEW p \in Procs, WritesSaved(p), saved' = saved, damaged \subseteq damaged',
         \/ run'[p] = run[p] \/ LearnsOfRace(p) \/ run'[p].pc # "write"
  PROVE  WritesSaved(p)'
BY DEF WritesSaved, LearnsOfRace, GoesOn

LEMMA SavesKept ==
  ASSUME TypeSplit, WritesLastSave, NothingLost, Next
  PROVE  WritesLastSave' /\ NothingLost'
<1>1. ASSUME NEW p \in Procs, NEW m \in Matching, Read(p, m)
      PROVE  WritesLastSave' /\ NothingLost'
  <2>1. NothingLost'
    BY <1>1, ReadFields DEF NothingLost, Unwritten
  <2>2. WritesSaved(p)'
    <3>1. work[m[2]] \in Contents /\ m[2] \in Files
      BY MatchingFacts DEF TypeSplit
    <3>2. CASE run'[p].pc # "write"
      BY <3>2 DEF WritesSaved
    <3>3. CASE run'[p].pc = "write"
      <4>1. PICK result \in Results(run[p].cmd, work[m[2]]) :
               /\ result # None /\ run'[p].result = result
               /\ run'[p].entry = m /\ run'[p].todo = run[p].todo
               /\ run'[p].cmd = run[p].cmd
        BY <1>1, <3>3, ReadFields, IdleFacts DEF GoesOn
      <4>2. /\ result.value = work[m[2]].value
            /\ run[p].cmd = "decrypt" => result.form = "plain"
            /\ run[p].cmd # "decrypt" => result.form \in {"cipher", "double"}
        BY <3>1, <4>1, ResultsFacts
      <4>3. Unwritten /\ m \in run[p].todo
        BY <1>1, ReadFields
      <4> QED
        BY <3>1, <4>1, <4>2, <4>3 DEF WritesSaved, NothingLost, Unwritten
    <3> QED
      BY <3>2, <3>3
  <2>3. ASSUME NEW q \in Procs, q # p PROVE WritesSaved(q)'
    BY <1>1, <2>3, ReadFields, KeepsWriting DEF WritesLastSave, Unwritten
  <2> QED
    BY <2>1, <2>2, <2>3 DEF WritesLastSave
<1>2. ASSUME NEW p \in Procs, Write(p)
      PROVE  WritesLastSave' /\ NothingLost'
  <2>1. run[p].entry[2] \in Files
    BY <1>2, WriteFields, MatchingFacts
  <2>2. NothingLost'
    BY <1>2, <2>1, WriteFields DEF NothingLost, WritesLastSave, WritesSaved, TypeSplit
  <2>3. ASSUME NEW q \in Procs PROVE WritesSaved(q)'
    BY <1>2, WriteFields, KeepsWriting DEF WritesLastSave
  <2> QED
    BY <2>2, <2>3 DEF WritesLastSave
<1>3. CASE \/ \E cmd \in {"encrypt", "decrypt"} : StartCommand(cmd)
           \/ StartCommit \/ Finish
           \/ StageAgain \/ CheckStaged \/ Add \/ Recheck \/ Commit
           \/ \E f \in Files : Stage(f)
  <2>1. Unwritten
    BY <1>3, StartCommandFields, StartCommitFields, HookFrame, StageFields
    DEF Finish, Unwritten
  <2>2. ASSUME NEW q \in Procs
        PROVE  run'[q] = run[q] \/ LearnsOfRace(q) \/ run'[q].pc # "write"
    <3>1. q = "terminal" \/ q = "hook"
      BY DEF Procs
    <3>2. CASE Finish
      BY <3>1, <3>2, IdleFacts, ProcsFacts DEF Finish, End, TypeSplit
    <3> QED
      BY <1>3, <3>1, <3>2, ProcsFacts, StartCommandFields, StartCommitFields, HookFrame, StageFields
  <2> QED
    BY <2>1, <2>2, KeepsWriting DEF Unwritten, WritesLastSave, NothingLost
<1>4. ASSUME NEW p \in Procs, Crash(p)
      PROVE  WritesLastSave' /\ NothingLost'
  <2>1. saved' = saved /\ damaged \subseteq damaged'
    BY <1>4, CrashFields DEF Unwritten
  <2>2. ASSUME NEW q \in Procs PROVE WritesSaved(q)'
    BY <1>4, <2>1, CrashFields, KeepsWriting, IdleFacts DEF WritesLastSave
  <2>3. NothingLost'
    BY <1>4, CrashFields, MatchingFacts DEF NothingLost, TypeSplit, Unwritten
  <2> QED
    BY <2>2, <2>3 DEF WritesLastSave
<1>5. ASSUME NEW f \in Files, Save(f) \/ Delete(f) \/ Repair(f)
      PROVE  WritesLastSave' /\ NothingLost'
  <2>1. PICK text : OperatorPuts(f, text)
    BY <1>5, OperatorFacts
  <2>2. NothingLost'
    BY <2>1, PutFields DEF NothingLost, TypeSplit
  <2>3. ASSUME NEW q \in Procs PROVE WritesSaved(q)'
    <3>1. SUFFICES ASSUME run[q].pc = "write" PROVE WritesSaved(q)'
      BY <2>1, PutFields DEF WritesSaved, Notes
    <3>2. run[q].entry[2] \in Files
      BY <3>1, MatchingFacts DEF TypeSplit, RunOK
    <3>3. run[q].entry[2] = f => BeingWritten(f)
      BY <3>1 DEF BeingWritten
    <3> QED
      BY <2>1, <3>1, <3>2, <3>3, PutFields DEF WritesLastSave, WritesSaved, Notes, TypeSplit
  <2> QED
    BY <2>2, <2>3 DEF WritesLastSave
<1> QED
  BY <1>1, <1>2, <1>3, <1>4, <1>5, ProcsFacts DEF Next, Hook, Terminal, ReadWrite

-----------------------------------------------------------------------------
(* encrypt leaves no plain text.                                            *)

LEMMA IdleProcess ==
  TypeSplit => \A p \in Procs : run[p].pc = "idle" <=> run[p].cmd = "none"
BY DEF TypeSplit, RunOK

LEMMA EncryptStep ==
  ASSUME TypeSplit, WritesLastSave, EncryptLeavesNoPlain, Next
  PROVE  EncryptLeavesNoPlain'
<1> SUFFICES ASSUME run'["terminal"].cmd = "encrypt", ~run'["terminal"].raced,
                    NEW f \in Files,
                    f \notin run'["terminal"].touched \cup FilesOf(run'["terminal"].todo)
             PROVE  work'[f].form \in {"cipher", "double", "none"}
  BY DEF EncryptLeavesNoPlain, FilesOf
<1>1. CASE /\ work' = work /\ run'["terminal"].todo = run["terminal"].todo
           /\ GoesOn("terminal") /\ run'["terminal"].raced = run["terminal"].raced
  BY <1>1 DEF EncryptLeavesNoPlain, GoesOn
<1>2. CASE LearnsOfRace("terminal")
  BY <1>2, IdleProcess, ProcsFacts DEF LearnsOfRace, GoesOn
<1>3. CASE work' = work /\ run'["terminal"] = run["terminal"]
  BY <1>3 DEF EncryptLeavesNoPlain
<1>4. CASE run'["terminal"] = Idle
  BY <1>4, IdleFacts
<1>5. ASSUME NEW p \in Procs, NEW m \in Matching, Read(p, m)
      PROVE  work'[f].form \in {"cipher", "double", "none"}
  <2>1. p = "terminal" \/ "terminal" # p
    OBVIOUS
  <2> QED
    BY <1>1, <1>3, <1>4, <1>5, <2>1, ReadFields, ProcsFacts DEF Unwritten
<1>6. CASE Write("hook")
  BY <1>2, <1>6, WriteFields, ProcsFacts
<1>7. CASE Write("terminal")
  <2> DEFINE entry == run["terminal"].entry
             result == run["terminal"].result
  <2>1. /\ entry \in Matching /\ entry[2] \in Files
        /\ work' = [work EXCEPT ![entry[2]] = result]
        /\ run'["terminal"].todo = run["terminal"].todo \ {entry}
        /\ GoesOn("terminal") /\ run'["terminal"].raced = run["terminal"].raced
        /\ run["terminal"].pc = "write"
    BY <1>7, WriteFields, ProcsFacts, MatchingFacts
  <2>2. CASE f = entry[2]
    <3>1. result.form \in {"cipher", "double"}
      BY <2>1, ProcsFacts DEF WritesLastSave, WritesSaved, GoesOn
    <3> QED
      BY <2>1, <2>2, <3>1 DEF TypeSplit
  <2>3. CASE f # entry[2]
    <3>1. f \notin FilesOf(run["terminal"].todo)
      BY <2>1, <2>3 DEF FilesOf
    <3> QED
      BY <2>1, <2>3, <3>1 DEF TypeSplit, EncryptLeavesNoPlain, GoesOn
  <2> QED
    BY <2>2, <2>3
<1>8. ASSUME NEW cmd \in {"encrypt", "decrypt"}, StartCommand(cmd)
      PROVE  work'[f].form \in {"cipher", "double", "none"}
  <2>1. PICK m \in Matching : m[2] = f
    BY FilesAssumption
  <2>2. m \notin run'["terminal"].todo
    BY <2>1 DEF FilesOf
  <2>3. /\ Unwritten
        /\ ~(work[f] # None /\ ~IsEncrypted(work[f]))
    BY <1>8, <2>1, <2>2, StartCommandFields
  <2> QED
    BY <2>3, NoneFacts DEF IsEncrypted, Unwritten
<1>9. CASE \/ StartCommit
           \/ StageAgain \/ CheckStaged \/ Add \/ Recheck \/ Commit
           \/ \E g \in Files : Stage(g)
  BY <1>3, <1>9, StartCommitFields, HookFrame, StageFields, ProcsFacts DEF Unwritten
<1>10. CASE Finish
  BY <1>4, <1>10, ProcsFacts DEF Finish, End, TypeSplit
<1>11. ASSUME NEW p \in Procs, Crash(p)
       PROVE  work'[f].form \in {"cipher", "double", "none"}
  BY <1>2, <1>3, <1>4, <1>11, CrashFields, ProcsFacts DEF Unwritten
<1>12. ASSUME NEW g \in Files, Save(g) \/ Delete(g) \/ Repair(g)
       PROVE  work'[f].form \in {"cipher", "double", "none"}
  <2>1. PICK text : OperatorPuts(g, text)
    BY <1>12, OperatorFacts
  <2>2. Notes("terminal", g) /\ work' = [work EXCEPT ![g] = text]
    BY <2>1, PutFields, ProcsFacts
  <2>3. run["terminal"].pc # "idle"
    BY <2>2, IdleProcess, ProcsFacts DEF Notes
  <2>4. f # g /\ f \notin run["terminal"].touched
        /\ f \notin FilesOf(run["terminal"].todo)
    BY <2>2, <2>3 DEF Notes
  <2> QED
    BY <2>2, <2>4 DEF EncryptLeavesNoPlain, Notes, TypeSplit
<1> QED
  BY <1>5, <1>6, <1>7, <1>8, <1>9, <1>10, <1>11, <1>12 DEF Next, Hook, Terminal, ReadWrite, Procs

-----------------------------------------------------------------------------
(* The hook lets nothing plain through.                                     *)

LEMMA ListedStep ==
  ASSUME TypeSplit, HookWorksOnListed, Next
  PROVE  HookWorksOnListed'
<1>1. CASE run'["hook"] = run["hook"] \/ LearnsOfRace("hook") \/ \E f \in Files : Notes("hook", f)
  BY <1>1 DEF HookWorksOnListed, LearnsOfRace, GoesOn, Notes
<1>2. CASE run'["hook"] = Idle
  BY <1>2, IdleFacts DEF HookWorksOnListed
<1>3. ASSUME NEW p \in Procs, NEW m \in Matching, Read(p, m)
      PROVE  HookWorksOnListed'
  <2>1. CASE p = "hook"
    BY <1>2, <1>3, <2>1, ReadFields, ProcsFacts DEF HookWorksOnListed, GoesOn
  <2>2. CASE p # "hook"
    BY <1>1, <1>3, <2>2, ReadFields, ProcsFacts
  <2> QED
    BY <2>1, <2>2
<1>4. CASE Write("hook")
  BY <1>4, WriteFields, ProcsFacts DEF HookWorksOnListed, GoesOn
<1>5. CASE Write("terminal")
  BY <1>1, <1>5, WriteFields, ProcsFacts
<1>6. CASE StageAgain \/ CheckStaged \/ Add \/ Recheck \/ Commit
  BY <1>2, <1>6, StageAgainFields, CheckStagedFields, AddFields, RecheckFields, CommitFields
  DEF HookWorksOnListed, GoesOn
<1>7. CASE StartCommit
  BY <1>7, StartCommitFields DEF HookWorksOnListed
<1>8. CASE \/ \E cmd \in {"encrypt", "decrypt"} : StartCommand(cmd)
           \/ \E f \in Files : Stage(f)
           \/ \E p \in Procs : Crash(p)
  BY <1>1, <1>2, <1>8, StartCommandFields, StageFields, CrashFields, ProcsFacts
<1>9. CASE Finish
  BY <1>1, <1>9, ProcsFacts DEF Finish, End, TypeSplit
<1>10. CASE \E f \in Files : Save(f) \/ Delete(f) \/ Repair(f)
  BY <1>1, <1>10, OperatorFacts, PutFields, ProcsFacts
<1> QED
  BY <1>3, <1>4, <1>5, <1>6, <1>7, <1>8, <1>9, <1>10 DEF Next, Hook, Terminal, ReadWrite, Procs

LEMMA TrackedStep ==
  ASSUME TypeSplit, HookWorksOnListed, HookTracksIndex, Next
  PROVE  HookTracksIndex'
<1> DEFINE h == run["hook"]
<1> SUFFICES ASSUME h'.pc # "idle", ~h'.raced, NEW f \in Files
             PROVE  Tracked(h, f)'
  BY DEF HookTracksIndex
<1>0. /\ h' # Idle
      /\ ~LearnsOfRace("hook")
  BY IdleFacts DEF LearnsOfRace
(* Steps of the terminal that do not write, and of git add.                 *)
<1>1. CASE UNCHANGED <<index, head, work>> /\ h' = h
  BY <1>1 DEF HookTracksIndex, Tracked
<1>2. ASSUME NEW p \in Procs, NEW m \in Matching, Read(p, m)
      PROVE  Tracked(h, f)'
  <2>1. UNCHANGED <<index, head, work>>
    BY <1>2, ReadFields DEF Unwritten
  <2>2. CASE p = "hook"
    <3>1. /\ h.pc = "next" /\ h'.pc \in {"next", "write"}
          /\ h'.listed = h.listed /\ h'.raced = h.raced
      BY <1>0, <1>2, <2>2, ReadFields DEF GoesOn
    <3> QED
      BY <2>1, <3>1 DEF HookTracksIndex, Tracked
  <2>3. CASE p # "hook"
    BY <1>1, <1>2, <2>1, <2>3, ReadFields, ProcsFacts
  <2> QED
    BY <2>2, <2>3
<1>3. CASE Write("hook")
  <2>1. /\ h.pc = "write" /\ h'.pc = "add" /\ h'.entry = h.entry
        /\ h'.listed = h.listed /\ h'.raced = h.raced
        /\ h.entry[2] \in Files
        /\ work' = [work EXCEPT ![h.entry[2]] = h.result]
        /\ UNCHANGED <<index, head>>
    BY <1>3, WriteFields, ProcsFacts, MatchingFacts DEF GoesOn
  <2>2. Tracked(h, f)
    BY <2>1 DEF HookTracksIndex
  <2> QED
    BY <2>1, <2>2 DEF Tracked, TypeSplit
<1>4. CASE Write("terminal")
  BY <1>0, <1>4, WriteFields, ProcsFacts
<1>5. CASE StageAgain
  <2>1. /\ index' = [g \in Files |-> IF g \in FilesOf(h.listed) THEN work[g] ELSE index[g]]
        /\ UNCHANGED <<head, work>>
        /\ h.pc = "stage" /\ h'.pc = "check"
        /\ h'.listed = h.listed /\ h'.raced = h.raced
    BY <1>0, <1>5, StageAgainFields, HookFrame DEF GoesOn, Unwritten
  <2>2. Tracked(h, f)
    BY <2>1 DEF HookTracksIndex
  <2> QED
    BY <2>1, <2>2 DEF Tracked, Hidden, IsEncrypted
<1>6. CASE CheckStaged
  <2> DEFINE open == {m \in h.listed : ~IsEncrypted(work[m[2]])}
  <2>1. /\ UNCHANGED <<index, head, work>>
        /\ h.pc = "check" /\ h'.pc = IF open = {} THEN "commit" ELSE "next"
        /\ h'.listed = open /\ h'.raced = h.raced
    BY <1>0, <1>6, CheckStagedFields, HookFrame DEF Unwritten
  <2>2. Tracked(h, f)
    BY <2>1 DEF HookTracksIndex
  <2>3. f \in FilesOf(open) <=> f \in FilesOf(h.listed) /\ ~IsEncrypted(work[f])
    BY DEF FilesOf
  <2>4. open = {} => f \notin FilesOf(open)
    BY DEF FilesOf
  <2> HIDE DEF open
  <2> QED
    BY <2>1, <2>2, <2>3, <2>4 DEF Tracked
<1>7. CASE Add
  <2> DEFINE g == h.entry[2]
  <2>1. /\ index' = [index EXCEPT ![g] = work[g]]
        /\ UNCHANGED <<head, work>>
        /\ h.pc = "add" /\ h'.pc = "next"
        /\ h'.listed = h.listed /\ h'.raced = h.raced
    BY <1>0, <1>7, AddFields, HookFrame DEF GoesOn, Unwritten
  <2>2. g \in FilesOf(h.listed) /\ g \in Files
    BY <1>0, <1>7, <2>1, AddFields, MatchingFacts DEF HookWorksOnListed, FilesOf
  <2>3. Tracked(h, f)
    BY <2>1 DEF HookTracksIndex
  <2> QED
    BY <2>1, <2>2, <2>3 DEF Tracked, Hidden, IsEncrypted, TypeSplit
<1>8. CASE Recheck
  <2>1. /\ UNCHANGED <<index, head, work>>
        /\ \A g \in FilesOf(h.listed) : IsEncrypted(work[g])
        /\ h.pc = "next" /\ h'.pc = "commit"
        /\ h'.listed = h.listed /\ h'.raced = h.raced
    BY <1>0, <1>8, RecheckFields, HookFrame DEF GoesOn, Unwritten
  <2>2. Tracked(h, f)
    BY <2>1 DEF HookTracksIndex
  <2> QED
    BY <2>1, <2>2 DEF Tracked
<1>9. CASE Commit
  BY <1>0, <1>9, CommitFields
<1>10. CASE StartCommit
  <2>1. /\ UNCHANGED <<index, head, work>> /\ h'.pc = "stage"
        /\ h'.listed = {m \in Matching : m[2] \in Staged /\ index[m[2]] # None}
    BY <1>10, StartCommitFields DEF Unwritten
  <2>2. PICK m \in Matching : m[2] = f
    BY FilesAssumption
  <2>3. index[f] # head[f] => index[f] = None \/ m \in h'.listed
    BY <2>1, <2>2 DEF Staged
  <2> QED
    BY <2>1, <2>2, <2>3, NoneFacts DEF Tracked, Hidden, FilesOf
<1>11. CASE \/ \E cmd \in {"encrypt", "decrypt"} : StartCommand(cmd)
            \/ Finish
            \/ \E p \in Procs : Crash(p)
            \/ \E g \in Files : Stage(g)
  <2>1. UNCHANGED <<index, head, work>> /\ h' = h
    BY <1>0, <1>11, StartCommandFields, CrashFields, StageFields, ProcsFacts
    DEF Finish, End, TypeSplit, Unwritten
  <2> QED
    BY <1>1, <2>1
<1>12. ASSUME NEW g \in Files, Save(g) \/ Delete(g) \/ Repair(g)
       PROVE  Tracked(h, f)'
  <2>1. PICK text : OperatorPuts(g, text)
    BY <1>12, OperatorFacts
  <2>2. /\ work' = [work EXCEPT ![g] = text] /\ UNCHANGED <<index, head>>
        /\ Notes("hook", g)
        /\ ~IsEncrypted(text)
    BY <2>1, PutFields, ProcsFacts DEF OperatorPuts, IsEncrypted
  <2>3. Tracked(h, f)
    BY <2>2 DEF HookTracksIndex, Notes
  <2>4. IsEncrypted(work'[f]) => IsEncrypted(work[f])
    BY <2>2 DEF TypeSplit
  <2> QED
    BY <2>2, <2>3, <2>4 DEF Tracked, Notes
<1> QED
  BY <1>2, <1>3, <1>4, <1>5, <1>6, <1>7, <1>8, <1>9, <1>10, <1>11, <1>12
  DEF Next, Hook, Terminal, ReadWrite, Procs

-----------------------------------------------------------------------------
(* The theorems about the commands and the hook.                            *)

LEMMA InitIInv == Init => IInv
<1> SUFFICES ASSUME Init PROVE IInv
  OBVIOUS
<1>1. TypeOK
  BY InitType
<1>2. \A p \in Procs : run[p] = Idle
  BY DEF Init
<1>3. WritesLastSave /\ HookWorksOnListed /\ HookTracksIndex /\ EncryptLeavesNoPlain
  BY <1>2, IdleFacts, ProcsFacts
  DEF WritesLastSave, WritesSaved, HookWorksOnListed, HookTracksIndex, EncryptLeavesNoPlain
<1>4. NothingLost
  BY DEF Init, NothingLost, Text
<1> QED
  BY <1>1, <1>3, <1>4 DEF IInv

LEMMA NextIInv ==
  ASSUME IInv, [Next]_vars
  PROVE  IInv'
<1>1. TypeSplit /\ TypeOK'
  BY TypeOKSplit, NextType DEF IInv
<1>2. CASE UNCHANGED vars
  <2>1. UNCHANGED <<work, index, head, run, saved, damaged>>
    BY <1>2 DEF vars
  <2>2. /\ (WritesLastSave /\ NothingLost)'
        /\ (HookWorksOnListed /\ EncryptLeavesNoPlain)'
    BY <2>1 DEF IInv, WritesLastSave, WritesSaved, NothingLost, HookWorksOnListed,
                EncryptLeavesNoPlain
  <2>3. HookTracksIndex'
    BY <2>1 DEF IInv, HookTracksIndex, Tracked
  <2> QED
    BY <1>1, <2>2, <2>3 DEF IInv
<1>3. CASE Next
  BY <1>1, <1>3, SavesKept, EncryptStep, ListedStep, TrackedStep DEF IInv
<1> QED
  BY <1>2, <1>3

(* The inductive invariant holds of every behaviour.                        *)
THEOREM InductiveInvariant == Spec => []IInv
BY InitIInv, NextIInv, PTL DEF Spec

(* Whatever commands run, alone or together, and wherever they are killed,  *)
(* the last save of a file is in the work tree, unless a crash tore it or   *)
(* it was made in the instant between a command's read and its write.       *)
THEOREM NothingLostHolds == Spec => []NothingLost
BY InductiveInvariant, PTL DEF IInv

(* Where encrypt has done with a file no plain text is left in it.          *)
THEOREM EncryptLeavesNoPlainHolds == Spec => []EncryptLeavesNoPlain
BY InductiveInvariant, PTL DEF IInv

LEMMA CommitsHidden ==
  ASSUME IInv, Next, NEW f \in Files, head'[f] # head[f]
  PROVE  run["hook"].raced \/ head'[f].form \in {"cipher", "none"}
<1>1. TypeSplit
  BY TypeOKSplit DEF IInv
<1>2. CASE Commit
  <2>1. run["hook"].pc = "commit" /\ head' = index
    BY <1>1, <1>2, CommitFields
  <2>2. run["hook"].raced \/ Tracked(run["hook"], f)
    BY <2>1 DEF IInv, HookTracksIndex
  <2> QED
    BY <2>1, <2>2 DEF Tracked, Hidden
<1>3. CASE ~Commit
  <2>1. head' = head
    BY <1>1, <1>3, OperatorFacts, PutFields, CrashFields
    DEF Next, Hook, Terminal, ReadWrite, StartCommand, StartCommit, StageAgain, CheckStaged,
        Add, Recheck, Finish, Read, Write, Stage
  <2> QED
    BY <2>1
<1> QED
  BY <1>2, <1>3

(* No commit takes plain or torn text of a file .sops.yaml names into HEAD, *)
(* unless git add or another command came between the hook's steps.         *)
THEOREM OnlyEncryptedCommittedHolds == Spec => OnlyEncryptedCommitted
<1>1. IInv /\ [Next]_vars =>
        [\A f \in Files : head'[f] # head[f] =>
           run["hook"].raced \/ head'[f].form \in {"cipher", "none"}]_vars
  BY CommitsHidden
<1> QED
  BY <1>1, InductiveInvariant, PTL DEF Spec, OnlyEncryptedCommitted

-----------------------------------------------------------------------------
(* Encryption happens once, where no two rules match one file.              *)

(* A process that goes on keeps to what is open.                            *)
TodoOpen(p) ==
  run[p].cmd # "decrypt" /\ ~run[p].raced =>
    \A m \in run[p].todo : ~IsEncrypted(work[m[2]])

LEMMA TodoStep ==
  ASSUME OneRulePerFile, TypeSplit, TodoIsOpen, Next
  PROVE  TodoIsOpen'
<1> SUFFICES ASSUME NEW q \in Procs, ~run'[q].raced PROVE TodoOpen(q)'
  BY DEF TodoIsOpen, TodoOpen
<1>0. TodoOpen(q) /\ run[q].todo \subseteq Matching
  BY DEF TodoIsOpen, TodoOpen, TypeSplit, RunOK, Runs
<1>1. CASE /\ work' = work /\ run'[q].todo \subseteq run[q].todo
           /\ run'[q].cmd = run[q].cmd /\ run'[q].raced = run[q].raced
  BY <1>0, <1>1 DEF TodoOpen
<1>2. CASE run'[q] = Idle
  BY <1>2, IdleFacts DEF TodoOpen
<1>3. CASE LearnsOfRace(q)
  <2>1. run[q].pc = "idle" /\ run[q] = Idle
    BY <1>3 DEF LearnsOfRace, TypeSplit, RunOK
  <2> QED
    BY <1>3, <2>1, IdleFacts DEF LearnsOfRace, TodoOpen
<1>4. CASE work' = work /\ run'[q] = run[q]
  BY <1>1, <1>4
<1>5. ASSUME NEW p \in Procs, NEW m \in Matching, Read(p, m)
      PROVE  TodoOpen(q)'
  <2>1. CASE p = q
    BY <1>1, <1>2, <1>5, <2>1, ReadFields DEF GoesOn, Unwritten
  <2>2. CASE p # q
    BY <1>4, <1>5, <2>2, ReadFields DEF Unwritten
  <2> QED
    BY <2>1, <2>2
<1>6. ASSUME NEW p \in Procs, Write(p)
      PROVE  TodoOpen(q)'
  <2>1. CASE p = q
    <3> DEFINE entry == run[q].entry
    <3>1. /\ entry \in Matching /\ entry[2] \in Files
          /\ work' = [work EXCEPT ![entry[2]] = run[q].result]
          /\ run'[q].todo = run[q].todo \ {entry}
          /\ run'[q].cmd = run[q].cmd /\ run'[q].raced = run[q].raced
      BY <1>6, <2>1, WriteFields, MatchingFacts DEF GoesOn
    <3>2. ASSUME NEW m \in run'[q].todo
          PROVE  m \in run[q].todo /\ work'[m[2]] = work[m[2]]
      BY <1>0, <3>1, MatchingFacts DEF OneRulePerFile, TypeSplit
    <3> QED
      BY <1>0, <3>1, <3>2 DEF TodoOpen
  <2>2. CASE p # q
    BY <1>3, <1>6, <2>2, WriteFields
  <2> QED
    BY <2>1, <2>2
<1>7. CASE StageAgain \/ CheckStaged \/ Add \/ Recheck \/ Commit
  <2>1. work' = work
    BY <1>7, HookFrame DEF Unwritten
  <2>2. CASE q = "terminal"
    BY <1>4, <1>7, <2>1, <2>2, HookFrame
  <2>3. CASE q = "hook" /\ CheckStaged /\ run'["hook"] # Idle
    <3> DEFINE open == {m \in run["hook"].listed : ~IsEncrypted(work[m[2]])}
    <3>1. run'["hook"].todo = open
      BY <2>3, CheckStagedFields
    <3> QED
      BY <2>1, <2>3, <3>1 DEF TodoOpen
  <2>4. CASE q = "hook" /\ ~CheckStaged /\ run'["hook"] # Idle
    BY <1>1, <1>7, <2>1, <2>4, StageAgainFields, AddFields, RecheckFields, CommitFields
    DEF GoesOn
  <2> QED
    BY <1>2, <2>2, <2>3, <2>4 DEF Procs
<1>8. ASSUME NEW cmd \in {"encrypt", "decrypt"}, StartCommand(cmd)
      PROVE  TodoOpen(q)'
  BY <1>4, <1>8, StartCommandFields DEF TodoOpen, Procs, Unwritten
<1>9. CASE StartCommit
  BY <1>4, <1>9, StartCommitFields DEF TodoOpen, Procs, Unwritten
<1>10. CASE Finish
  BY <1>2, <1>4, <1>10 DEF Finish, End, TypeSplit, Procs
<1>11. ASSUME NEW p \in Procs, Crash(p)
       PROVE  TodoOpen(q)'
  BY <1>2, <1>3, <1>4, <1>11, CrashFields DEF Unwritten
<1>12. ASSUME NEW f \in Files, Save(f) \/ Delete(f) \/ Repair(f)
       PROVE  TodoOpen(q)'
  <2>1. PICK text : OperatorPuts(f, text)
    BY <1>12, OperatorFacts
  <2>2. Notes(q, f) /\ work' = [work EXCEPT ![f] = text] /\ ~IsEncrypted(text)
    BY <2>1, PutFields DEF OperatorPuts, IsEncrypted
  <2> QED
    BY <1>0, <2>2, MatchingFacts DEF TodoOpen, Notes, TypeSplit
<1>13. CASE \E f \in Files : Stage(f)
  BY <1>3, <1>4, <1>13, StageFields DEF Unwritten, Procs
<1> QED
  BY <1>5, <1>6, <1>7, <1>8, <1>9, <1>10, <1>11, <1>12, <1>13
  DEF Next, Hook, Terminal, ReadWrite, Procs

LEMMA EncryptsOnce ==
  ASSUME IInv, TodoIsOpen, Next, NEW f \in Files,
         IsEncrypted(work[f]), work'[f].form = "double"
  PROVE  \E p \in Procs : run[p].raced
<1>1. TypeSplit
  BY TypeOKSplit DEF IInv
<1>2. work'[f] # work[f]
  BY DEF IsEncrypted
<1>3. CASE \E p \in Procs : Write(p)
  <2>1. PICK p \in Procs : Write(p)
    BY <1>3
  <2>2. /\ run[p].pc = "write" /\ run[p].entry \in Matching
        /\ work' = [work EXCEPT ![run[p].entry[2]] = run[p].result]
    BY <1>1, <2>1, WriteFields
  <2>3. run[p].entry[2] = f /\ run[p].result.form = "double"
    BY <1>1, <1>2, <2>2 DEF TypeSplit
  <2>4. run[p].entry \in run[p].todo /\ run[p].cmd # "decrypt"
    BY <2>2, <2>3 DEF IInv, WritesLastSave, WritesSaved
  <2> QED
    BY <2>3, <2>4 DEF TodoIsOpen
<1>4. CASE \E p \in Procs : Crash(p)
  BY <1>1, <1>2, <1>4, CrashFields, MatchingFacts, NoneFacts DEF TypeSplit, Unwritten
<1>5. CASE \E g \in Files : Save(g) \/ Delete(g) \/ Repair(g)
  BY <1>1, <1>2, <1>5, OperatorFacts, PutFields DEF OperatorPuts, TypeSplit
<1>6. CASE \/ \E p \in Procs, m \in Matching : Read(p, m)
           \/ \E cmd \in {"encrypt", "decrypt"} : StartCommand(cmd)
           \/ StartCommit \/ Finish
           \/ StageAgain \/ CheckStaged \/ Add \/ Recheck \/ Commit
           \/ \E g \in Files : Stage(g)
  <2>1. work' = work
    BY <1>1, <1>6, ReadFields, StartCommandFields, StartCommitFields, HookFrame, StageFields
    DEF Finish, Unwritten
  <2> QED
    BY <1>2, <2>1
<1> QED
  BY <1>3, <1>4, <1>5, <1>6 DEF Next, Hook, Terminal, ReadWrite, Procs

LEMMA InitOpen == Init => TodoIsOpen
BY IdleFacts DEF Init, TodoIsOpen

(* "Skip files that are already encrypted": where no two creation rules     *)
(* match one file, no command encrypts a cipher text again, unless another  *)
(* one wrote while it ran.  (With two rules for a file it is listed twice.) *)
THEOREM EncryptedOnceHolds == ASSUME OneRulePerFile PROVE Spec => EncryptedOnce
<1>1. IInv /\ TodoIsOpen /\ [Next]_vars => TodoIsOpen'
  BY TodoStep, TypeOKSplit DEF IInv, vars, TodoIsOpen
<1>2. IInv /\ TodoIsOpen /\ [Next]_vars =>
        [\A f \in Files : IsEncrypted(work[f]) /\ work'[f].form = "double" =>
           \E p \in Procs : run[p].raced]_vars
  BY EncryptsOnce
<1> QED
  BY <1>1, <1>2, InitOpen, InductiveInvariant, PTL DEF Spec, EncryptedOnce
=============================================================================
