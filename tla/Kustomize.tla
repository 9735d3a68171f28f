------------------------------ MODULE Kustomize ------------------------------
(***************************************************************************)
(* ProcessDirectory (pkg/fluxhandler/kustomizations.go): the ks.yaml and   *)
(* kustomization.yaml files that init and genks keep under                 *)
(* kubernetes/apps, as functions of the tree.                              *)
(*                                                                         *)
(* A line of a kustomization.yaml names an entry of its directory, plainly *)
(* or by the ks.yaml inside of it, or is some other text. The order of the *)
(* lines (namespace.yaml comes first) and indentation are left out, and a  *)
(* kustomization.yaml that is missing is one with the header only.         *)
(***************************************************************************)
CONSTANTS Dirs, Manifests,   \* directories; YAML files other than those two
          Subdirs, Files,    \* of each directory
          Apps,              \* the directories that contain one named app
          Texts,             \* lines that name no entry
          Within(_, _)       \* strings.Contains: one line's name in another line

Names == Dirs \cup Manifests

Plain(n) == [name |-> n, by |-> "itself"]

ByKs(n) == [name |-> n, by |-> "ks.yaml"]

Lines == {Plain(n) : n \in Names} \cup {ByKs(n) : n \in Dirs} \cup Texts

(* The generated files: which directories have a ks.yaml, and the lines of *)
(* each kustomization.yaml.                                                *)
Trees == [ks : SUBSET Dirs, listing : [Dirs -> SUBSET Lines]]

In(d) == Subdirs[d] \cup Files[d]

Entry(tree, n) == IF n \in tree.ks THEN ByKs(n) ELSE Plain(n)

(* What the file's text, as it was read, does not contain yet.             *)
Resources(tree, d) ==
  {e \in {Entry(tree, n) : n \in In(d)} : ~\E l \in tree.listing[d] : Within(e, l)}

(* An entry listed by its ks.yaml is not listed plainly as well.           *)
WithoutPrefixes(lines) == lines \ {Plain(n) : n \in {m \in Dirs : ByKs(m) \in lines}}

createOrUpdateKustomizationYaml(tree, d) ==
  WithoutPrefixes(tree.listing[d] \cup Resources(tree, d))

(* One directory of ProcessDirectory, before it goes into the directories  *)
(* below: an application gets its ks.yaml, other directories without one   *)
(* get their kustomization.yaml.                                           *)
Visit(tree, d) ==
  [ks |-> tree.ks \cup ({d} \cap Apps),
   listing |-> IF d \in tree.ks \cup Apps THEN tree.listing
               ELSE [tree.listing EXCEPT ![d] = createOrUpdateKustomizationYaml(tree, d)]]

(* The whole of ProcessDirectory. A directory is visited before those in   *)
(* it, so each finds its own files and theirs as they were (VisitIsLocal): *)
(* the visits of one pass are as good as simultaneous.                     *)
ProcessDirectory(tree) ==
  [ks |-> tree.ks \cup Apps,
   listing |-> [d \in Dirs |-> Visit(tree, d).listing[d]]]

(* genks, and the end of InitFiles: "The second pass lets parent           *)
(* directories reference newly created ks.yaml files."                     *)
genks(tree) == ProcessDirectory(ProcessDirectory(tree))

-----------------------------------------------------------------------------
TreeOK ==
  /\ Apps \subseteq Dirs
  /\ Dirs \cap Manifests = {}
  /\ Subdirs \in [Dirs -> SUBSET Dirs]
  /\ Files \in [Dirs -> SUBSET Manifests]
  /\ \A n \in Names : Plain(n) \notin Texts /\ ByKs(n) \notin Texts

(* A line contains itself; what else it contains is left open.             *)
EachLineWithinItself == \A l \in Lines : Within(l, l)

(* An entry whose name is found in the file is one that the file lists: it *)
(* has not been found within another name, as "system" is in "flux-system".*)
NothingHidden(tree) ==
  \A d \in Dirs : \A n \in In(d) :
    (\E l \in tree.listing[d] : Within(Entry(tree, n), l))
      => tree.listing[d] \cap {Entry(tree, n), ByKs(n)} # {}

(* No name occurs inside of a line that is not about it.                   *)
DistinctNames ==
  \A n \in Names, l \in Lines :
    /\ Within(Plain(n), l) => l \in {Plain(n), ByKs(n)}
    /\ Within(ByKs(n), l) => l = ByKs(n)

(* No kustomization.yaml names a ks.yaml that has been deleted.            *)
NoneStale(tree) == \A d, n \in Dirs : ByKs(n) \in tree.listing[d] => n \in tree.ks

(* Each entry is listed exactly once, by its ks.yaml where it has one.     *)
EachListedOnce(tree) ==
  \A d \in Dirs \ tree.ks : \A n \in In(d) :
    tree.listing[d] \cap {Plain(n), ByKs(n)} = {Entry(tree, n)}
=============================================================================
