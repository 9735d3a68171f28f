-------------------------- MODULE Kustomize_proofs --------------------------
(***************************************************************************)
(* What two passes of ProcessDirectory leave behind, for every tree of     *)
(* applications.                                                           *)
(***************************************************************************)
EXTENDS Kustomize, TLAPS

LEMMA NamesDiffer ==
  /\ \A n, m : Plain(n) = Plain(m) => n = m
  /\ \A n, m : ByKs(n) = ByKs(m) => n = m
  /\ \A n, m : Plain(n) # ByKs(m)
<1>1. ASSUME NEW n, NEW m, Plain(n) = Plain(m) PROVE n = m
  <2>1. Plain(n).name = n /\ Plain(m).name = m
    BY DEF Plain
  <2> QED BY <1>1, <2>1
<1>2. ASSUME NEW n, NEW m, ByKs(n) = ByKs(m) PROVE n = m
  <2>1. ByKs(n).name = n /\ ByKs(m).name = m
    BY DEF ByKs
  <2> QED BY <1>2, <2>1
<1>3. ASSUME NEW n, NEW m PROVE Plain(n) # ByKs(m)
  <2>1. Plain(n).by = "itself" /\ ByKs(m).by = "ks.yaml"
    BY DEF Plain, ByKs
  <2> QED BY <2>1
<1> QED BY <1>1, <1>2, <1>3

LEMMA EntriesAreLines ==
  ASSUME TreeOK, NEW tree \in Trees, NEW d \in Dirs, NEW n \in In(d)
  PROVE  /\ n \in Names
         /\ Entry(tree, n) \in Lines
         /\ n \in tree.ks => n \in Dirs
<1>1. n \in Names /\ tree.ks \subseteq Dirs
  BY DEF TreeOK, In, Names, Trees
<1> QED BY <1>1 DEF Entry, Lines

LEMMA UpdateTyped ==
  ASSUME TreeOK, NEW tree \in Trees, NEW d \in Dirs
  PROVE  createOrUpdateKustomizationYaml(tree, d) \subseteq Lines
<1>1. tree.listing[d] \subseteq Lines
  BY DEF Trees
<1>2. Resources(tree, d) \subseteq Lines
  BY EntriesAreLines DEF Resources
<1> QED BY <1>1, <1>2 DEF createOrUpdateKustomizationYaml, WithoutPrefixes

LEMMA PassFields ==
  ASSUME TreeOK, NEW tree \in Trees
  PROVE  LET after == ProcessDirectory(tree) IN
         /\ after \in Trees
         /\ after.ks = tree.ks \cup Apps
         /\ \A d \in Dirs : after.listing[d] =
              IF d \in tree.ks \cup Apps THEN tree.listing[d]
              ELSE createOrUpdateKustomizationYaml(tree, d)
<1> DEFINE after == ProcessDirectory(tree)
<1>1. after.ks = tree.ks \cup Apps /\ tree.ks \subseteq Dirs /\ Apps \subseteq Dirs
  BY DEF ProcessDirectory, Trees, TreeOK
<1>2. ASSUME NEW d \in Dirs
      PROVE  after.listing[d] = IF d \in tree.ks \cup Apps THEN tree.listing[d]
                                ELSE createOrUpdateKustomizationYaml(tree, d)
  <2>1. after.listing[d] = Visit(tree, d).listing[d]
    BY DEF ProcessDirectory
  <2>2. tree.listing \in [Dirs -> SUBSET Lines]
    BY DEF Trees
  <2> QED BY <2>1, <2>2 DEF Visit
<1>3. ASSUME NEW d \in Dirs PROVE after.listing[d] \in SUBSET Lines
  <2>1. tree.listing[d] \subseteq Lines
    BY DEF Trees
  <2>2. createOrUpdateKustomizationYaml(tree, d) \subseteq Lines
    BY UpdateTyped
  <2> HIDE DEF after
  <2>3. after.listing[d] \subseteq Lines
    BY <1>2, <2>1, <2>2
  <2> QED BY <2>3
<1>4. after = [ks |-> after.ks, listing |-> [d \in Dirs |-> after.listing[d]]]
  BY DEF ProcessDirectory
<1>5. after \in Trees
  BY <1>1, <1>3, <1>4 DEF Trees
<1> QED BY <1>1, <1>2, <1>5

(* A visit changes what no other directory's visit looks at, except that   *)
(* of the directory it lies in, which comes before it: the order within a  *)
(* pass does not matter (kustomizations.go:152).                           *)
THEOREM VisitIsLocal ==
  ASSUME TreeOK, NEW tree \in Trees, NEW d \in Dirs, NEW e \in Dirs,
         d # e, d \notin Subdirs[e]
  PROVE  Visit(Visit(tree, d), e).listing[e] = Visit(tree, e).listing[e]
<1> DEFINE after == Visit(tree, d)
<1>1. /\ after.ks = tree.ks \cup ({d} \cap Apps)
      /\ after.listing[e] = tree.listing[e]
      /\ tree.listing \in [Dirs -> SUBSET Lines]
      /\ after.listing \in [Dirs -> SUBSET Lines]
  BY UpdateTyped DEF Visit, Trees
<1>2. \A n \in In(e) : n \in after.ks <=> n \in tree.ks
  <2>1. d \notin In(e)
    BY DEF TreeOK, In
  <2> QED BY <1>1, <2>1
<1>3. {Entry(after, n) : n \in In(e)} = {Entry(tree, n) : n \in In(e)}
  BY <1>2 DEF Entry
<1>4. createOrUpdateKustomizationYaml(after, e) = createOrUpdateKustomizationYaml(tree, e)
  BY <1>1, <1>3 DEF createOrUpdateKustomizationYaml, Resources
<1>5. e \in after.ks \cup Apps <=> e \in tree.ks \cup Apps
  BY <1>1
<1> QED BY <1>1, <1>4, <1>5 DEF Visit

(* A line by ks.yaml that an update leaves was there or names an entry     *)
(* that has its ks.yaml.                                                   *)
LEMMA UpdateKeepsNoneStale ==
  ASSUME TreeOK, NEW tree \in Trees, NoneStale(tree), NEW d \in Dirs, NEW n \in Dirs,
         ByKs(n) \in createOrUpdateKustomizationYaml(tree, d)
  PROVE  n \in tree.ks
<1>1. CASE ByKs(n) \in tree.listing[d]
  BY <1>1 DEF NoneStale
<1>2. CASE ByKs(n) \in Resources(tree, d)
  <2>1. PICK m \in In(d) : ByKs(n) = Entry(tree, m)
    BY <1>2 DEF Resources
  <2> QED BY <2>1, NamesDiffer DEF Entry
<1> QED BY <1>1, <1>2 DEF createOrUpdateKustomizationYaml, WithoutPrefixes

(* A pass may end after any directory, with an error or because it is      *)
(* interrupted; what it leaves is again a tree that genks completes.       *)
THEOREM InterruptedPassCanBeRepeated ==
  ASSUME TreeOK, NEW tree \in Trees, NoneStale(tree), NEW d \in Dirs
  PROVE  Visit(tree, d) \in Trees /\ NoneStale(Visit(tree, d))
<1>1. tree.ks \subseteq Dirs /\ tree.listing \in [Dirs -> SUBSET Lines]
  BY DEF Trees
<1>2. Visit(tree, d) \in Trees
  BY <1>1, UpdateTyped DEF Visit, Trees, TreeOK
<1>3. ASSUME NEW e \in Dirs, NEW n \in Dirs, ByKs(n) \in Visit(tree, d).listing[e]
      PROVE  n \in tree.ks
  <2>1. \/ ByKs(n) \in tree.listing[e]
        \/ ByKs(n) \in createOrUpdateKustomizationYaml(tree, d)
    BY <1>1, <1>3 DEF Visit
  <2> QED BY <2>1, UpdateKeepsNoneStale DEF NoneStale
<1>4. NoneStale(Visit(tree, d))
  <2>1. tree.ks \subseteq Visit(tree, d).ks
    BY DEF Visit
  <2> QED BY <1>3, <2>1 DEF NoneStale
<1> QED BY <1>2, <1>4

LEMMA PassKeepsNoneStale ==
  ASSUME TreeOK, NEW tree \in Trees, NoneStale(tree)
  PROVE  NoneStale(ProcessDirectory(tree))
<1>1. ASSUME NEW d \in Dirs, NEW n \in Dirs, ByKs(n) \in ProcessDirectory(tree).listing[d]
      PROVE  n \in ProcessDirectory(tree).ks
  <2>1. \/ ByKs(n) \in tree.listing[d]
        \/ ByKs(n) \in createOrUpdateKustomizationYaml(tree, d)
    BY <1>1, PassFields
  <2>2. n \in tree.ks
    BY <2>1, UpdateKeepsNoneStale DEF NoneStale
  <2> QED BY <2>2, PassFields
<1> QED BY <1>1 DEF NoneStale

(* An update lists an entry once, the way it was to be listed.             *)
LEMMA UpdateListsOnce ==
  ASSUME TreeOK, NEW tree \in Trees, NoneStale(tree), NothingHidden(tree),
         NEW d \in Dirs, NEW n \in In(d)
  PROVE  createOrUpdateKustomizationYaml(tree, d) \cap {Plain(n), ByKs(n)}
           = {Entry(tree, n)}
<1> DEFINE all == tree.listing[d] \cup Resources(tree, d)
<1>1. n \in Names /\ tree.ks \subseteq Dirs /\ tree.listing[d] \subseteq Lines
  BY EntriesAreLines DEF Trees
<1>2. CASE n \in tree.ks
  <2>1. Entry(tree, n) = ByKs(n) /\ n \in Dirs
    BY <1>1, <1>2 DEF Entry
  <2>2. ByKs(n) \in all
    <3>1. CASE \E l \in tree.listing[d] : Within(ByKs(n), l)
      BY <2>1, <3>1 DEF NothingHidden
    <3>2. CASE ~\E l \in tree.listing[d] : Within(ByKs(n), l)
      BY <2>1, <3>2 DEF Resources
    <3> QED BY <3>1, <3>2
  <2>3. ByKs(n) \in WithoutPrefixes(all)
    BY <2>2, NamesDiffer DEF WithoutPrefixes
  <2>4. Plain(n) \notin WithoutPrefixes(all)
    BY <2>1, <2>2 DEF WithoutPrefixes
  <2> QED BY <2>1, <2>3, <2>4 DEF createOrUpdateKustomizationYaml
<1>3. CASE n \notin tree.ks
  <2>1. Entry(tree, n) = Plain(n)
    BY <1>3 DEF Entry
  <2>2. ByKs(n) \notin all
    <3>1. ByKs(n) \notin Resources(tree, d)
      <4>1. ASSUME ByKs(n) \in Resources(tree, d) PROVE FALSE
        <5>1. PICK m \in In(d) : ByKs(n) = Entry(tree, m)
          BY <4>1 DEF Resources
        <5> QED BY <5>1, <1>3, NamesDiffer DEF Entry
      <4> QED BY <4>1
    <3>2. ByKs(n) \notin tree.listing[d]
      <4>1. ASSUME ByKs(n) \in tree.listing[d] PROVE n \in Dirs
        <5>1. ByKs(n) \in Lines /\ ByKs(n) \notin Texts
          BY <1>1, <4>1 DEF TreeOK
        <5> QED BY <5>1, NamesDiffer DEF Lines
      <4> QED BY <4>1, <1>3 DEF NoneStale
    <3> QED BY <3>1, <3>2
  <2>3. Plain(n) \in all
    <3>1. CASE \E l \in tree.listing[d] : Within(Plain(n), l)
      <4>1. tree.listing[d] \cap {Plain(n), ByKs(n)} # {}
        BY <2>1, <3>1 DEF NothingHidden
      <4> QED BY <4>1, <2>2
    <3>2. CASE ~\E l \in tree.listing[d] : Within(Plain(n), l)
      BY <2>1, <3>2 DEF Resources
    <3> QED BY <3>1, <3>2
  <2>4. Plain(n) \in WithoutPrefixes(all)
    BY <2>2, <2>3, NamesDiffer DEF WithoutPrefixes
  <2>5. ByKs(n) \notin WithoutPrefixes(all)
    BY <2>2 DEF WithoutPrefixes
  <2> QED BY <2>1, <2>4, <2>5 DEF createOrUpdateKustomizationYaml
<1> QED BY <1>2, <1>3

(* Where no name occurs within another, nothing is ever hidden.            *)
THEOREM DistinctNamesHideNothing ==
  ASSUME TreeOK, DistinctNames, NEW tree \in Trees
  PROVE  NothingHidden(tree)
<1>1. ASSUME NEW d \in Dirs, NEW n \in In(d),
             NEW l \in tree.listing[d], Within(Entry(tree, n), l)
      PROVE  l \in {Entry(tree, n), ByKs(n)}
  <2>1. n \in Names /\ l \in Lines
    BY EntriesAreLines DEF Trees
  <2> QED BY <1>1, <2>1 DEF DistinctNames, Entry
<1> QED BY <1>1 DEF NothingHidden

(* After two passes every directory is complete: each of its entries is    *)
(* listed, once, and by its ks.yaml where it has one. An entry whose name  *)
(* is found within another one is passed over (kustomizations.go:82), so   *)
(* neither pass may meet one.                                              *)
THEOREM TwoPassesListEverything ==
  ASSUME TreeOK, NEW tree \in Trees, NoneStale(tree),
         NothingHidden(tree), NothingHidden(ProcessDirectory(tree))
  PROVE  EachListedOnce(genks(tree))
<1> DEFINE first == ProcessDirectory(tree)
<1>1. first \in Trees /\ NoneStale(first) /\ first.ks = tree.ks \cup Apps
  BY PassFields, PassKeepsNoneStale
<1>2. genks(tree).ks = first.ks
  BY <1>1, PassFields DEF genks
<1>3. ASSUME NEW d \in Dirs \ first.ks, NEW n \in In(d)
      PROVE  genks(tree).listing[d] \cap {Plain(n), ByKs(n)} = {Entry(genks(tree), n)}
  <2>1. genks(tree).listing[d] = createOrUpdateKustomizationYaml(first, d)
    BY <1>1, PassFields DEF genks
  <2>2. Entry(genks(tree), n) = Entry(first, n)
    BY <1>2 DEF Entry
  <2> QED BY <1>1, <2>1, <2>2, UpdateListsOnce
<1> QED BY <1>2, <1>3 DEF EachListedOnce

(* A third pass changes nothing, nor does a repeated genks: two passes are *)
(* enough, however deep the tree is.                                       *)
THEOREM TwoPassesAreEnough ==
  ASSUME TreeOK, EachLineWithinItself, NEW tree \in Trees, NoneStale(tree),
         NothingHidden(tree), NothingHidden(ProcessDirectory(tree))
  PROVE  ProcessDirectory(genks(tree)) = genks(tree)
<1> DEFINE first == ProcessDirectory(tree)
           done == genks(tree)
<1>1. /\ first \in Trees /\ NoneStale(first) /\ first.ks = tree.ks \cup Apps
  BY PassFields, PassKeepsNoneStale
<1>2. /\ done \in Trees /\ done.ks = first.ks /\ Apps \subseteq first.ks
      /\ done.listing \in [Dirs -> SUBSET Lines]
  BY <1>1, PassFields DEF genks, Trees
<1>3. ASSUME NEW d \in Dirs, d \notin done.ks
      PROVE  createOrUpdateKustomizationYaml(done, d) = done.listing[d]
  <2>1. done.listing[d] = createOrUpdateKustomizationYaml(first, d)
    BY <1>1, <1>2, <1>3, PassFields DEF genks
  <2>2. Resources(done, d) = {}
    <3>1. ASSUME NEW n \in In(d)
          PROVE  \E l \in done.listing[d] : Within(Entry(done, n), l)
      <4>1. Entry(done, n) \in done.listing[d]
        BY <1>2, <1>3, TwoPassesListEverything DEF EachListedOnce
      <4>2. Entry(done, n) \in Lines
        BY <1>2, EntriesAreLines
      <4>3. Within(Entry(done, n), Entry(done, n))
        BY <4>2 DEF EachLineWithinItself
      <4> QED BY <4>1, <4>3
    <3> QED BY <3>1 DEF Resources
  <2>3. WithoutPrefixes(done.listing[d]) = done.listing[d]
    BY <2>1 DEF createOrUpdateKustomizationYaml, WithoutPrefixes
  <2> QED BY <2>2, <2>3 DEF createOrUpdateKustomizationYaml
<1>4. \A d \in Dirs : ProcessDirectory(done).listing[d] = done.listing[d]
  BY <1>2, <1>3, PassFields
<1>5. ProcessDirectory(done) = [ks |-> done.ks, listing |-> done.listing]
  <2>1. ProcessDirectory(done).ks = done.ks
    BY <1>2, PassFields
  <2>2. ProcessDirectory(done).listing = done.listing
    <3>1. ProcessDirectory(done).listing \in [Dirs -> SUBSET Lines]
      BY <1>2, PassFields DEF Trees
    <3> QED BY <1>2, <1>4, <3>1
  <2> QED BY <2>1, <2>2 DEF ProcessDirectory
<1>6. done = [ks |-> done.ks, listing |-> done.listing]
  BY <1>2 DEF Trees
<1> QED BY <1>5, <1>6
=============================================================================
