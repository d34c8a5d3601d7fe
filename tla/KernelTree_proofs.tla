-------------------------- MODULE KernelTree_proofs --------------------------
(***************************************************************************)
(* What a run boots was configured for its own bundle by scripts no older  *)
(* than the run, and has exactly the changes it asks for if its worktree   *)
(* serves one request; the shared repository keeps no run from its         *)
(* worktree: for any runs, requests and editions, wherever runs are killed *)
(* and whichever commands of theirs fail.                                  *)
(***************************************************************************)
EXTENDS KernelTree, TLAPS, FiniteSetTheorems

Bundles == {Want[r].bundle : r \in Runs}
Key == [bundle : Bundles, edition : Nat]
Configs == [bundle : Bundles, edition : Nat, whole : BOOLEAN]
AllChanges == UNION {Changes(r) : r \in Runs}
Half == {"none", "apply", "am"}
Images == [src : SUBSET AllChanges, half : Half, config : Configs \cup {None}]
Trees == [git : BOOLEAN, src : SUBSET AllChanges, half : Half,
          marks : SUBSET {"patch", "thread"}, key : Key \cup {None},
          config : Configs \cup {None}, image : Images \cup {None}]

Types ==
  /\ pc \in [Runs -> PC]
  /\ newkey \in [Runs -> Key \cup {None}]
  /\ began \in [Runs -> Nat]
  /\ tree \in [Worktrees -> Trees]
  /\ edition \in Nat
  /\ booted \in [Runs -> Images \cup {None}]

\* Begin lets one run at a time into a root.
Alone ==
  \A r, q \in Runs :
    pc[r] \in Active /\ pc[q] \in Active /\ Want[r].root = Want[q].root => r = q

\* A configuration made under key k.
Matches(config, k) ==
  config \in Configs /\ config.bundle = k.bundle /\ config.edition >= k.edition

\* Whatever is in a worktree was made under the key that is in it.
TreeOK(w) ==
  /\ tree[w].config = None \/ Matches(tree[w].config, tree[w].key)
  /\ tree[w].image = None \/ Matches(tree[w].image.config, tree[w].key)

\* How far a run is with key, configuration and image, and what it booted.
RunOK(r) ==
  /\ pc[r] \in Active => began[r] <= edition
  /\ pc[r] \in {"apply", "mark"} => Want[r].patch # None
  /\ pc[r] \in {"am", "markam"} => Want[r].thread # None
  /\ pc[r] \in Building \ {"key"} =>
       /\ newkey[r] \in Key /\ newkey[r].bundle = Want[r].bundle
       /\ newkey[r].edition >= began[r] /\ newkey[r].edition <= edition
  /\ pc[r] = "writekey" => tree[WT(r)].config = None /\ tree[WT(r)].image = None
  /\ pc[r] \in {"configure", "build", "boot"} => tree[WT(r)].key = newkey[r]
  /\ pc[r] = "build" => Matches(tree[WT(r)].config, newkey[r])
  /\ pc[r] = "boot" => Matches(tree[WT(r)].image.config, newkey[r])
  /\ pc[r] = "idle" => booted[r] = None
  /\ booted[r] # None =>
       booted[r].config.bundle = Want[r].bundle /\ booted[r].config.edition >= began[r]

KInv == Types /\ Alone /\ (\A w \in Worktrees : TreeOK(w)) /\ (\A r \in Runs : RunOK(r))

LEMMA WTFacts ==
  /\ \A r \in Runs :
       WT(r) \in Worktrees /\ Changes(r) \subseteq AllChanges /\ Want[r].bundle \in Bundles
  /\ \A r, q \in Runs : WT(r) = WT(q) => Want[r].root = Want[q].root
  /\ \A r \in Runs, w \in Worktrees : WT(r) = w => Want[r].root = w[1]
  /\ \A r \in Runs : Want[r].patch # None => Want[r].patch \in AllChanges
  /\ \A r \in Runs : Want[r].thread # None => Want[r].thread \in AllChanges
  BY DEF WT, Worktrees, AllChanges, Changes, Bundles

LEMMA InitKInv == Init => KInv
  BY TreeAssumption, WTFacts DEF Init, KInv, Types, Alone, TreeOK, RunOK, PC, Active,
     Preparing, Building, Trees, NoTree, Half

\* A step of an active run: the others' worktrees are elsewhere, so what holds of
\* them is left alone.
LEMMA Frame ==
  ASSUME KInv, Types', NEW r \in Runs, pc[r] \in Active,
         \A q \in Runs \ {r} : /\ pc'[q] = pc[q] /\ newkey'[q] = newkey[q]
                               /\ began'[q] = began[q] /\ booted'[q] = booted[q],
         \A w \in Worktrees \ {WT(r)} : tree'[w] = tree[w],
         edition' = edition,
         TreeOK(WT(r))', RunOK(r)'
  PROVE  KInv'
<1>1. Alone'
  BY DEF KInv, Alone
<1>2. ASSUME NEW w \in Worktrees PROVE TreeOK(w)'
  BY DEF KInv, TreeOK
<1>3. ASSUME NEW q \in Runs, q # r PROVE RunOK(q)'
  <2>1. RunOK(q) /\ pc'[q] = pc[q] /\ newkey'[q] = newkey[q] /\ began'[q] = began[q]
        /\ booted'[q] = booted[q]
    BY <1>3 DEF KInv
  <2>2. CASE pc[q] \in Active
    <3>1. WT(q) # WT(r) /\ WT(q) \in Worktrees
      BY <1>3, <2>2, WTFacts DEF KInv, Alone
    <3>2. tree'[WT(q)] = tree[WT(q)]
      BY <3>1
    <3> QED
      BY <2>1, <3>2 DEF RunOK, Matches
  <2>3. CASE pc[q] \notin Active
    BY <2>1, <2>3 DEF RunOK, Active, Building, Matches
  <2> QED
    BY <2>2, <2>3
<1> QED
  BY <1>1, <1>2, <1>3 DEF KInv

\* A step of prepare_kernel_tree: it leaves key, configuration and image as they
\* are, or makes a new worktree.
LEMMA PrepareFrame ==
  ASSUME KInv, NEW r \in Runs, pc[r] \in Preparing,
         NEW to \in Preparing \cup {"key", "died", "over"}, pc' = [pc EXCEPT ![r] = to],
         to \in {"apply", "mark"} => Want[r].patch # None,
         to \in {"am", "markam"} => Want[r].thread # None,
         UNCHANGED <<newkey, began, booted, edition>>,
         NEW t \in Trees, tree' = [tree EXCEPT ![WT(r)] = t],
         \/ t.key = tree[WT(r)].key /\ t.config = tree[WT(r)].config
            /\ t.image = tree[WT(r)].image
         \/ t.config = None /\ t.image = None
  PROVE  KInv'
<1>1. Types' /\ tree'[WT(r)] = t /\ pc'[r] = to
  BY WTFacts DEF KInv, Types, PC, Active, Building
<1>2. TreeOK(WT(r))'
  BY <1>1, WTFacts DEF KInv, TreeOK
<1>3. RunOK(r)'
  BY <1>1 DEF KInv, RunOK, Active, Preparing, Building
<1>4. /\ \A q \in Runs \ {r} : pc'[q] = pc[q]
      /\ \A w \in Worktrees \ {WT(r)} : tree'[w] = tree[w]
  BY DEF KInv, Types
<1> QED
  BY <1>1, <1>2, <1>3, <1>4, Frame DEF Active

\* The same for steps that do not touch the worktree.
LEMMA PrepareStay ==
  ASSUME KInv, NEW r \in Runs, pc[r] \in Preparing,
         NEW to \in Preparing \cup {"key", "died", "over"}, pc' = [pc EXCEPT ![r] = to],
         to \in {"apply", "mark"} => Want[r].patch # None,
         to \in {"am", "markam"} => Want[r].thread # None,
         UNCHANGED <<newkey, began, booted, edition, tree>>
  PROVE  KInv'
<1>1. tree' = [tree EXCEPT ![WT(r)] = tree[WT(r)]] /\ tree[WT(r)] \in Trees
  BY WTFacts DEF KInv, Types
<1> QED
  BY <1>1, PrepareFrame

LEMMA PrepareKInv ==
  ASSUME KInv, NEW r \in Runs, Prepare(r)
  PROVE  KInv'
<1> USE DEF process, shared, Go, Goto, Die, Forget
<1> DEFINE t == tree[WT(r)]
<1>1. t \in Trees /\ WT(r) \in Worktrees
  BY WTFacts DEF KInv, Types
<1>2. CASE ListRemotes(r) \/ AddRemote(r)
  BY <1>2, PrepareStay DEF ListRemotes, AddRemote, AfterRemote, Preparing
<1>3. CASE FetchBegins(r) \/ FetchSucceeds(r) \/ FetchFails(r)
  BY <1>3, PrepareStay DEF FetchBegins, FetchSucceeds, FetchFails, Preparing
<1>4. CASE Resolve(r) \/ Prune(r)
  BY <1>4, PrepareStay DEF Resolve, Prune, Preparing
<1>5. CASE LookForPatch(r) \/ LookForThread(r)
  BY <1>5, PrepareStay DEF LookForPatch, LookForThread, NeedsPatch, NeedsThread,
     Prepared, Preparing
<1>6. CASE AddWorktree(r)
  <2>1. [NoTree EXCEPT !.git = TRUE] \in Trees
    BY DEF NoTree, Trees, Half
  <2> QED
    BY <1>6, <2>1, PrepareFrame, PrepareStay DEF AddWorktree, NoTree, Preparing
<1>7. CASE Apply(r)
  <2>1. pc[r] = "apply" /\ Want[r].patch # None
    BY <1>7 DEF Apply, KInv, RunOK
  <2> DEFINE new == [t EXCEPT !.src = @ \cup {Want[r].patch}]
             cut == [t EXCEPT !.half = "apply"]
  <2>2. \A u \in {new, cut} : u \in Trees /\ u.key = t.key /\ u.config = t.config /\ u.image = t.image
    BY <1>1, <2>1, WTFacts DEF Trees, Half
  <2> HIDE DEF new, cut
  <2>3. CASE Goto(r, "mark") /\ UNCHANGED process
             /\ tree' = [tree EXCEPT ![WT(r)] = new]
    BY <1>7, <2>1, <2>2, <2>3, PrepareFrame DEF Apply, Preparing
  <2>4. CASE Die(r, "patch") /\ UNCHANGED tree
    BY <1>7, <2>1, <2>4, PrepareStay DEF Apply, Preparing
  <2>5. CASE Die(r, "patch") /\ tree' = [tree EXCEPT ![WT(r)] = cut]
    BY <1>7, <2>1, <2>2, <2>5, PrepareFrame DEF Apply, Preparing
  <2> QED
    BY <1>7, <2>3, <2>4, <2>5 DEF Apply, new, cut
<1>8. CASE Am(r)
  <2>1. pc[r] = "am" /\ Want[r].thread # None
    BY <1>8 DEF Am, KInv, RunOK
  <2> DEFINE new == [t EXCEPT !.src = @ \cup {Want[r].thread}]
             cut == [t EXCEPT !.half = "am"]
             back == [t EXCEPT !.half = IF t.half = "am" THEN "none" ELSE t.half]
  <2>2. \A u \in {new, cut, back} : u \in Trees /\ u.key = t.key /\ u.config = t.config /\ u.image = t.image
    BY <1>1, <2>1, WTFacts DEF Trees, Half
  <2> HIDE DEF new, cut, back
  <2>3. CASE Goto(r, "markam") /\ UNCHANGED process /\ tree' = [tree EXCEPT ![WT(r)] = new]
    BY <1>8, <2>1, <2>2, <2>3, PrepareFrame DEF Am, Preparing
  <2>4. CASE Die(r, "thread") /\ \E u \in {cut, back} : tree' = [tree EXCEPT ![WT(r)] = u]
    <3>1. PICK u \in {cut, back} : tree' = [tree EXCEPT ![WT(r)] = u]
      BY <2>4
    <3>2. pc' = [pc EXCEPT ![r] = "died"] /\ UNCHANGED <<newkey, began, booted, edition>>
      BY <1>8, <2>4 DEF Am
    <3> QED
      BY <2>1, <2>2, <3>1, <3>2, PrepareFrame DEF Preparing
  <2> QED
    BY <1>8, <2>3, <2>4 DEF Am, new, cut, back
<1>9. CASE MarkPatch(r) \/ MarkThread(r)
  <2>1. \A m \in {"patch", "thread"} : [t EXCEPT !.marks = @ \cup {m}] \in Trees
    BY <1>1 DEF Trees
  <2>2. PICK m \in {"patch", "thread"} :
          tree' = [tree EXCEPT ![WT(r)] = [t EXCEPT !.marks = @ \cup {m}]]
    BY <1>9 DEF MarkPatch, MarkThread, Mark
  <2> DEFINE new == [t EXCEPT !.marks = @ \cup {m}]
  <2>3. new \in Trees /\ new.key = t.key /\ new.config = t.config /\ new.image = t.image
    BY <1>1, <2>1 DEF Trees
  <2>4. PICK to \in {"thread", "key", "over"} : pc' = [pc EXCEPT ![r] = to]
    BY <1>9 DEF MarkPatch, MarkThread, Mark, Prepared
  <2>5. pc[r] \in Preparing /\ UNCHANGED <<newkey, began, booted, edition>>
    BY <1>9 DEF MarkPatch, MarkThread, Mark, Preparing
  <2> QED
    BY <2>2, <2>3, <2>4, <2>5, PrepareFrame DEF Preparing
<1> QED
  BY <1>2, <1>3, <1>4, <1>5, <1>6, <1>7, <1>8, <1>9 DEF Prepare

LEMMA BuildKInv ==
  ASSUME KInv, NEW r \in Runs, BuildBoot(r)
  PROVE  KInv'
<1> USE DEF process, shared, Go, Goto, Die, Forget
<1> DEFINE t == tree[WT(r)]
<1>1. t \in Trees /\ WT(r) \in Worktrees /\ RunOK(r) /\ TreeOK(WT(r)) /\ pc[r] \in Active
  BY WTFacts DEF KInv, Types, BuildBoot, CompareKey, Unlink, WriteKey, Configure, Build, Boot,
     Active, Building
<1>2. ASSUME Types', TreeOK(WT(r))', RunOK(r)', edition' = edition,
             \A q \in Runs \ {r} : /\ pc'[q] = pc[q] /\ newkey'[q] = newkey[q]
                                   /\ began'[q] = began[q] /\ booted'[q] = booted[q],
             \A w \in Worktrees \ {WT(r)} : tree'[w] = tree[w]
      PROVE  KInv'
  BY <1>1, <1>2, Frame
<1>3. CASE CompareKey(r)
  <2>1. Types'
    BY <1>3, WTFacts DEF CompareKey, KInv, Types, PC, Active, Building, Key
  <2> DEFINE k == [bundle |-> Want[r].bundle, edition |-> edition]
  <2>2. TreeOK(WT(r))'
    BY <1>1, <1>3 DEF CompareKey, TreeOK, Matches
  <2>3. k \in Key /\ k.bundle = Want[r].bundle /\ k.edition = edition /\ began[r] <= edition
    BY <1>1, WTFacts DEF KInv, Types, Key, RunOK
  <2>4. /\ newkey'[r] = k /\ UNCHANGED <<began, booted, tree, edition>>
        /\ pc'[r] \in {"configure", "unlink"}
        /\ pc'[r] = "configure" => t.key = k
    BY <1>3 DEF CompareKey, KInv, Types
  <2> HIDE DEF k
  <2>5. edition >= edition /\ edition >= began[r] /\ edition <= edition
    BY <2>3 DEF KInv, Types
  <2>6. RunOK(r)'
    BY <1>1, <2>3, <2>4, <2>5 DEF RunOK, Matches, Active, Building, Preparing
  <2> QED
    BY <1>2, <1>3, <2>1, <2>2, <2>6 DEF CompareKey, KInv, Types
<1>4. CASE Unlink(r)
  <2>1. Types'
    <3>1. [t EXCEPT !.config = None, !.image = None] \in Trees
      BY <1>1 DEF Trees
    <3>2. tree' = [tree EXCEPT ![WT(r)] = [t EXCEPT !.config = None, !.image = None]]
      BY <1>1, <1>4 DEF Unlink, KInv, Types
    <3> QED
      BY <1>1, <1>4, <3>1, <3>2 DEF Unlink, KInv, Types, PC, Active, Building
  <2>2. TreeOK(WT(r))' /\ RunOK(r)'
    BY <1>1, <1>4, <2>1 DEF Unlink, RunOK, TreeOK, Types, Active, Building, KInv, Trees
  <2> QED
    BY <1>2, <1>4, <2>1, <2>2 DEF Unlink, KInv, Types
<1>5. CASE WriteKey(r)
  <2>1. Types'
    BY <1>1, <1>5 DEF WriteKey, KInv, Types, PC, Active, Building, Trees
  <2>2. TreeOK(WT(r))' /\ RunOK(r)'
    BY <1>1, <1>5, <2>1 DEF WriteKey, RunOK, TreeOK, Types, Active, Building, KInv, Trees
  <2> QED
    BY <1>2, <1>5, <2>1, <2>2 DEF WriteKey, KInv, Types
<1>6. CASE Configure(r)
  <2>1. \A whole \in BOOLEAN : /\ Config(r, whole) \in Configs
                               /\ Config(r, whole).bundle = Want[r].bundle
                               /\ Config(r, whole).edition = edition
    BY WTFacts DEF Config, Configs, KInv, Types
  <2>2. Types'
    <3>1. \A whole \in BOOLEAN : [t EXCEPT !.config = Config(r, whole)] \in Trees
      BY <1>1, <2>1 DEF Trees
    <3>2. tree' \in [Worktrees -> Trees]
      BY <1>1, <1>6, <3>1 DEF Configure, KInv, Types
    <3>3. pc' \in [Runs -> PC] /\ UNCHANGED <<newkey, began, booted, edition>>
      BY <1>6 DEF Configure, KInv, Types, PC, Active, Building
    <3> QED
      BY <3>2, <3>3 DEF KInv, Types
  <2>3. newkey[r] \in Key /\ newkey[r].bundle = Want[r].bundle /\ newkey[r].edition <= edition
        /\ began[r] <= newkey[r].edition /\ t.key = newkey[r] /\ edition \in Nat
    BY <1>1, <1>6 DEF Configure, RunOK, Building, KInv, Types, Key
  <2>4. \A whole \in BOOLEAN : Matches(Config(r, whole), newkey[r])
    BY <2>1, <2>3 DEF Matches, Key
  <2>5. ASSUME tree' = tree PROVE TreeOK(WT(r))' /\ RunOK(r)'
    <3>1. TreeOK(WT(r))'
      BY <1>1, <2>5, <1>6 DEF Configure, TreeOK, Matches
    <3>2. pc'[r] = "build" => Matches(t.config, newkey[r])
      <4>1. ASSUME tree' = [tree EXCEPT ![WT(r)].config = Config(r, TRUE)]
            PROVE  t.config = Config(r, TRUE)
        <5>1. tree'[WT(r)] = [t EXCEPT !.config = Config(r, TRUE)]
          BY <1>1, <4>1 DEF KInv, Types
        <5> QED
          BY <1>1, <2>5, <5>1 DEF Trees
      <4>2. pc'[r] = "build" => t.config # None \/ t.config = Config(r, TRUE)
        BY <1>6, <4>1 DEF Configure, KInv, Types
      <4> QED
        BY <1>1, <2>3, <2>4, <4>2 DEF TreeOK
    <3>3. pc'[r] \in {"build", "died"} /\ UNCHANGED <<newkey, began, booted, edition>>
      BY <1>6 DEF Configure, KInv, Types
    <3> QED
      BY <1>1, <2>3, <2>5, <3>1, <3>2, <3>3 DEF RunOK, Matches, Active, Preparing, Building
  <2>6. ASSUME tree' # tree PROVE TreeOK(WT(r))' /\ RunOK(r)'
    <3>1. PICK whole \in BOOLEAN : tree' = [tree EXCEPT ![WT(r)].config = Config(r, whole)]
      BY <1>6, <2>6 DEF Configure
    <3>2. tree'[WT(r)] = [t EXCEPT !.config = Config(r, whole)]
      BY <1>1, <3>1 DEF KInv, Types
    <3>3. /\ tree'[WT(r)].key = t.key /\ tree'[WT(r)].image = t.image
          /\ tree'[WT(r)].config = Config(r, whole)
      BY <1>1, <3>2 DEF Trees
    <3>4. pc'[r] \in {"build", "died"} /\ UNCHANGED <<newkey, began, booted, edition>>
      BY <1>6 DEF Configure, KInv, Types
    <3>5. TreeOK(WT(r))'
      BY <1>1, <2>3, <2>4, <3>3 DEF TreeOK, Matches
    <3> QED
      BY <1>1, <2>3, <2>4, <3>3, <3>4, <3>5 DEF RunOK, Matches, Active, Preparing, Building
  <2>7. TreeOK(WT(r))' /\ RunOK(r)'
    BY <2>5, <2>6
  <2> QED
    BY <1>2, <1>6, <2>2, <2>7 DEF Configure, KInv, Types
<1>7. CASE Build(r)
  <2>1. [src |-> t.src, half |-> t.half, config |-> t.config] \in Images
    BY <1>1 DEF Images, Trees
  <2>2. Types'
    BY <1>1, <1>7, <2>1 DEF Build, KInv, Types, PC, Active, Building, Trees
  <2>3. newkey[r] \in Key /\ t.key = newkey[r] /\ Matches(t.config, newkey[r])
        /\ pc[r] = "build" /\ newkey[r].bundle = Want[r].bundle /\ began[r] <= newkey[r].edition
    BY <1>1, <1>7 DEF Build, RunOK, Building
  <2>4. pc'[r] \in {"boot", "died"} /\ UNCHANGED <<newkey, began, booted, edition>>
    BY <1>7 DEF Build, KInv, Types
  <2>5. ASSUME tree' = tree PROVE TreeOK(WT(r))' /\ RunOK(r)'
    <3>1. pc'[r] = "boot" => Matches(t.image.config, newkey[r])
      <4> DEFINE new == [src |-> t.src, half |-> t.half, config |-> t.config]
      <4>1. ASSUME tree' = [tree EXCEPT ![WT(r)].image = new] PROVE t.image = new
        <5>1. tree'[WT(r)] = [t EXCEPT !.image = new]
          BY <1>1, <4>1 DEF KInv, Types
        <5> QED
          BY <1>1, <2>5, <5>1 DEF Trees
      <4>2. pc'[r] = "boot" => t.image # None \/ t.image = new
        BY <1>7, <4>1 DEF Build, KInv, Types
      <4> QED
        BY <1>1, <2>3, <4>2 DEF TreeOK
    <3>2. TreeOK(WT(r))'
      BY <1>1, <2>5 DEF TreeOK, Matches
    <3> QED
      BY <1>1, <2>3, <2>4, <2>5, <3>1, <3>2
      DEF RunOK, Matches, Active, Preparing, Building
  <2>6. ASSUME tree' # tree PROVE TreeOK(WT(r))' /\ RunOK(r)'
    <3> DEFINE new == [src |-> t.src, half |-> t.half, config |-> t.config]
    <3>1. PICK i \in {None, new} : tree' = [tree EXCEPT ![WT(r)].image = i]
      BY <1>7, <2>6 DEF Build
    <3>2. tree'[WT(r)] = [t EXCEPT !.image = i]
      BY <1>1, <3>1 DEF KInv, Types
    <3>3. /\ tree'[WT(r)].key = t.key /\ tree'[WT(r)].config = t.config
          /\ tree'[WT(r)].image = i
      BY <1>1, <3>2 DEF Trees
    <3>4. TreeOK(WT(r))'
      BY <1>1, <2>3, <3>3 DEF TreeOK, Matches
    <3>5. pc'[r] = "boot" => Matches(tree'[WT(r)].image.config, newkey[r])
      <4>1. pc'[r] = "boot" => tree' = [tree EXCEPT ![WT(r)].image = new]
        BY <1>7, <2>6, <2>4 DEF Build, KInv, Types
      <4>2. tree' = [tree EXCEPT ![WT(r)].image = new] => tree'[WT(r)].image = new
        BY <1>1 DEF KInv, Types, Trees
      <4> QED
        BY <2>3, <4>1, <4>2
    <3> QED
      <4> DEFINE u == tree'[WT(r)]
      <4> HIDE DEF u, new
      <4>1. u.key = newkey[r]
        BY <2>3, <3>3 DEF u
      <4>2. pc'[r] = "boot" => Matches(u.image.config, newkey[r])
        BY <3>5 DEF u
      <4>3. RunOK(r)'
        BY <1>1, <2>3, <2>4, <4>1, <4>2 DEF RunOK, Matches, Active, Preparing, Building, u
      <4> QED
        BY <3>4, <4>3
  <2>7. TreeOK(WT(r))' /\ RunOK(r)'
    BY <2>5, <2>6
  <2> QED
    BY <1>2, <1>7, <2>2, <2>7 DEF Build, KInv, Types
<1>8. CASE Boot(r)
  <2>1. Types'
    BY <1>1, <1>8 DEF Boot, KInv, Types, PC, Active, Building, Trees
  <2>2. TreeOK(WT(r))'
    BY <1>1, <1>8 DEF Boot, TreeOK, Matches
  <2>3. /\ Matches(t.image.config, newkey[r]) /\ newkey[r] \in Key
        /\ newkey[r].bundle = Want[r].bundle /\ newkey[r].edition >= began[r]
    BY <1>1, <1>8 DEF Boot, RunOK, Building
  <2>4. t.image.config.bundle = Want[r].bundle /\ t.image.config.edition >= began[r]
    BY <2>3 DEF Matches, Configs, Key, KInv, Types
  <2>5. pc'[r] = "over" /\ booted'[r] = t.image /\ began' = began
    BY <1>8 DEF Boot, KInv, Types
  <2>6. RunOK(r)'
    <3>1. booted'[r].config.bundle = Want[r].bundle /\ booted'[r].config.edition >= began'[r]
      BY <2>4, <2>5
    <3>2. pc'[r] \notin Active \cup {"idle"}
      BY <2>5 DEF Active, Preparing, Building
    <3> QED
      BY <3>1, <3>2 DEF RunOK, Active, Preparing, Building
  <2> QED
    BY <1>2, <1>8, <2>1, <2>2, <2>6 DEF Boot, KInv, Types
<1> QED
  BY <1>3, <1>4, <1>5, <1>6, <1>7, <1>8 DEF BuildBoot

LEMMA StepKInv == KInv /\ [Next]_vars => KInv'
<1> SUFFICES ASSUME KInv, [Next]_vars PROVE KInv'
  OBVIOUS
<1>1. CASE UNCHANGED vars
  BY <1>1 DEF vars, process, KInv, Types, Alone, TreeOK, RunOK, Matches
<1>2. ASSUME NEW r \in Runs, Begin(r) PROVE KInv'
  <2>1. Types'
    BY <1>2 DEF Begin, Goto, KInv, Types, PC, Active, Preparing
  <2>2. Alone'
    BY <1>2 DEF Begin, Goto, KInv, Types, Alone
  <2>3. \A w \in Worktrees : TreeOK(w)'
    BY <1>2 DEF Begin, KInv, TreeOK, Matches
  <2>4. ASSUME NEW q \in Runs PROVE RunOK(q)'
    <3>1. RunOK(q) /\ pc[r] = "idle" /\ edition \in Nat
      BY <1>2 DEF KInv, Types, Begin
    <3>2. UNCHANGED <<newkey, booted, tree, edition>>
      BY <1>2 DEF Begin
    <3>3. CASE q # r
      <4>1. pc'[q] = pc[q] /\ began'[q] = began[q]
        BY <1>2, <3>3 DEF Begin, Goto, KInv, Types
      <4> QED
        BY <3>1, <3>2, <4>1 DEF RunOK, Matches
    <3>4. CASE q = r
      <4>1. pc'[q] \in {"remotes", "resolve"} /\ began'[q] = edition
        BY <1>2, <3>4 DEF Begin, Goto, KInv, Types
      <4> QED
        BY <3>1, <3>2, <3>4, <4>1 DEF RunOK, Matches, Active, Preparing, Building
    <3> QED
      BY <3>3, <3>4
  <2> QED
    BY <2>1, <2>2, <2>3, <2>4 DEF KInv
<1>3. ASSUME NEW r \in Runs, Interrupt(r) PROVE KInv'
  <2>1. Types' /\ Alone'
    BY <1>3 DEF Interrupt, Die, Goto, KInv, Types, Alone, PC, Active, Building, Preparing
  <2>2. \A w \in Worktrees : TreeOK(w)'
    BY <1>3 DEF Interrupt, KInv, TreeOK, Matches
  <2>3. ASSUME NEW q \in Runs PROVE RunOK(q)'
    BY <1>3 DEF Interrupt, Die, Goto, KInv, Types, RunOK, Matches, Active, Preparing, Building
  <2> QED
    BY <2>1, <2>2, <2>3 DEF KInv
<1>4. ASSUME NEW w \in Worktrees, Clear(w) PROVE KInv'
  <2>1. NoTree \in Trees
    BY DEF NoTree, Trees, Half
  <2>2. Types' /\ Alone'
    BY <1>4, <2>1 DEF Clear, process, KInv, Types, Alone
  <2>3. ASSUME NEW v \in Worktrees PROVE TreeOK(v)'
    BY <1>4 DEF Clear, NoTree, KInv, Types, TreeOK, Matches
  <2>4. ASSUME NEW q \in Runs PROVE RunOK(q)'
    <3>1. WT(q) \in Worktrees /\ (WT(q) = w => Want[q].root = w[1])
      BY WTFacts
    <3>2. pc[q] \in Active => tree'[WT(q)] = tree[WT(q)]
      BY <1>4, <3>1 DEF Clear, KInv, Types
    <3> QED
      BY <1>4, <3>2 DEF Clear, process, KInv, RunOK, Matches, Active, Building
  <2> QED
    BY <2>2, <2>3, <2>4 DEF KInv
<1>5. CASE ServerPrunes
  BY <1>5 DEF ServerPrunes, process, KInv, Types, Alone, TreeOK, RunOK, Matches
<1>6. CASE Edit
  <2>1. Types' /\ Alone'
    BY <1>6 DEF Edit, process, KInv, Types, Alone
  <2>2. \A w \in Worktrees : TreeOK(w)'
    BY <1>6 DEF Edit, KInv, TreeOK, Matches
  <2>3. ASSUME NEW q \in Runs PROVE RunOK(q)'
    <3>1. RunOK(q) /\ newkey[q] \in Key \cup {None} /\ began[q] \in Nat /\ edition \in Nat
      BY DEF KInv, Types
    <3>2. edition' = edition + 1 /\ UNCHANGED <<pc, newkey, began, booted, tree>>
      BY <1>6 DEF Edit, process
    <3>3. began[q] <= edition => began[q] <= edition'
      BY <3>1, <3>2
    <3> QED
      BY <3>1, <3>2, <3>3, TreeAssumption DEF RunOK, Matches, Key, Active, Building
  <2> QED
    BY <2>1, <2>2, <2>3 DEF KInv
<1> QED
  BY <1>1, <1>2, <1>3, <1>4, <1>5, <1>6, PrepareKInv, BuildKInv DEF Next

\* A run boots a kernel configured for its own bundle by scripts and fragments no
\* older than the run (invalidate_stale_outputs and the gates after it).
THEOREM NoStaleBuildHolds == Spec => []NoStaleBuild
<1>1. Spec => []KInv
  BY InitKInv, StepKInv, PTL DEF Spec
<1>2. KInv => NoStaleBuild
  BY DEF KInv, RunOK, NoStaleBuild
<1> QED
  BY <1>1, <1>2, PTL

------------------------------------------------------------------------------
(* The sources of a worktree that serves one request.                      *)

PatchDone(r, t) == Want[r].patch = None \/ "patch" \in t.marks
ThreadDone(r, t) == Want[r].thread = None \/ "thread" \in t.marks

\* A marker is only there when its change is; what was cut short is not marked;
\* an image was made of all the changes.
SourceOK(r, t) ==
  /\ t.src \subseteq Changes(r)
  /\ "patch" \in t.marks => Want[r].patch \in t.src
  /\ "thread" \in t.marks => Want[r].thread \in t.src
  /\ t.half = "apply" => Want[r].patch # None /\ "patch" \notin t.marks
  /\ t.half = "am" => PatchDone(r, t) /\ Want[r].thread # None /\ "thread" \notin t.marks
  /\ t.image # None => t.image.src = Changes(r) /\ t.image.half = "none"

\* How far a run is with the sources, and what it booted.
SourceAt(r, t) ==
  /\ pc[r] = "apply" => ~PatchDone(r, t)
  /\ pc[r] = "mark" => Want[r].patch \in t.src /\ t.half = "none"
  /\ pc[r] \in {"thread", "am", "markam"} \cup Building => PatchDone(r, t)
  /\ pc[r] = "am" => ~ThreadDone(r, t)
  /\ pc[r] = "markam" => Want[r].thread \in t.src /\ t.half = "none"
  /\ pc[r] \in Building => ThreadDone(r, t)
  /\ booted[r] # None => booted[r].src = Changes(r) /\ booted[r].half = "none"

SourceInv ==
  /\ \A r \in Runs : pc[r] \in Building => Want[r].builds
  /\ \A r \in Runs : SameRequest(r) =>
       SourceOK(r, tree[WT(r)]) /\ SourceAt(r, tree[WT(r)])

\* With both markers, or nothing to apply, the sources are what was asked for.
LEMMA SourceWhole ==
  ASSUME NEW r \in Runs, NEW t \in Trees, SourceOK(r, t), PatchDone(r, t), ThreadDone(r, t)
  PROVE  t.src = Changes(r) /\ t.half = "none"
  BY DEF SourceOK, PatchDone, ThreadDone, Changes, Trees, Half

\* A tree as `git worktree add` makes it, or none, is right for every request.
LEMMA FreshTree ==
  /\ NoTree \in Trees /\ [NoTree EXCEPT !.git = TRUE] \in Trees
  /\ \A r \in Runs : /\ SourceOK(r, NoTree)
                      /\ SourceOK(r, [NoTree EXCEPT !.git = TRUE])
  BY DEF NoTree, Trees, Half, SourceOK

\* A step of an active run: what it does to its worktree is right for the others
\* that use it, since they ask for the same or it only looks.
LEMMA SourceFrame ==
  ASSUME KInv, SourceInv, NEW q \in Runs, pc[q] \in Active,
         \A r \in Runs \ {q} : pc'[r] = pc[r] /\ booted'[r] = booted[r],
         \A w \in Worktrees \ {WT(q)} : tree'[w] = tree[w],
         pc'[q] \in Building => Want[q].builds,
         SameRequest(q) => SourceOK(q, tree'[WT(q)]) /\ SourceAt(q, tree[WT(q)])',
         Changes(q) = {} /\ ~Want[q].builds =>
           tree'[WT(q)] \in {tree[WT(q)], [NoTree EXCEPT !.git = TRUE]}
  PROVE  SourceInv'
<1>1. ASSUME NEW r \in Runs PROVE pc'[r] \in Building => Want[r].builds
  BY DEF SourceInv
<1>2. ASSUME NEW r \in Runs, SameRequest(r), r # q
      PROVE  SourceOK(r, tree'[WT(r)]) /\ SourceAt(r, tree[WT(r)])'
  <2>1. /\ pc'[r] = pc[r] /\ booted'[r] = booted[r] /\ WT(r) \in Worktrees
        /\ SourceOK(r, tree[WT(r)]) /\ SourceAt(r, tree[WT(r)])
    BY <1>2, WTFacts DEF SourceInv
  <2>2. CASE WT(r) # WT(q)
    <3>1. tree'[WT(r)] = tree[WT(r)]
      BY <2>1, <2>2
    <3> QED BY <2>1, <3>1 DEF SourceAt
  <2>3. CASE WT(r) = WT(q)
    <3>1. pc[r] \notin Active
      BY <1>2, <2>3, WTFacts DEF KInv, Alone
    <3>2. SourceAt(r, tree[WT(r)])'
      BY <2>1, <3>1 DEF SourceAt, Active, Preparing
    <3>3. CASE Want[q].patch = Want[r].patch /\ Want[q].thread = Want[r].thread
      <4>1. SameRequest(q)
        BY <1>2, <2>3, <3>3 DEF SameRequest
      <4>2. Changes(q) = Changes(r)
        BY <3>3 DEF Changes
      <4>3. SourceOK(q, tree'[WT(q)])
        BY <4>1
      <4>4. SourceOK(r, tree'[WT(q)])
        BY <3>3, <4>2, <4>3 DEF SourceOK, PatchDone
      <4> QED BY <2>3, <3>2, <4>4
    <3>4. CASE Changes(q) = {} /\ ~Want[q].builds
      <4>1. SourceOK(r, tree'[WT(q)])
        BY <2>1, <2>3, <3>4, FreshTree
      <4> QED BY <2>3, <3>2, <4>1
    <3> QED BY <1>2, <2>3, <3>3, <3>4 DEF SameRequest
  <2> QED BY <2>2, <2>3
<1>3. ASSUME NEW r \in Runs, SameRequest(r)
      PROVE  (SourceOK(r, tree[WT(r)]) /\ SourceAt(r, tree[WT(r)]))'
  BY <1>2, <1>3
<1> QED BY <1>1, <1>3 DEF SourceInv, SameRequest

\* The same for a step that leaves the worktree alone.
LEMMA SourceStay ==
  ASSUME KInv, SourceInv, NEW q \in Runs, pc[q] \in Active, NEW to \in PC,
         pc' = [pc EXCEPT ![q] = to], UNCHANGED <<booted, tree>>,
         to \in Building => Want[q].builds,
         SameRequest(q) => SourceAt(q, tree[WT(q)])'
  PROVE  SourceInv'
<1>1. \A r \in Runs \ {q} : pc'[r] = pc[r] /\ booted'[r] = booted[r]
  BY DEF KInv, Types
<1>2. pc'[q] = to
  BY DEF KInv, Types
<1>3. SameRequest(q) => SourceOK(q, tree'[WT(q)])
  BY DEF SourceInv
<1> QED BY <1>1, <1>2, <1>3, SourceFrame

\* The run changes its worktree from t to u.
LEMMA SourceMove ==
  ASSUME KInv, SourceInv, NEW q \in Runs, pc[q] \in Active, NEW to \in PC, NEW u,
         pc' = [pc EXCEPT ![q] = to], UNCHANGED booted,
         tree' = [tree EXCEPT ![WT(q)] = u],
         to \in Building => Want[q].builds,
         Changes(q) = {} /\ ~Want[q].builds => u = [NoTree EXCEPT !.git = TRUE],
         SameRequest(q) => SourceOK(q, u) /\ SourceAt(q, tree[WT(q)])'
  PROVE  SourceInv' /\ tree'[WT(q)] = u
<1>1. /\ \A r \in Runs \ {q} : pc'[r] = pc[r] /\ booted'[r] = booted[r]
      /\ \A w \in Worktrees \ {WT(q)} : tree'[w] = tree[w]
  BY DEF KInv, Types
<1>2. pc'[q] = to /\ tree'[WT(q)] = u
  BY WTFacts DEF KInv, Types
<1> QED BY <1>1, <1>2, SourceFrame

\* Fetching, resolving and looking are followed by steps that say nothing of the
\* sources, except where the marker was looked for.
LEMMA PrepareSource ==
  ASSUME KInv, SourceInv, NEW q \in Runs, Prepare(q)
  PROVE  SourceInv'
<1> USE DEF process, shared, Go, Goto, Die, Forget
<1> DEFINE t == tree[WT(q)]
<1>1. /\ t \in Trees /\ RunOK(q) /\ pc \in [Runs -> PC] /\ pc[q] \in Preparing
      /\ pc[q] \in Active
  BY WTFacts DEF KInv, Types, Prepare, ListRemotes, AddRemote, FetchBegins, FetchSucceeds,
     FetchFails, Resolve, Prune, AddWorktree, LookForPatch, Apply, MarkPatch, LookForThread,
     Am, MarkThread, Mark, Active, Preparing
<1>2. SameRequest(q) => SourceOK(q, t) /\ SourceAt(q, t)
  BY DEF SourceInv
<1>3. ASSUME NEW to \in PC \ (Building \cup {"apply", "mark", "thread", "am", "markam"}),
             pc' = [pc EXCEPT ![q] = to], UNCHANGED <<booted, tree>>
      PROVE  SourceInv'
  <2>1. SameRequest(q) => SourceAt(q, tree[WT(q)])'
    BY <1>1, <1>2, <1>3 DEF SourceAt
  <2> QED BY <1>1, <1>3, <2>1, SourceStay
<1>4. CASE ListRemotes(q) \/ AddRemote(q) \/ FetchBegins(q) \/ FetchSucceeds(q) \/ FetchFails(q)
  BY <1>3, <1>4 DEF ListRemotes, AddRemote, AfterRemote, FetchBegins, FetchSucceeds,
     FetchFails, PC, Active, Preparing, Building
<1>5. CASE Resolve(q) \/ Prune(q)
  BY <1>3, <1>5 DEF Resolve, Prune, PC, Active, Preparing, Building
<1>6. CASE AddWorktree(q)
  <2> DEFINE fresh == [NoTree EXCEPT !.git = TRUE]
  <2>1. CASE tree' = [tree EXCEPT ![WT(q)] = fresh] /\ Go(q, "worktree", "patch")
    <3>1. SameRequest(q) => SourceAt(q, tree[WT(q)])'
      BY <1>1, <1>2, <2>1 DEF SourceAt, Building
    <3>2. "patch" \in PC /\ "patch" \notin Building
      BY DEF PC, Active, Preparing, Building
    <3> QED BY <1>1, <2>1, <3>1, <3>2, FreshTree, SourceMove
  <2>2. CASE UNCHANGED tree
    BY <1>3, <1>6, <2>2 DEF AddWorktree, PC, Active, Preparing, Building
  <2> QED BY <1>6, <2>1, <2>2 DEF AddWorktree
<1>7. CASE LookForPatch(q)
  <2>1. PICK to \in {"apply", "thread"} :
          /\ pc' = [pc EXCEPT ![q] = to]
          /\ to = "apply" <=> ~PatchDone(q, t)
    BY <1>7 DEF LookForPatch, NeedsPatch, PatchDone
  <2>2. UNCHANGED <<booted, tree>> /\ to \in PC /\ to \notin Building
    BY <1>7 DEF LookForPatch, PC, Active, Preparing, Building
  <2>3. SameRequest(q) => SourceAt(q, tree[WT(q)])'
    <3>1. pc'[q] = to /\ (SameRequest(q) => SourceAt(q, t))
      BY <1>1, <1>2, <2>1
    <3> QED BY <2>1, <2>2, <3>1 DEF SourceAt, PatchDone
  <2> QED BY <1>1, <2>1, <2>2, <2>3, SourceStay
<1>8. CASE LookForThread(q)
  <2>1. PICK to \in {"am", "key", "over"} :
          /\ pc' = [pc EXCEPT ![q] = to]
          /\ to = "am" <=> ~ThreadDone(q, t)
          /\ to = "key" => Want[q].builds
    BY <1>8 DEF LookForThread, NeedsThread, ThreadDone, Prepared
  <2>2. /\ UNCHANGED <<booted, tree>> /\ pc[q] = "thread" /\ to \in PC
        /\ to \in Building => to = "key"
    BY <1>8 DEF LookForThread, PC, Active, Preparing, Building
  <2>3. SameRequest(q) => SourceAt(q, tree[WT(q)])'
    BY <1>1, <1>2, <2>1, <2>2 DEF SourceAt, PatchDone, ThreadDone
  <2> QED BY <1>1, <2>1, <2>2, <2>3, SourceStay
<1>9. CASE Apply(q)
  <2> DEFINE new == [t EXCEPT !.src = @ \cup {Want[q].patch}]
             cut == [t EXCEPT !.half = "apply"]
  <2>1. pc[q] = "apply" /\ Want[q].patch \in Changes(q)
    BY <1>1, <1>9 DEF Apply, RunOK, Changes
  <2>2. SameRequest(q) => ~PatchDone(q, t) /\ t.half # "am"
    BY <1>2, <2>1 DEF SourceAt, SourceOK, PatchDone
  <2>3. /\ new.src = t.src \cup {Want[q].patch} /\ new.half = t.half
        /\ new.marks = t.marks /\ new.image = t.image
        /\ cut.src = t.src /\ cut.half = "apply" /\ cut.marks = t.marks /\ cut.image = t.image
    BY <1>1 DEF Trees
  <2>4. {"mark", "died"} \subseteq PC /\ {"mark", "died"} \cap Building = {}
    BY DEF PC, Active, Preparing, Building
  <2> HIDE DEF new, cut, t
  <2>5. CASE Go(q, "apply", "mark") /\ t.half # "apply" /\ tree' = [tree EXCEPT ![WT(q)] = new]
    <3>1. tree'[WT(q)] = new /\ pc'[q] = "mark" /\ UNCHANGED booted
      BY <1>1, <2>5, WTFacts DEF KInv, Types
    <3>2. SameRequest(q) => t.half = "none"
      BY <1>1, <2>2, <2>5 DEF Trees, Half
    <3>3. SameRequest(q) => SourceOK(q, new)
      BY <1>2, <2>1, <2>2, <2>3, <3>2 DEF SourceOK, PatchDone
    <3>4. SameRequest(q) => SourceAt(q, tree[WT(q)])'
      BY <1>2, <2>3, <2>4, <3>1, <3>2 DEF SourceAt
    <3> QED BY <1>1, <2>1, <2>4, <2>5, <3>3, <3>4, SourceMove
  <2>6. CASE Die(q, "patch") /\ UNCHANGED tree
    BY <1>3, <2>4, <2>6
  <2>7. CASE Die(q, "patch") /\ tree' = [tree EXCEPT ![WT(q)] = cut]
    <3>1. tree'[WT(q)] = cut /\ pc'[q] = "died" /\ UNCHANGED booted
      BY <1>1, <2>7, WTFacts DEF KInv, Types
    <3>2. SameRequest(q) => SourceOK(q, cut)
      BY <1>2, <2>2, <2>3 DEF SourceOK, PatchDone
    <3>3. SameRequest(q) => SourceAt(q, tree[WT(q)])'
      BY <1>2, <2>4, <3>1 DEF SourceAt
    <3> QED BY <1>1, <2>1, <2>4, <2>7, <3>2, <3>3, SourceMove
  <2> QED BY <1>9, <2>5, <2>6, <2>7 DEF Apply, new, cut, t
<1>10. CASE Am(q)
  <2> DEFINE new == [t EXCEPT !.src = @ \cup {Want[q].thread}]
             cut == [t EXCEPT !.half = "am"]
             back == [t EXCEPT !.half = IF @ = "am" THEN "none" ELSE @]
  <2>1. pc[q] = "am" /\ Want[q].thread \in Changes(q) /\ Want[q].thread # None
    BY <1>1, <1>10 DEF Am, RunOK, Changes
  <2>2. SameRequest(q) => PatchDone(q, t) /\ ~ThreadDone(q, t) /\ t.half # "apply"
    BY <1>2, <2>1 DEF SourceAt, SourceOK, PatchDone
  <2>3. /\ new.src = t.src \cup {Want[q].thread} /\ new.half = t.half
        /\ new.marks = t.marks /\ new.image = t.image
        /\ cut.src = t.src /\ cut.half = "am" /\ cut.marks = t.marks /\ cut.image = t.image
        /\ back.src = t.src /\ back.half \in {"none", t.half} \ {"am"}
        /\ back.marks = t.marks /\ back.image = t.image
    BY <1>1 DEF Trees
  <2>4. {"markam", "died"} \subseteq PC /\ {"markam", "died"} \cap Building = {}
    BY DEF PC, Active, Preparing, Building
  <2> HIDE DEF new, cut, back, t
  <2>5. CASE Go(q, "am", "markam") /\ t.half # "am" /\ tree' = [tree EXCEPT ![WT(q)] = new]
    <3>1. tree'[WT(q)] = new /\ pc'[q] = "markam" /\ UNCHANGED booted
      BY <1>1, <2>5, WTFacts DEF KInv, Types
    <3>2. SameRequest(q) => t.half = "none"
      BY <1>1, <2>2, <2>5 DEF Trees, Half
    <3>3. SameRequest(q) => SourceOK(q, new)
      BY <1>2, <2>1, <2>2, <2>3, <3>2 DEF SourceOK, ThreadDone
    <3>4. SameRequest(q) => SourceAt(q, tree[WT(q)])'
      BY <1>2, <2>2, <2>3, <2>4, <3>1, <3>2 DEF SourceAt, PatchDone
    <3> QED BY <1>1, <2>1, <2>4, <2>5, <3>3, <3>4, SourceMove
  <2>6. CASE Die(q, "thread") /\ \E u \in {cut, back} : tree' = [tree EXCEPT ![WT(q)] = u]
    <3>1. PICK u \in {cut, back} : tree' = [tree EXCEPT ![WT(q)] = u]
      BY <2>6
    <3>2. tree'[WT(q)] = u /\ pc'[q] = "died" /\ UNCHANGED booted
      BY <1>1, <2>6, <3>1, WTFacts DEF KInv, Types
    <3>3. SameRequest(q) => SourceOK(q, u)
      BY <1>2, <2>1, <2>2, <2>3 DEF SourceOK, PatchDone, ThreadDone
    <3>4. SameRequest(q) => SourceAt(q, tree[WT(q)])'
      BY <1>2, <2>4, <3>2 DEF SourceAt
    <3> QED BY <1>1, <2>1, <2>4, <2>6, <3>1, <3>3, <3>4, SourceMove
  <2> QED BY <1>10, <2>5, <2>6 DEF Am, new, cut, back, t
<1>11. CASE MarkPatch(q)
  <2> DEFINE new == [t EXCEPT !.marks = @ \cup {"patch"}]
  <2>1. /\ new.src = t.src /\ new.half = t.half /\ new.image = t.image
        /\ new.marks = t.marks \cup {"patch"}
    BY <1>1 DEF Trees
  <2>2. pc[q] = "mark" /\ Want[q].patch \in Changes(q)
    BY <1>1, <1>11 DEF MarkPatch, Mark, RunOK, Changes
  <2>3. "thread" \in PC /\ "thread" \notin Building
    BY DEF PC, Active, Preparing, Building
  <2>4. pc' = [pc EXCEPT ![q] = "thread"] /\ UNCHANGED booted
        /\ tree' = [tree EXCEPT ![WT(q)] = new]
    BY <1>11 DEF MarkPatch, Mark
  <2> HIDE DEF new, t
  <2>5. tree'[WT(q)] = new /\ pc'[q] = "thread"
    BY <1>1, <2>4, WTFacts DEF KInv, Types
  <2>6. SameRequest(q) => SourceOK(q, new)
    BY <1>2, <2>1, <2>2 DEF SourceOK, SourceAt
  <2>7. SameRequest(q) => SourceAt(q, tree[WT(q)])'
    BY <1>2, <2>1, <2>3, <2>4, <2>5 DEF SourceAt, PatchDone
  <2> QED BY <1>1, <2>2, <2>3, <2>4, <2>6, <2>7, SourceMove
<1>12. CASE MarkThread(q)
  <2> DEFINE new == [t EXCEPT !.marks = @ \cup {"thread"}]
  <2>1. /\ new.src = t.src /\ new.half = t.half /\ new.image = t.image
        /\ new.marks = t.marks \cup {"thread"}
    BY <1>1 DEF Trees
  <2>2. pc[q] = "markam" /\ Want[q].thread \in Changes(q)
    BY <1>1, <1>12 DEF MarkThread, Mark, RunOK, Changes
  <2>3. PICK to \in {"key", "over"} : /\ pc' = [pc EXCEPT ![q] = to]
                                      /\ to = "key" => Want[q].builds
    BY <1>12 DEF MarkThread, Mark, Prepared
  <2>4. to \in PC /\ (to \in Building => to = "key") /\ UNCHANGED booted
        /\ tree' = [tree EXCEPT ![WT(q)] = new]
    BY <1>12 DEF MarkThread, Mark, PC, Active, Preparing, Building
  <2> HIDE DEF new, t
  <2>5. tree'[WT(q)] = new /\ pc'[q] = to
    BY <1>1, <2>3, <2>4, WTFacts DEF KInv, Types
  <2>6. SameRequest(q) => SourceOK(q, new)
    BY <1>2, <2>1, <2>2 DEF SourceOK, SourceAt
  <2>7. SameRequest(q) => SourceAt(q, tree[WT(q)])'
    BY <1>2, <2>1, <2>2, <2>3, <2>4, <2>5 DEF SourceAt, PatchDone, ThreadDone
  <2> QED BY <1>1, <2>2, <2>3, <2>4, <2>6, <2>7, SourceMove
<1> QED BY <1>4, <1>5, <1>6, <1>7, <1>8, <1>9, <1>10, <1>11, <1>12 DEF Prepare


\* Configuring and building leave the sources alone; an image is made of all the
\* changes, because only a run that found them applied builds.
LEMMA BuildSource ==
  ASSUME KInv, SourceInv, NEW q \in Runs, BuildBoot(q)
  PROVE  SourceInv'
<1> USE DEF process, shared, Go, Goto, Die, Forget
<1> DEFINE t == tree[WT(q)]
<1>1. /\ t \in Trees /\ WT(q) \in Worktrees /\ tree \in [Worktrees -> Trees]
      /\ pc \in [Runs -> PC] /\ pc[q] \in Building /\ pc[q] \in Active
      /\ booted \in [Runs -> Images \cup {None}]
  BY WTFacts DEF KInv, Types, BuildBoot, CompareKey, Unlink, WriteKey, Configure, Build, Boot,
     Active, Building
<1>2. Want[q].builds
  BY <1>1 DEF SourceInv
<1>3. SameRequest(q) => /\ SourceOK(q, t) /\ PatchDone(q, t) /\ ThreadDone(q, t)
                        /\ booted[q] # None =>
                             booted[q].src = Changes(q) /\ booted[q].half = "none"
  BY <1>1 DEF SourceInv, SourceAt
<1>4. SameRequest(q) => t.src = Changes(q) /\ t.half = "none"
  BY <1>1, <1>3, SourceWhole
<1>5. ASSUME NEW to \in (Building \ {"key"}) \cup {"died"}, pc' = [pc EXCEPT ![q] = to],
             UNCHANGED booted,
             NEW u, tree' = [tree EXCEPT ![WT(q)] = u],
             u.src = t.src, u.half = t.half, u.marks = t.marks,
             u.image # None => u.image = t.image \/ (u.image.src = t.src /\ u.image.half = t.half)
      PROVE  SourceInv'
  <2>1. to \in PC /\ to \notin {"apply", "mark", "am", "markam"}
    BY DEF PC, Active, Building
  <2>2. tree'[WT(q)] = u /\ pc'[q] = to
    BY <1>1, <1>5
  <2> HIDE DEF t
  <2>3. SameRequest(q) => SourceOK(q, u)
    BY <1>3, <1>4, <1>5 DEF SourceOK, PatchDone
  <2>4. SameRequest(q) => SourceAt(q, tree[WT(q)])'
    BY <1>3, <1>5, <2>1, <2>2 DEF SourceAt, PatchDone, ThreadDone
  <2> QED BY <1>1, <1>2, <1>5, <2>1, <2>3, <2>4, SourceMove
<1>6. ASSUME NEW to \in (Building \ {"key"}) \cup {"died"}, pc' = [pc EXCEPT ![q] = to],
             UNCHANGED <<booted, tree>>
      PROVE  SourceInv'
  <2>1. tree' = [tree EXCEPT ![WT(q)] = t]
    BY <1>1, <1>6
  <2> QED BY <1>5, <1>6, <2>1
<1>7. {"unlink", "writekey", "configure", "build", "boot"} \subseteq Building \ {"key"}
  BY DEF Building
<1>8. CASE CompareKey(q)
  BY <1>6, <1>7, <1>8 DEF CompareKey
<1>9. CASE Unlink(q)
  <2> DEFINE u == [t EXCEPT !.config = None, !.image = None]
  <2>1. u.src = t.src /\ u.half = t.half /\ u.marks = t.marks /\ u.image = None
    BY <1>1 DEF Trees
  <2>2. tree' = [tree EXCEPT ![WT(q)] = u]
    BY <1>1, <1>9 DEF Unlink
  <2> HIDE DEF u, t
  <2> QED BY <1>5, <1>7, <1>9, <2>1, <2>2 DEF Unlink
<1>10. CASE WriteKey(q)
  <2> DEFINE u == [t EXCEPT !.key = newkey[q]]
  <2>1. u.src = t.src /\ u.half = t.half /\ u.marks = t.marks /\ u.image = t.image
    BY <1>1 DEF Trees
  <2>2. tree' = [tree EXCEPT ![WT(q)] = u]
    BY <1>1, <1>10 DEF WriteKey
  <2> HIDE DEF u, t
  <2> QED BY <1>5, <1>7, <1>10, <2>1, <2>2 DEF WriteKey
<1>11. CASE Configure(q)
  <2>1. PICK to \in {"build", "died"} : pc' = [pc EXCEPT ![q] = to]
    BY <1>11 DEF Configure
  <2>2. UNCHANGED booted
    BY <1>11 DEF Configure
  <2>3. CASE UNCHANGED tree
    BY <1>6, <1>7, <2>1, <2>2, <2>3
  <2>4. CASE \E whole \in BOOLEAN : tree' = [tree EXCEPT ![WT(q)].config = Config(q, whole)]
    <3>1. PICK whole \in BOOLEAN : tree' = [tree EXCEPT ![WT(q)].config = Config(q, whole)]
      BY <2>4
    <3> DEFINE u == [t EXCEPT !.config = Config(q, whole)]
    <3>2. u.src = t.src /\ u.half = t.half /\ u.marks = t.marks /\ u.image = t.image
      BY <1>1 DEF Trees
    <3>3. tree' = [tree EXCEPT ![WT(q)] = u]
      BY <1>1, <3>1
    <3> HIDE DEF u, t
    <3> QED BY <1>5, <1>7, <2>1, <2>2, <3>2, <3>3
  <2> QED BY <1>11, <2>3, <2>4 DEF Configure
<1>12. CASE Build(q)
  <2>1. PICK to \in {"boot", "died"} : pc' = [pc EXCEPT ![q] = to]
    BY <1>12 DEF Build
  <2>2. UNCHANGED booted
    BY <1>12 DEF Build
  <2>3. CASE UNCHANGED tree
    BY <1>6, <1>7, <2>1, <2>2, <2>3
  <2> DEFINE made == [src |-> t.src, half |-> t.half, config |-> t.config]
  <2>4. CASE \E i \in {None, made} : tree' = [tree EXCEPT ![WT(q)].image = i]
    <3>1. PICK i \in {None, made} : tree' = [tree EXCEPT ![WT(q)].image = i]
      BY <2>4
    <3> DEFINE u == [t EXCEPT !.image = i]
    <3>2. u.src = t.src /\ u.half = t.half /\ u.marks = t.marks /\ u.image = i
      BY <1>1 DEF Trees
    <3>3. tree' = [tree EXCEPT ![WT(q)] = u]
      BY <1>1, <3>1
    <3>4. i # None => i.src = t.src /\ i.half = t.half
      OBVIOUS
    <3> HIDE DEF u, t, made
    <3> QED BY <1>5, <1>7, <2>1, <2>2, <3>2, <3>3, <3>4
  <2> QED BY <1>12, <2>3, <2>4 DEF Build
<1>13. CASE Boot(q)
  <2>1. /\ pc' = [pc EXCEPT ![q] = "over"] /\ booted' = [booted EXCEPT ![q] = t.image]
        /\ UNCHANGED tree
    BY <1>13 DEF Boot
  <2>2. pc'[q] = "over" /\ booted'[q] = t.image /\ tree'[WT(q)] = t
    BY <1>1, <2>1
  <2>3. SameRequest(q) => SourceOK(q, tree'[WT(q)])
    BY <1>3, <2>2
  <2>4. SameRequest(q) => SourceAt(q, tree[WT(q)])'
    BY <1>3, <2>2 DEF SourceAt, SourceOK, Building
  <2>5. \A r \in Runs \ {q} : pc'[r] = pc[r] /\ booted'[r] = booted[r]
    BY <1>1, <2>1
  <2> HIDE DEF t
  <2> QED BY <1>1, <1>2, <2>1, <2>3, <2>4, <2>5, SourceFrame
<1> QED BY <1>8, <1>9, <1>10, <1>11, <1>12, <1>13 DEF BuildBoot

\* A step of a run that is not at work, or of the world beside the runs.
LEMMA BesideSource ==
  ASSUME KInv, SourceInv,
         \/ \E r \in Runs : Begin(r) \/ Interrupt(r)
         \/ \E w \in Worktrees : Clear(w)
         \/ ServerPrunes \/ Edit \/ UNCHANGED vars
  PROVE  SourceInv'
<1> USE DEF process, shared, Goto, Die, Forget
<1>1. ASSUME NEW q \in Runs, Begin(q) \/ Interrupt(q)
      PROVE  SourceInv'
  <2>1. PICK to \in {"remotes", "resolve", "died"} : pc' = [pc EXCEPT ![q] = to]
    BY <1>1 DEF Begin, Interrupt
  <2>2. UNCHANGED <<booted, tree>>
    BY <1>1 DEF Begin, Interrupt
  <2>3. /\ pc'[q] = to /\ \A r \in Runs \ {q} : pc'[r] = pc[r]
        /\ to \notin {"apply", "mark", "thread", "am", "markam"} \cup Building
    BY <2>1 DEF KInv, Types, Building
  <2>4. ASSUME NEW r \in Runs
        PROVE  /\ pc'[r] \in Building => Want[r].builds
               /\ SameRequest(r) => SourceOK(r, tree'[WT(r)]) /\ SourceAt(r, tree[WT(r)])'
    BY <2>2, <2>3 DEF SourceInv, SourceAt
  <2> QED BY <2>4 DEF SourceInv, SameRequest
<1>2. ASSUME NEW w \in Worktrees, Clear(w)
      PROVE  SourceInv'
  <2>1. UNCHANGED <<pc, booted>> /\ tree' = [tree EXCEPT ![w] = NoTree]
    BY <1>2 DEF Clear
  <2>2. ASSUME NEW r \in Runs, SameRequest(r)
        PROVE  SourceOK(r, tree'[WT(r)]) /\ SourceAt(r, tree[WT(r)])'
    <3>1. SourceOK(r, tree[WT(r)]) /\ SourceAt(r, tree[WT(r)]) /\ WT(r) \in Worktrees
      BY <2>2, WTFacts DEF SourceInv
    <3>2. CASE WT(r) # w
      <4>1. tree'[WT(r)] = tree[WT(r)]
        BY <2>1, <3>1, <3>2 DEF KInv, Types
      <4> QED BY <2>1, <3>1, <4>1 DEF SourceAt
    <3>3. CASE WT(r) = w
      <4>1. tree'[WT(r)] = NoTree
        BY <2>1, <3>1, <3>3 DEF KInv, Types
      <4>2. pc[r] \notin Active
        BY <1>2, <3>3, WTFacts DEF Clear
      <4> QED BY <2>1, <3>1, <4>1, <4>2, FreshTree DEF SourceAt, Active, Preparing
    <3> QED BY <3>2, <3>3
  <2> QED BY <2>1, <2>2 DEF SourceInv, SameRequest
<1>3. CASE ServerPrunes \/ Edit \/ UNCHANGED vars
  <2>1. UNCHANGED <<pc, booted, tree>>
    BY <1>3 DEF ServerPrunes, Edit, vars
  <2> QED BY <2>1 DEF SourceInv, SourceAt, SameRequest
<1> QED BY <1>1, <1>2, <1>3

\* SourceInv holds initially and is kept by every step, where KInv holds.
LEMMA SourceHolds == Spec => []SourceInv
<1>1. Init => SourceInv
  <2> SUFFICES ASSUME Init, NEW r \in Runs
               PROVE  /\ pc[r] \notin Building
                      /\ SourceOK(r, tree[WT(r)]) /\ SourceAt(r, tree[WT(r)])
    BY DEF SourceInv
  <2>1. tree[WT(r)] = NoTree /\ pc[r] = "idle" /\ booted[r] = None
    BY WTFacts DEF Init
  <2> QED BY <2>1, FreshTree DEF SourceAt, Building
<1>2. KInv /\ SourceInv /\ [Next]_vars => SourceInv'
  BY PrepareSource, BuildSource, BesideSource DEF Next
<1> QED BY <1>1, <1>2, InitKInv, StepKInv, PTL DEF Spec

\* In a worktree that serves one request a run boots exactly that request,
\* wherever earlier runs were killed: an interrupted `git apply` or `git am` makes
\* later runs fail, never boot.
THEOREM BootsItsRequestHolds == Spec => []BootsItsRequest
<1>1. SourceInv => BootsItsRequest
  BY DEF SourceInv, SourceAt, BootsItsRequest
<1> QED BY <1>1, SourceHolds, PTL

------------------------------------------------------------------------------
(* The shared repository: a lost fetch is charged to the fetch that won.   *)

Roots == {Want[r].root : r \in Runs}
Fetchers == {r \in Runs : pc[r] \in {"fetch", "fetching"}}

\* Of a run whose commands succeed: before the first fetch has succeeded it has
\* lost none; from then on no run comes to the fetches any more, and the attempts
\* it made fit with those who may still make it lose.
RepoOK(r) ==
  /\ cause[r] \notin {"fetch", "commit", "worktree"}
  /\ r \notin Fetchers => tries[r] = 0
  /\ ~present => ~behind[r] /\ tries[r] = IF pc[r] = "fetching" THEN 1 ELSE 0
  /\ pc[r] = "fetch" => tries[r] + Cardinality(Fetchers) <= Cardinality(Roots)
  /\ pc[r] = "fetching" => tries[r] + Cardinality(Fetchers) <= Cardinality(Roots) + 1
  /\ pc[r] = "fetching" /\ behind[r] => tries[r] + Cardinality(Fetchers) <= Cardinality(Roots)
  /\ pc[r] = "resolve" => Have(Commit(r))
  /\ pc[r] = "worktree" /\ ~tree[WT(r)].git => WT(r) \notin reg

Causes == {"none", "killed", "remote", "fetch", "commit", "worktree", "patch", "thread",
           "configure", "build"}

RepoTypes ==
  /\ cause \in [Runs -> Causes]
  /\ tries \in [Runs -> Nat]
  /\ behind \in [Runs -> BOOLEAN]
  /\ present \in BOOLEAN

RepoInv == RepoTypes /\ \A r \in Runs \ Unlucky : RepoOK(r)

\* What SharedRepoHarmless asks of the constants.
OneFetchServes ==
  /\ Cardinality(Roots) <= FetchTries
  /\ \A r \in Runs : Want[r].commit \in Commits \cup {Head}

\* Runs of different roots are no more than the roots.
LEMMA FewInRoots ==
  ASSUME NEW S \in SUBSET Runs, \A r, q \in S : Want[r].root = Want[q].root => r = q
  PROVE  /\ IsFiniteSet(S) /\ Cardinality(S) \in Nat /\ Cardinality(Roots) \in Nat
         /\ Cardinality(S) <= Cardinality(Roots)
<1> DEFINE f == [r \in Runs |-> Want[r].root]
           g == [r \in S |-> Want[r].root]
<1>1. IsFiniteSet(Runs) /\ IsFiniteSet(S)
  BY TreeAssumption, FS_Subset
<1>2. f \in Surjection(Runs, Roots)
  BY DEF Surjection, Roots
<1>3. IsFiniteSet(Roots)
  BY <1>1, <1>2, FS_Surjection
<1>4. g \in Injection(S, Roots)
  BY DEF Injection, IsInjective, Roots
<1>5. Cardinality(S) <= Cardinality(Roots)
  BY <1>3, <1>4, FS_Injection
<1> QED BY <1>1, <1>3, <1>5, FS_CardinalityType

\* One run at a time is active in a root, before a step and after it.
LEMMA FewFetchers ==
  ASSUME KInv, KInv'
  PROVE  /\ IsFiniteSet(Fetchers) /\ Cardinality(Fetchers) \in Nat /\ Cardinality(Roots) \in Nat
         /\ Cardinality(Fetchers) <= Cardinality(Roots)
         /\ Cardinality(Fetchers') \in Nat /\ Cardinality(Fetchers') <= Cardinality(Roots)
<1>1. Fetchers \in SUBSET Runs /\ Fetchers' \in SUBSET Runs
  BY DEF Fetchers
<1>2. \A r, q \in Fetchers : Want[r].root = Want[q].root => r = q
  BY DEF KInv, Alone, Fetchers, Active, Preparing
<1>3. \A r, q \in Fetchers' : Want[r].root = Want[q].root => r = q
  BY DEF KInv, Alone, Fetchers, Active, Preparing
<1> QED BY <1>1, <1>2, <1>3, FewInRoots

\* What a step of run q does to q itself, when q's commands succeed.
Moves(q) ==
  /\ cause'[q] \notin {"fetch", "commit", "worktree"}
  /\ pc'[q] \notin {"fetch", "fetching"} => tries'[q] = 0
  /\ pc'[q] = "fetch" =>
       /\ present => pc[q] = "fetching" /\ behind[q] /\ tries'[q] = tries[q]
       /\ ~present => tries'[q] = 0
  /\ pc'[q] = "fetching" => pc[q] = "fetch" /\ tries'[q] = tries[q] + 1 /\ ~behind'[q]
  /\ ~present => ~behind'[q]
  /\ pc'[q] = "resolve" => Have(Commit(q))
  /\ pc'[q] = "worktree" => tree'[WT(q)].git \/ WT(q) \notin reg'

\* Steps of one run that fetch nothing: who is past the fetches stays there.
LEMMA RepoFrame ==
  ASSUME KInv, KInv', RepoInv, RepoTypes', NEW q \in Runs,
         \A p \in Runs \ {q} : /\ pc'[p] = pc[p] /\ tries'[p] = tries[p]
                               /\ behind'[p] = behind[p] /\ cause'[p] = cause[p],
         present' = present,
         present /\ pc'[q] \in {"fetch", "fetching"} => pc[q] \in {"fetch", "fetching"},
         \/ UNCHANGED <<reg, tree>>
         \/ /\ pc[q] \in Active /\ reg' \subseteq reg \cup {WT(q)}
            /\ \A w \in Worktrees \ {WT(q)} : tree'[w] = tree[w],
         q \notin Unlucky => Moves(q)
  PROVE  RepoInv'
<1>0. /\ IsFiniteSet(Fetchers) /\ Cardinality(Fetchers) \in Nat /\ Cardinality(Roots) \in Nat
      /\ Cardinality(Fetchers) <= Cardinality(Roots)
      /\ Cardinality(Fetchers') \in Nat /\ Cardinality(Fetchers') <= Cardinality(Roots)
  BY FewFetchers
<1>1. present => Cardinality(Fetchers') <= Cardinality(Fetchers)
  <2>1. present => Fetchers' \in SUBSET Fetchers
    BY DEF Fetchers
  <2> QED BY <1>0, <2>1, FS_Subset
<1>2. ASSUME NEW p \in Runs \ Unlucky, p # q PROVE RepoOK(p)'
  <2>1. /\ RepoOK(p) /\ tries[p] \in Nat /\ present' = present
        /\ pc'[p] = pc[p] /\ tries'[p] = tries[p] /\ behind'[p] = behind[p] /\ cause'[p] = cause[p]
    BY <1>2 DEF RepoInv, RepoTypes
  <2>2. /\ cause'[p] \notin {"fetch", "commit", "worktree"}
        /\ p \notin Fetchers' => tries'[p] = 0
        /\ ~present' => ~behind'[p] /\ tries'[p] = IF pc'[p] = "fetching" THEN 1 ELSE 0
    BY <1>2, <2>1 DEF RepoOK, Fetchers
  <2>3. pc'[p] = "fetch" => tries'[p] + Cardinality(Fetchers') <= Cardinality(Roots)
    BY <1>0, <1>1, <2>1 DEF RepoOK
  <2>4. /\ pc'[p] = "fetching" =>
               tries'[p] + Cardinality(Fetchers') <= Cardinality(Roots) + 1
        /\ pc'[p] = "fetching" /\ behind'[p] =>
               tries'[p] + Cardinality(Fetchers') <= Cardinality(Roots)
    BY <1>0, <1>1, <2>1 DEF RepoOK
  <2>5. pc'[p] = "resolve" => Have(Commit(p))'
    BY <2>1 DEF RepoOK, Have
  <2>6. pc'[p] = "worktree" /\ ~tree'[WT(p)].git => WT(p) \notin reg'
    <3>1. WT(p) \in Worktrees /\ (pc[q] \in Active /\ pc[p] = "worktree" => WT(p) # WT(q))
      BY <1>2, WTFacts DEF KInv, Alone, Active, Preparing
    <3> QED BY <2>1, <3>1 DEF RepoOK
  <2> QED BY <2>2, <2>3, <2>4, <2>5, <2>6 DEF RepoOK
<1>3. ASSUME q \notin Unlucky PROVE RepoOK(q)'
  <2>1. RepoOK(q) /\ Moves(q) /\ tries[q] \in Nat /\ tries'[q] \in Nat /\ present' = present
    BY <1>3 DEF RepoInv, RepoTypes
  <2>2. pc'[q] = "fetch" => tries'[q] + Cardinality(Fetchers') <= Cardinality(Roots)
    BY <1>0, <1>1, <2>1 DEF RepoOK, Moves
  <2>3. /\ pc'[q] = "fetching" =>
               tries'[q] + Cardinality(Fetchers') <= Cardinality(Roots) + 1
        /\ pc'[q] = "fetching" /\ behind'[q] =>
               tries'[q] + Cardinality(Fetchers') <= Cardinality(Roots)
    BY <1>0, <1>1, <2>1 DEF RepoOK, Moves
  <2>4. ~present => tries'[q] = IF pc'[q] = "fetching" THEN 1 ELSE 0
    BY <2>1 DEF RepoOK, Moves
  <2> QED BY <1>3, <2>1, <2>2, <2>3, <2>4 DEF RepoOK, Moves, Fetchers, Have
<1> QED BY <1>2, <1>3 DEF RepoInv

\* A run that is beyond the fetches and its worktree, or is stopped.
LEMMA RepoMove ==
  ASSUME KInv, KInv', RepoInv, NEW q \in Runs, pc[q] \in Active,
         NEW to, pc' = [pc EXCEPT ![q] = to],
         to \notin {"fetch", "fetching", "resolve", "worktree"},
         \/ UNCHANGED <<cause, tries, behind>> /\ q \notin Fetchers
         \/ \E why \in Causes : Die(q, why) /\
              (q \notin Unlucky => why \notin {"fetch", "commit", "worktree"}),
         present' = present, reg' \subseteq reg \cup {WT(q)},
         \A w \in Worktrees \ {WT(q)} : tree'[w] = tree[w]
  PROVE  RepoInv'
<1>1. pc'[q] = to /\ \A p \in Runs \ {q} : pc'[p] = pc[p]
  BY DEF KInv, Types
<1>2. CASE UNCHANGED <<cause, tries, behind>> /\ q \notin Fetchers
  <2>1. RepoTypes' /\ (q \notin Unlucky => Moves(q))
    BY <1>1, <1>2 DEF RepoInv, RepoTypes, RepoOK, Moves, Fetchers
  <2> QED BY <1>1, <1>2, <2>1, RepoFrame
<1>3. ASSUME NEW why \in Causes, Die(q, why),
             q \notin Unlucky => why \notin {"fetch", "commit", "worktree"}
      PROVE  RepoInv'
  <2>1. /\ RepoTypes'
        /\ \A p \in Runs \ {q} : /\ tries'[p] = tries[p] /\ behind'[p] = behind[p]
                                 /\ cause'[p] = cause[p]
    BY <1>3 DEF Die, Forget, RepoInv, RepoTypes
  <2>2. q \notin Unlucky => Moves(q)
    BY <1>1, <1>3 DEF Die, Forget, RepoInv, RepoTypes, Moves
  <2> QED BY <1>1, <2>1, <2>2, RepoFrame
<1> QED BY <1>2, <1>3

\* The steps up to the worktree.
LEMMA FetchRepo ==
  ASSUME KInv, KInv', RepoInv, OneFetchServes, NEW q \in Runs,
         \/ ListRemotes(q) \/ AddRemote(q) \/ FetchBegins(q) \/ FetchFails(q) \/ Resolve(q)
         \/ Prune(q)
  PROVE  RepoInv'
<1> DEFINE Rest == \A p \in Runs \ {q} :
                     /\ pc'[p] = pc[p] /\ tries'[p] = tries[p]
                     /\ behind'[p] = behind[p] /\ cause'[p] = cause[p]
<1>0. /\ q \notin Unlucky => RepoOK(q)
      /\ RepoTypes /\ pc \in [Runs -> PC] /\ Want[q].commit \in Commits \cup {Head}
      /\ Want[q].commit # None /\ Commit(q) = Want[q].commit
  BY TreeAssumption DEF RepoInv, KInv, Types, OneFetchServes, Commit
<1>1. \/ AfterRemote(q) = "resolve" /\ Have(Commit(q))
      \/ AfterRemote(q) = "fetch" /\ ~present
  BY <1>0 DEF AfterRemote, Have, RepoTypes
<1>2. ASSUME Go(q, pc[q], AfterRemote(q)), pc[q] \in {"remotes", "add"},
             UNCHANGED <<present, reg, tree>>
      PROVE  RepoInv'
  <2>1. Rest /\ RepoTypes' /\ pc'[q] = AfterRemote(q)
    BY <1>0, <1>2 DEF Go, Goto, process, RepoTypes
  <2>2. q \notin Unlucky => Moves(q)
    BY <1>0, <1>1, <1>2, <2>1 DEF Go, process, Moves, RepoOK, Fetchers
  <2> QED BY <1>1, <1>2, <2>1, <2>2, RepoFrame
<1>3. CASE ListRemotes(q)
  <2>1. CASE remote
    BY <1>2, <1>3, <2>1 DEF ListRemotes, shared, Go
  <2>2. CASE ~remote
    BY <1>3, <2>2, RepoMove DEF ListRemotes, shared, Go, Goto, process, Active, Preparing, Fetchers
  <2> QED BY <2>1, <2>2
<1>4. CASE AddRemote(q)
  <2>1. CASE remote
    <3>1. Die(q, "remote") /\ "remote" \in Causes
      BY <1>4, <2>1 DEF AddRemote, Causes
    <3> QED BY <1>4, <2>1, <3>1, RepoMove DEF AddRemote, Die, Goto, Active, Preparing
  <2>2. CASE ~remote
    BY <1>2, <1>4, <2>2 DEF AddRemote, Go
  <2> QED BY <2>1, <2>2
<1>5. CASE FetchBegins(q)
  <2>1. /\ Rest /\ RepoTypes' /\ pc[q] = "fetch" /\ pc'[q] = "fetching"
        /\ tries'[q] = tries[q] + 1 /\ ~behind'[q] /\ UNCHANGED <<cause, present, reg, tree>>
    BY <1>0, <1>5 DEF FetchBegins, Goto, RepoTypes, shared
  <2>2. q \notin Unlucky => Moves(q)
    BY <1>0, <2>1 DEF Moves, RepoOK
  <2> QED BY <2>1, <2>2, RepoFrame
<1>6. CASE FetchFails(q)
  <2>1. q \notin Unlucky => behind[q] /\ present /\ tries[q] < FetchTries
    <3>1. SUFFICES ASSUME q \notin Unlucky PROVE behind[q] /\ present /\ tries[q] < FetchTries
      OBVIOUS
    <3>2. RepoOK(q) /\ behind[q] /\ pc[q] = "fetching" /\ q \in Fetchers
      BY <1>0, <1>6, <3>1 DEF FetchFails, Fetchers
    <3>3. Cardinality(Fetchers) >= 1
      BY <3>2, FewFetchers, FS_EmptySet
    <3>4. tries[q] + Cardinality(Fetchers) <= Cardinality(Roots) /\ tries[q] \in Nat
      BY <1>0, <3>2 DEF RepoOK, RepoTypes
    <3>5. Cardinality(Roots) <= FetchTries /\ FetchTries \in Nat
      BY TreeAssumption DEF OneFetchServes
    <3> QED BY <3>2, <3>3, <3>4, <3>5, FewFetchers DEF RepoOK
  <2>2. CASE Go(q, "fetching", "fetch")
    <3>1. /\ Rest /\ RepoTypes' /\ pc[q] = "fetching" /\ pc'[q] = "fetch"
          /\ UNCHANGED <<cause, tries, behind, present, reg, tree>>
      BY <1>0, <1>6, <2>2 DEF FetchFails, Go, Goto, process, RepoTypes, shared
    <3>2. q \notin Unlucky => Moves(q)
      BY <1>0, <2>1, <3>1 DEF Moves, RepoOK
    <3> QED BY <3>1, <3>2, RepoFrame
  <2>3. CASE Die(q, "fetch") /\ q \in Unlucky
    <3>1. "fetch" \in Causes
      BY DEF Causes
    <3> QED BY <1>6, <2>3, <3>1, RepoMove DEF FetchFails, Die, Goto, Active, Preparing, shared
  <2> QED BY <1>6, <2>1, <2>2, <2>3 DEF FetchFails
<1>7. CASE Resolve(q)
  <2>1. CASE Have(Commit(q))
    BY <1>7, <2>1, RepoMove DEF Resolve, shared, Go, Goto, process, Active, Preparing, Fetchers
  <2>2. CASE ~Have(Commit(q))
    <3>1. q \in Unlucky /\ Die(q, "commit") /\ "commit" \in Causes
      BY <1>0, <1>7, <2>2 DEF Resolve, RepoOK, Causes
    <3> QED BY <1>7, <3>1, RepoMove DEF Resolve, Die, Goto, Active, Preparing, shared
  <2> QED BY <2>1, <2>2
<1>8. CASE Prune(q)
  <2>1. /\ Rest /\ RepoTypes' /\ pc[q] = "prune" /\ pc'[q] = "worktree"
        /\ UNCHANGED <<cause, tries, behind, present, tree>> /\ reg' = reg \cap Existing
    BY <1>0, <1>8 DEF Prune, Go, Goto, process, RepoTypes
  <2>2. q \notin Unlucky => Moves(q)
    BY <1>0, <2>1 DEF Moves, RepoOK, Existing, Fetchers
  <2> QED BY <2>1, <2>2, RepoFrame DEF Active, Preparing
<1> QED BY <1>3, <1>4, <1>5, <1>6, <1>7, <1>8

\* The fetch that succeeds leaves one run less to lose to.
LEMMA SuccessRepo ==
  ASSUME KInv, KInv', RepoInv, OneFetchServes, NEW q \in Runs, FetchSucceeds(q)
  PROVE  RepoInv'
<1>0. /\ RepoTypes /\ pc \in [Runs -> PC] /\ Want[q].commit \in Commits \cup {Head}
      /\ Want[q].commit # None /\ Commit(q) = Want[q].commit
  BY TreeAssumption DEF RepoInv, KInv, Types, OneFetchServes, Commit
<1>1. /\ pc[q] = "fetching" /\ pc'[q] = "resolve" /\ present' /\ tries'[q] = 0
      /\ UNCHANGED <<cause, reg, tree>>
      /\ \A p \in Runs \ {q} : /\ pc'[p] = pc[p] /\ tries'[p] = tries[p]
                               /\ behind'[p] = (behind[p] \/ pc[p] = "fetching")
  BY <1>0 DEF FetchSucceeds, Goto, RepoTypes
<1>2. RepoTypes'
  BY <1>0 DEF FetchSucceeds, RepoTypes
<1>3. q \in Fetchers /\ Fetchers' = Fetchers \ {q}
  BY <1>1 DEF Fetchers
<1>4. /\ Cardinality(Fetchers') = Cardinality(Fetchers) - 1
      /\ Cardinality(Fetchers) \in Nat /\ Cardinality(Roots) \in Nat
  BY <1>3, FewFetchers, FS_RemoveElement
<1>5. ASSUME NEW p \in Runs \ Unlucky, p # q PROVE RepoOK(p)'
  <2>1. RepoOK(p) /\ tries[p] \in Nat /\ p \in Runs
    BY <1>0, <1>5 DEF RepoInv, RepoTypes
  <2>2. pc'[p] = "fetch" => tries'[p] + Cardinality(Fetchers') <= Cardinality(Roots)
    BY <1>1, <1>4, <1>5, <2>1 DEF RepoOK
  <2>3. pc'[p] = "fetching" =>
          tries'[p] + Cardinality(Fetchers') <= Cardinality(Roots)
    BY <1>1, <1>4, <1>5, <2>1 DEF RepoOK
  <2>4. pc'[p] = "resolve" => Have(Commit(p))'
    BY <1>1, <1>5, <2>1 DEF RepoOK, Have
  <2>5. pc'[p] = "fetching" => tries'[p] + Cardinality(Fetchers') <= Cardinality(Roots) + 1
    BY <1>1, <1>4, <1>5, <2>1 DEF RepoOK
  <2> QED BY <1>1, <1>5, <2>1, <2>2, <2>3, <2>4, <2>5 DEF RepoOK, Fetchers
<1>6. q \notin Unlucky => RepoOK(q)'
  BY <1>0, <1>1, <1>3 DEF RepoInv, RepoOK, Have
<1> QED BY <1>2, <1>5, <1>6 DEF RepoInv

\* From the worktree on a run dies of nothing in the repository.
LEMMA BuildRepo ==
  ASSUME KInv, KInv', RepoInv, NEW q \in Runs,
         \/ AddWorktree(q)
         \/ LookForPatch(q) \/ Apply(q) \/ MarkPatch(q)
         \/ LookForThread(q) \/ Am(q) \/ MarkThread(q)
         \/ BuildBoot(q)
  PROVE  RepoInv'
<1>0. tree \in [Worktrees -> Trees] /\ WT(q) \in Worktrees
  BY WTFacts DEF KInv, Types
<1>1. AddWorktree(q) /\ q \notin Unlucky => Go(q, "worktree", "patch")
  BY DEF AddWorktree, RepoInv, RepoOK, Go
<1>2. ASSUME NEW to \in PC \ {"fetch", "fetching", "resolve", "worktree"},
             Goto(q, to), UNCHANGED <<cause, tries, behind>>,
             pc[q] \in Active \ {"fetch", "fetching"},
             present' = present, reg' \subseteq reg \cup {WT(q)},
             \A w \in Worktrees \ {WT(q)} : tree'[w] = tree[w]
      PROVE  RepoInv'
  BY <1>2, RepoMove DEF Goto, Fetchers
<1>3. ASSUME NEW why \in Causes, Die(q, why), pc[q] \in Active,
             q \notin Unlucky => why \notin {"fetch", "commit", "worktree"},
             present' = present, reg' \subseteq reg \cup {WT(q)},
             \A w \in Worktrees \ {WT(q)} : tree'[w] = tree[w]
      PROVE  RepoInv'
  BY <1>3, RepoMove DEF Die, Goto
<1> USE DEF Go, process, shared, Active, Preparing, Building, PC
<1>4. CASE AddWorktree(q)
  <2>0. /\ pc[q] = "worktree" /\ present' = present /\ reg' \subseteq reg \cup {WT(q)}
        /\ \A w \in Worktrees \ {WT(q)} : tree'[w] = tree[w]
    BY <1>0, <1>4 DEF AddWorktree, Die
  <2>1. CASE Go(q, "worktree", "patch")
    BY <1>2, <2>0, <2>1
  <2>2. CASE Die(q, "worktree") /\ q \in Unlucky
    BY <1>3, <2>0, <2>2 DEF Causes
  <2> QED BY <1>1, <1>4, <2>1, <2>2 DEF AddWorktree
<1>5. CASE LookForPatch(q) \/ LookForThread(q)
  BY <1>2, <1>5 DEF LookForPatch, LookForThread, Prepared
<1>6. CASE MarkPatch(q) \/ MarkThread(q)
  BY <1>0, <1>2, <1>6 DEF MarkPatch, MarkThread, Mark, Prepared
<1>7. CASE Apply(q)
  <2>1. pc[q] = "apply" /\ UNCHANGED shared /\ \A w \in Worktrees \ {WT(q)} : tree'[w] = tree[w]
    BY <1>0, <1>7 DEF Apply
  <2>2. Go(q, "apply", "mark") \/ Die(q, "patch")
    BY <1>7 DEF Apply
  <2> QED BY <1>2, <1>3, <2>1, <2>2 DEF Causes
<1>8. CASE Am(q)
  <2>1. pc[q] = "am" /\ UNCHANGED shared /\ \A w \in Worktrees \ {WT(q)} : tree'[w] = tree[w]
    BY <1>0, <1>8 DEF Am
  <2>2. Go(q, "am", "markam") \/ Die(q, "thread")
    BY <1>8 DEF Am
  <2> QED BY <1>2, <1>3, <2>1, <2>2 DEF Causes
<1>9. CASE CompareKey(q) \/ Unlink(q) \/ WriteKey(q) \/ Boot(q)
  BY <1>0, <1>2, <1>9 DEF CompareKey, Unlink, WriteKey, Boot
<1>10. CASE Configure(q)
  <2>1. pc[q] = "configure" /\ UNCHANGED shared /\ \A w \in Worktrees \ {WT(q)} : tree'[w] = tree[w]
    BY <1>0, <1>10 DEF Configure
  <2>2. Go(q, "configure", "build") \/ Die(q, "configure")
    BY <1>10 DEF Configure
  <2> QED BY <1>2, <1>3, <2>1, <2>2 DEF Causes
<1>11. CASE Build(q)
  <2>1. pc[q] = "build" /\ UNCHANGED shared /\ \A w \in Worktrees \ {WT(q)} : tree'[w] = tree[w]
    BY <1>0, <1>11 DEF Build
  <2>2. Go(q, "build", "boot") \/ Die(q, "build")
    BY <1>11 DEF Build
  <2> QED BY <1>2, <1>3, <2>1, <2>2 DEF Causes
<1> QED BY <1>4, <1>5, <1>6, <1>7, <1>8, <1>9, <1>10, <1>11 DEF BuildBoot

\* What happens beside the runs.
LEMMA BesideRepo ==
  ASSUME KInv, KInv', RepoInv,
         \/ UNCHANGED vars \/ ServerPrunes \/ Edit \/ \E w \in Worktrees : Clear(w)
  PROVE  RepoInv'
<1>1. UNCHANGED <<pc, cause, tries, behind, present>>
  BY DEF vars, process, shared, ServerPrunes, Edit, Clear
<1>2. ASSUME NEW p \in Runs, pc[p] = "worktree", ~tree'[WT(p)].git, ~tree[WT(p)].git => WT(p) \notin reg
      PROVE  WT(p) \notin reg'
  <2>1. CASE UNCHANGED <<tree, reg>>
    BY <1>2, <2>1
  <2>2. CASE ServerPrunes
    BY <1>2, <2>2 DEF ServerPrunes
  <2>3. ASSUME NEW w \in Worktrees, Clear(w) PROVE WT(p) \notin reg'
    <3>1. tree'[WT(p)] = tree[WT(p)] /\ reg' = reg
      BY <1>2, <2>3, WTFacts DEF Clear, shared, KInv, Types, Active, Preparing
    <3> QED BY <1>2, <3>1
  <2> QED BY <2>1, <2>2, <2>3 DEF vars, shared, Edit
<1>3. Fetchers' = Fetchers
  BY <1>1 DEF Fetchers
<1>4. ASSUME NEW p \in Runs \ Unlucky PROVE RepoOK(p)'
  <2>1. RepoOK(p)
    BY DEF RepoInv
  <2>2. pc'[p] = "worktree" /\ ~tree'[WT(p)].git => WT(p) \notin reg'
    BY <1>1, <1>2, <2>1 DEF RepoOK
  <2> QED BY <1>1, <1>3, <2>1, <2>2 DEF RepoOK, Have
<1> QED BY <1>1, <1>4 DEF RepoInv, RepoTypes

LEMMA StartRepo ==
  ASSUME KInv, KInv', RepoInv, OneFetchServes, NEW q \in Runs, Begin(q) \/ Interrupt(q)
  PROVE  RepoInv'
<1>1. CASE Begin(q)
  <2>1. Remote(q)
    BY TreeAssumption DEF OneFetchServes, Remote
  <2>2. /\ pc[q] = "idle" /\ pc'[q] = "remotes" /\ \A p \in Runs \ {q} : pc'[p] = pc[p]
        /\ UNCHANGED <<cause, tries, behind, present, reg, tree>>
    BY <1>1, <2>1 DEF Begin, Goto, shared, KInv, Types
  <2>3. RepoTypes' /\ (q \notin Unlucky => Moves(q))
    BY <2>2 DEF RepoInv, RepoTypes, RepoOK, Moves, Fetchers
  <2> QED BY <2>2, <2>3, RepoFrame
<1>2. CASE Interrupt(q)
  <2>1. "killed" \in Causes
    BY DEF Causes
  <2> QED BY <1>2, <2>1, RepoMove DEF Interrupt, Die, Goto, shared
<1> QED BY <1>1, <1>2

LEMMA InitRepo == Init => RepoInv
<1> SUFFICES ASSUME Init PROVE RepoInv
  OBVIOUS
<1>1. RepoTypes
  BY DEF Init, RepoTypes, Causes
<1>2. ASSUME NEW r \in Runs PROVE RepoOK(r)
  <2>1. /\ pc[r] = "idle" /\ cause[r] = "none" /\ tries[r] = 0 /\ ~behind[r]
    BY DEF Init
  <2> QED BY <2>1 DEF RepoOK, Fetchers
<1> QED BY <1>1, <1>2 DEF RepoInv

LEMMA RepoHolds == Spec /\ OneFetchServes => [](KInv /\ RepoInv)
<1>1. OneFetchServes /\ KInv /\ RepoInv /\ [Next]_vars => RepoInv'
  <2> SUFFICES ASSUME OneFetchServes, KInv, RepoInv, [Next]_vars PROVE RepoInv'
    OBVIOUS
  <2>1. KInv'
    BY StepKInv
  <2>2. ASSUME NEW q \in Runs, Prepare(q) PROVE RepoInv'
    BY <2>1, <2>2, FetchRepo, SuccessRepo, BuildRepo DEF Prepare
  <2>3. ASSUME NEW q \in Runs, BuildBoot(q) PROVE RepoInv'
    BY <2>1, <2>3, BuildRepo
  <2> QED BY <2>1, <2>2, <2>3, StartRepo, BesideRepo DEF Next
<1>2. OneFetchServes => OneFetchServes'
  BY DEF OneFetchServes, Roots
<1> QED BY <1>1, <1>2, InitRepo, InitKInv, StepKInv, PTL DEF Spec

\* Fetches that others win, killed runs and removed directories keep no run whose
\* own commands succeed from its worktree, for any runs, roots and requests.
THEOREM SharedRepoIsHarmless == Spec => []SharedRepoHarmless
<1>1. CASE OneFetchServes
  <2>1. RepoInv => SharedRepoHarmless
    BY DEF RepoInv, RepoOK, SharedRepoHarmless
  <2> QED BY <1>1, <2>1, RepoHolds, PTL
<1>2. CASE ~OneFetchServes
  <2>1. SharedRepoHarmless
    BY <1>2 DEF OneFetchServes, SharedRepoHarmless, Roots
  <2> QED BY <2>1, PTL
<1> QED BY <1>1, <1>2

==============================================================================
