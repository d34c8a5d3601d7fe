--------------------------- MODULE LocalModel_proofs ---------------------------
(***************************************************************************)
(* What Summarizer::load leaves behind when it returns, for any servers    *)
(* that are configured and any number of starts: no llama-server it does   *)
(* not use unless a failed call about it made load give it up, one primary *)
(* back end, and no summaries for want of a local one only if nothing that *)
(* is configured is usable.                                                *)
(*                                                                         *)
(* parse_servers is a recursive function: that it is one, and what it      *)
(* keeps, is proved by induction on the number of entries it has read.     *)
(***************************************************************************)
EXTENDS LocalModel, TLAPS, FiniteSetTheorems, SequenceTheorems

------------------------------------------------------------------------------
(* Induction, and functions defined by it.                                 *)

\* A set of numbers that holds 0, and the next of each it holds, holds them all.
LEMMA NatSetInduction ==
  ASSUME NEW G, 0 \in G, \A n \in Nat : n \in G => n + 1 \in G
  PROVE  Nat \subseteq G
<1> DEFINE Less == OpToRel(<, Nat)
           B == Nat \ G
<1> SUFFICES ASSUME B # {} PROVE FALSE
  OBVIOUS
<1>1. \E n \in B : \A m \in B : ~ (<<m, n>> \in Less)
  <2>1. B \subseteq Nat
    OBVIOUS
  <2> HIDE DEF B
  <2> QED BY <2>1, WFMin, NatLessThanWellFounded, Zenon
<1>2. \A m, n \in Nat : m < n => <<m, n>> \in Less
  BY DEF OpToRel
<1> HIDE DEF Less
<1>3. PICK n \in B : \A m \in B : ~ (<<m, n>> \in Less)
  BY <1>1
<1>4. n # 0 /\ n - 1 \in Nat /\ n - 1 < n
  BY <1>3
<1>5. n - 1 \in G
  BY <1>2, <1>3, <1>4
<1>6. n - 1 + 1 = n
  BY <1>4
<1> QED BY <1>3, <1>4, <1>5, <1>6

\* f begins with b and goes on by step, up to N.
Iterates(f, N, S, b, step) ==
  f \in [0..N -> S] /\ f[0] = b /\ \A i \in 1..N : f[i] = step[i][f[i - 1]]
Steps(N, S) == [1..N -> [S -> S]]

\* There is such a function.
LEMMA PrimitiveRecursion ==
  ASSUME NEW N \in Nat, NEW S, NEW b \in S, NEW step \in Steps(N, S)
  PROVE  \E f : Iterates(f, N, S, b, step)
<1> USE DEF Steps, Iterates
<1> DEFINE Upto(f, n) == f[0] = b /\ \A i \in 1..n : f[i] = step[i][f[i - 1]]
           G == {n \in Nat : n <= N => \E f \in [0..N -> S] : Upto(f, n)}
<1>1. 0 \in G
  <2>1. [i \in 0..N |-> b] \in [0..N -> S] /\ Upto([i \in 0..N |-> b], 0)
    OBVIOUS
  <2> QED BY <2>1
<1>2. ASSUME NEW n \in Nat, n \in G PROVE n + 1 \in G
  <2> SUFFICES ASSUME n + 1 <= N PROVE \E f \in [0..N -> S] : Upto(f, n + 1)
    OBVIOUS
  <2>1. PICK f \in [0..N -> S] : Upto(f, n)
    BY <1>2
  <2> DEFINE g == [f EXCEPT ![n + 1] = step[n + 1][f[n]]]
  <2>2. step[n + 1][f[n]] \in S
    OBVIOUS
  <2>3. g \in [0..N -> S] /\ g[n + 1] = step[n + 1][f[n]] /\ \A i \in 0..n : g[i] = f[i]
    BY <2>2
  <2> HIDE DEF g
  <2>4. \A i \in 1..n + 1 : g[i] = step[i][g[i - 1]]
    <3> SUFFICES ASSUME NEW i \in 1..n + 1 PROVE g[i] = step[i][g[i - 1]]
      OBVIOUS
    <3>1. i - 1 \in 0..n /\ g[i - 1] = f[i - 1]
      BY <2>3
    <3>2. CASE i = n + 1
      BY <2>3, <3>1, <3>2
    <3>3. CASE i \in 1..n
      BY <2>1, <2>3, <3>1, <3>3
    <3> QED BY <3>2, <3>3
  <2> QED BY <2>1, <2>3, <2>4
<1>3. Nat \subseteq G
  <2> HIDE DEF G
  <2> QED BY <1>1, <1>2, NatSetInduction
<1>4. N \in G
  BY <1>3
<1> QED BY <1>4

------------------------------------------------------------------------------
(* What parse_servers keeps.                                               *)

Back == [label : STRING, primary : BOOLEAN]
BackOf(e) == [label |-> e.label, primary |-> e.primary]

\* Its equations.
LEMMA ParseServersRec ==
  ASSUME NEW entries \in Seq(ServerEntry)
  PROVE  \E f \in [0..Len(entries) -> Seq(Back)] :
           /\ parse_servers(entries) = f[Len(entries)]
           /\ f[0] = <<>>
           /\ \A n \in 1..Len(entries) : f[n] =
                IF Usable(entries[n]) THEN Append(f[n - 1], BackOf(entries[n])) ELSE f[n - 1]
<1> DEFINE N == Len(entries)
           S == Seq(Back)
           step == [n \in 1..N |-> [bs \in S |->
                      IF Usable(entries[n]) THEN Append(bs, BackOf(entries[n])) ELSE bs]]
           Eqn(f) == [n \in 0..N |-> IF n = 0 THEN <<>>
                        ELSE IF Usable(entries[n]) THEN Append(f[n - 1], BackOf(entries[n]))
                             ELSE f[n - 1]]
<1>1. N \in Nat /\ \A n \in 1..N : entries[n] \in ServerEntry
  OBVIOUS
<1>2. \A n \in 1..N : BackOf(entries[n]) \in Back
  BY <1>1 DEF ServerEntry, Back, BackOf
<1>3. step \in Steps(N, S)
  BY <1>2 DEF Steps
<1>4. <<>> \in S
  OBVIOUS
<1>5. \E f : Iterates(f, N, S, <<>>, step)
  <2> HIDE DEF step, S, N
  <2> QED BY <1>1, <1>3, <1>4, PrimitiveRecursion
<1>6. PICK f \in [0..N -> S] : f[0] = <<>> /\ \A i \in 1..N : f[i] = step[i][f[i - 1]]
  BY <1>5 DEF Iterates
<1>7. f = Eqn(f)
  <2>1. ASSUME NEW n \in 0..N, n # 0
        PROVE  f[n] = IF Usable(entries[n]) THEN Append(f[n - 1], BackOf(entries[n])) ELSE f[n - 1]
    <3>1. n \in 1..N /\ n - 1 \in 0..N
      BY <2>1
    <3>2. f[n - 1] \in S
      BY <3>1
    <3> QED BY <1>6, <3>1, <3>2
  <2> QED BY <1>6, <2>1
<1> DEFINE g == CHOOSE g : g = Eqn(g)
<1>8. g = Eqn(g)
  BY <1>7
<1>9. parse_servers(entries) = g[N]
  BY DEF parse_servers, BackOf
<1> HIDE DEF g
<1>10. DOMAIN g = 0..N /\ g[0] = <<>>
  BY <1>1, <1>8
<1>11. \A n \in 1..N : g[n] =
         IF Usable(entries[n]) THEN Append(g[n - 1], BackOf(entries[n])) ELSE g[n - 1]
  <2> SUFFICES ASSUME NEW n \in 1..N
               PROVE  g[n] =
         IF Usable(entries[n]) THEN Append(g[n - 1], BackOf(entries[n])) ELSE g[n - 1]
    OBVIOUS
  <2>1. n \in 0..N /\ n # 0
    BY <1>1
  <2>2. g[n] = Eqn(g)[n]
    BY <1>8
  <2> QED BY <2>1, <2>2
<1> DEFINE G == {n \in Nat : n <= N => g[n] \in S}
<1>12. 0 \in G
  BY <1>4, <1>10
<1>13. ASSUME NEW n \in Nat, n \in G PROVE n + 1 \in G
  <2> SUFFICES ASSUME n + 1 <= N PROVE g[n + 1] \in S
    OBVIOUS
  <2>1. g[n] \in S /\ n + 1 \in 1..N /\ n + 1 - 1 = n
    BY <1>1, <1>13
  <2>2. BackOf(entries[n + 1]) \in Back
    BY <1>2, <2>1
  <2>3. Append(g[n], BackOf(entries[n + 1])) \in S
    BY <2>1, <2>2
  <2>4. g[n + 1] = IF Usable(entries[n + 1]) THEN Append(g[n], BackOf(entries[n + 1])) ELSE g[n]
    BY <1>11, <2>1
  <2> QED BY <2>1, <2>3, <2>4
<1>14. Nat \subseteq G
  <2> HIDE DEF G
  <2> QED BY <1>12, <1>13, NatSetInduction
<1>15. g \in [0..N -> S]
  <2>1. \A n \in 0..N : g[n] \in S
    BY <1>1, <1>14
  <2>2. g = [n \in 0..N |-> g[n]]
    BY <1>8
  <2> QED BY <2>1, <2>2
<1> QED BY <1>9, <1>10, <1>11, <1>15

\* Kept are the usable entries and nothing else, each as it was configured.
Keeps(bs, entries) ==
  /\ bs \in Seq(Back)
  /\ \A i \in 1..Len(bs) : \E k \in 1..Len(entries) :
       Usable(entries[k]) /\ bs[i] = BackOf(entries[k])
  /\ \A k \in 1..Len(entries) :
       Usable(entries[k]) => \E i \in 1..Len(bs) : bs[i] = BackOf(entries[k])

\* It keeps just the usable entries, with their labels and flags.
LEMMA ParseServersKeeps ==
  ASSUME NEW entries \in Seq(ServerEntry)
  PROVE  Keeps(parse_servers(entries), entries)
<1> DEFINE N == Len(entries)
<1>1. PICK f \in [0..N -> Seq(Back)] :
        /\ parse_servers(entries) = f[N]
        /\ f[0] = <<>>
        /\ \A n \in 1..N : f[n] =
             IF Usable(entries[n]) THEN Append(f[n - 1], BackOf(entries[n])) ELSE f[n - 1]
  BY ParseServersRec
<1>2. N \in Nat /\ \A n \in 1..N : BackOf(entries[n]) \in Back
  <2>1. N \in Nat /\ \A n \in 1..N : entries[n] \in ServerEntry
    OBVIOUS
  <2> QED BY <2>1 DEF ServerEntry, Back, BackOf
<1> DEFINE Kept(n) ==
             /\ \A i \in 1..Len(f[n]) : \E k \in 1..n :
                  Usable(entries[k]) /\ f[n][i] = BackOf(entries[k])
             /\ \A k \in 1..n :
                  Usable(entries[k]) => \E i \in 1..Len(f[n]) : f[n][i] = BackOf(entries[k])
           G == {n \in Nat : n <= N => Kept(n)}
<1>3. 0 \in G
  BY <1>1
<1>4. ASSUME NEW n \in Nat, n \in G PROVE n + 1 \in G
  <2> SUFFICES ASSUME n + 1 <= N PROVE Kept(n + 1)
    OBVIOUS
  <2>1. /\ n \in 0..N /\ n + 1 \in 1..N /\ n + 1 - 1 = n
        /\ f[n] \in Seq(Back) /\ Kept(n)
    <3>1. n \in 0..N /\ n + 1 \in 1..N /\ n + 1 - 1 = n /\ n <= N
      BY <1>2
    <3>2. f[n] \in Seq(Back)
      BY <1>1, <3>1
    <3>3. Kept(n)
      <4> HIDE DEF Kept
      <4> QED BY <1>4, <3>1
    <3> QED BY <3>1, <3>2, <3>3
  <2>2. f[n + 1] = IF Usable(entries[n + 1]) THEN Append(f[n], BackOf(entries[n + 1])) ELSE f[n]
    BY <1>1, <2>1
  <2>3. CASE ~Usable(entries[n + 1])
    BY <2>1, <2>2, <2>3
  <2>4. CASE Usable(entries[n + 1])
    <3> DEFINE e == BackOf(entries[n + 1])  l == Len(f[n])
    <3>1. e \in Back
      BY <1>2, <2>1
    <3>2. /\ l \in Nat /\ Len(f[n + 1]) = l + 1 /\ f[n + 1][l + 1] = e
          /\ \A i \in 1..l : f[n + 1][i] = f[n][i]
      <4>1. f[n + 1] = Append(f[n], e)
        BY <2>2, <2>4
      <4> QED BY <2>1, <3>1, <4>1
    <3> HIDE DEF l
    <3>3. \A i \in 1..l + 1 : \E k \in 1..n + 1 : Usable(entries[k]) /\ f[n + 1][i] = BackOf(entries[k])
      <4>1. \A i \in 1..l : \E k \in 1..n + 1 : Usable(entries[k]) /\ f[n + 1][i] = BackOf(entries[k])
        <5> SUFFICES ASSUME NEW i \in 1..l
                     PROVE  \E k \in 1..n + 1 : Usable(entries[k]) /\ f[n + 1][i] = BackOf(entries[k])
          OBVIOUS
        <5>1. PICK k \in 1..n : Usable(entries[k]) /\ f[n][i] = BackOf(entries[k])
          BY <2>1 DEF l
        <5> QED BY <3>2, <5>1
      <4>2. n + 1 \in 1..n + 1
        OBVIOUS
      <4> QED BY <2>4, <3>2, <4>1, <4>2
    <3>4. \A k \in 1..n + 1 : Usable(entries[k]) => \E i \in 1..l + 1 : f[n + 1][i] = BackOf(entries[k])
      <4> SUFFICES ASSUME NEW k \in 1..n + 1, Usable(entries[k])
                   PROVE  \E i \in 1..l + 1 : f[n + 1][i] = BackOf(entries[k])
        OBVIOUS
      <4>1. CASE k = n + 1
        BY <3>2, <4>1
      <4>2. CASE k \in 1..n
        <5>1. PICK i \in 1..l : f[n][i] = BackOf(entries[k])
          BY <2>1, <4>2 DEF l
        <5> QED BY <3>2, <5>1
      <4> QED BY <4>1, <4>2
    <3> QED BY <3>2, <3>3, <3>4
  <2> QED BY <2>3, <2>4
<1>5. Nat \subseteq G
  <2> HIDE DEF G
  <2> QED BY <1>3, <1>4, NatSetInduction
<1>6. Kept(N)
  <2> HIDE DEF Kept
  <2> QED BY <1>2, <1>5
<1>7. f[N] \in Seq(Back)
  BY <1>1, <1>2
<1> QED BY <1>1, <1>6, <1>7 DEF Keeps

------------------------------------------------------------------------------
(* Where load is, what it has started and what it has assembled.           *)

Places == {"off", "resolve", "download", "unpack", "spawn", "wait", "health", "deadline",
           "available", "unavailable", "warmup", "ready", "failed", "no_client"}

LTypes ==
  /\ servers \in Seq(ServerEntry)
  /\ run \in 0..MaxRuns
  /\ at \in Places
  /\ proc \in [Runs -> Alive \cup {"none", "exited"}]

\* A start has no child before it spawns one, nor without a client; where load gives
\* the local back end up, its child is gone or abandoned.
Children ==
  /\ at # "off" => run \in Runs
  /\ \A r \in Runs : r > run => proc[r] = "none"
  /\ at \in {"resolve", "download", "unpack", "spawn", "no_client"} => proc[run] = "none"
  /\ at \in {"unavailable", "failed"} => abandoned \/ proc[run] \notin Alive

Local == [label |-> LABEL, primary |-> FALSE]
WithLocal == WithPrimary(Append(parse_servers(servers), Local))

\* The back ends are those configured until the outcome is known.
Assembled ==
  /\ at \notin {"off", "warmup", "ready", "no_client"} => backends = parse_servers(servers)
  /\ at = "warmup" => backends = WithLocal
  /\ at = "ready" =>
       \/ backends = WithLocal
       \/ /\ abandoned \/ proc[run] \notin Alive
          /\ parse_servers(servers) # <<>> /\ backends = WithPrimary(parse_servers(servers))
  /\ at \in {"failed", "no_client"} => backends = <<>>

LInv == LTypes /\ Children /\ Assembled

\* Nothing has been spawned.
LEMMA InitLInv == Init => LInv
<1> SUFFICES ASSUME Init PROVE LInv
  OBVIOUS
<1>1. servers \in Seq(ServerEntry) /\ run \in 0..MaxRuns
  BY ModelAssumption DEF Init
<1> QED BY <1>1 DEF Init, LInv, LTypes, Children, Assembled, Places, Alive

\* Only load moves it on; a crash takes it back.
LEMMA StepLInv == LInv /\ [Next]_vars => LInv'
<1> SUFFICES ASSUME LInv, [Next]_vars PROVE LInv'
  OBVIOUS
<1> USE ModelAssumption DEF LInv, LTypes, Children, Places, Runs, Alive, env, Goto
<1>1. CASE UNCHANGED vars
  BY <1>1 DEF vars, Assembled, WithLocal
<1>2. CASE Start
  BY <1>2 DEF Start, Assembled
<1>3. CASE Crash
  BY <1>3 DEF Crash, Assembled
<1>4. CASE Resolve \/ Download \/ UnpackSome \/ Unpacked \/ TryWait \/ Health
  BY <1>4 DEF Resolve, Download, UnpackSome, Unpacked, TryWait, Health, Assembled
<1>5. CASE Spawn
  BY <1>5 DEF Spawn, Assembled
<1>6. CASE Deadline
  BY <1>6 DEF Deadline, Assembled
<1>7. CASE Available \/ Warmup
  BY <1>7 DEF Available, Warmup, Assembled, WithLocal, Local
<1>8. CASE Unavailable
  BY <1>8 DEF Unavailable, Assembled, WithLocal
<1>9. CASE TooLate
  BY <1>9 DEF TooLate, Assembled, WithLocal
<1>10. ASSUME NEW r \in Runs, Serve(r) \/ Exit(r) PROVE LInv'
  BY <1>10 DEF Serve, Exit, Assembled, WithLocal
<1> QED BY <1>1, <1>2, <1>3, <1>4, <1>5, <1>6, <1>7, <1>8, <1>9, <1>10 DEF Next, load

------------------------------------------------------------------------------
(* One primary.                                                            *)

\* What load's last look at the back ends does: it changes no label, and makes the
\* first the primary if there is none.
LEMMA WithPrimaryIs ==
  ASSUME NEW bs \in Seq(Back), bs # <<>>
  PROVE  LET ws == WithPrimary(bs) IN
         /\ DOMAIN ws = 1..Len(bs) /\ \A i \in 1..Len(bs) : ws[i].label = bs[i].label
         /\ (\E i \in 1..Len(bs) : bs[i].primary) => ws = bs
         /\ ~(\E i \in 1..Len(bs) : bs[i].primary) =>
              \A i \in 1..Len(bs) : ws[i].primary <=> i = 1
<1> DEFINE N == Len(bs)
<1>1. N \in Nat /\ N # 0 /\ DOMAIN bs = 1..N /\ \A i \in 1..N : bs[i] \in Back
  BY EmptySeq
<1>2. CASE \E i \in 1..N : bs[i].primary
  BY <1>1, <1>2 DEF WithPrimary
<1>3. CASE ~ \E i \in 1..N : bs[i].primary
  <2> DEFINE ws == WithPrimary(bs)
  <2>1. ws = [bs EXCEPT ![1].primary = TRUE]
    BY <1>1, <1>3 DEF WithPrimary
  <2> HIDE DEF ws
  <2>2. /\ ws[1].primary /\ ws[1].label = bs[1].label /\ DOMAIN ws = 1..N
        /\ \A i \in 2..N : ws[i] = bs[i]
    BY <1>1, <2>1 DEF Back
  <2>3. \A i \in 1..N : i = 1 \/ i \in 2..N
    BY <1>1
  <2>4. \A i \in 1..N : ws[i].label = bs[i].label /\ (ws[i].primary <=> i = 1)
    BY <1>3, <2>2, <2>3
  <2> QED BY <1>3, <2>2, <2>4 DEF ws
<1> QED BY <1>2, <1>3

Flagged == {i \in DOMAIN servers : Usable(servers[i]) /\ servers[i].primary}
Primaries(bs) == {bs[i].label : i \in {j \in DOMAIN bs : bs[j].primary}}

\* Back ends of which each primary is one that the configuration flags, and which
\* hold each of those, have one primary when at most one is flagged.
LEMMA OneOfThem ==
  ASSUME LTypes, NEW bs \in Seq(Back), bs # <<>>,
         \A i \in 1..Len(bs) : bs[i].primary => \E k \in Flagged : bs[i] = BackOf(servers[k]),
         \A k \in Flagged : \E i \in 1..Len(bs) : bs[i] = BackOf(servers[k]),
         Cardinality(Flagged) <= 1
  PROVE  /\ Cardinality(Primaries(WithPrimary(bs))) = 1
         /\ \A k \in Flagged : servers[k].label \in Primaries(WithPrimary(bs))
<1> DEFINE ws == WithPrimary(bs)
           ps == Primaries(ws)
<1>1. /\ DOMAIN ws = 1..Len(bs) /\ \A i \in 1..Len(bs) : ws[i].label = bs[i].label
      /\ (\E i \in 1..Len(bs) : bs[i].primary) => ws = bs
      /\ ~(\E i \in 1..Len(bs) : bs[i].primary) =>
           \A i \in 1..Len(bs) : ws[i].primary <=> i = 1
  BY WithPrimaryIs
<1> HIDE DEF ws
<1>2. Len(bs) \in Nat /\ Len(bs) # 0
  BY EmptySeq
<1>3. Flagged = {} \/ \E k : Flagged = {k}
  <2>1. IsFiniteSet(Flagged)
    <3>1. Flagged \in SUBSET (1..Len(servers)) /\ Len(servers) \in Nat
      BY DEF Flagged, LTypes
    <3>2. IsFiniteSet(1..Len(servers))
      BY <3>1, FS_Interval
    <3> QED BY <3>1, <3>2, FS_Subset
  <2>2. Cardinality(Flagged) \in Nat
    BY <2>1, FS_CardinalityType
  <2>3. CASE Cardinality(Flagged) = 0
    BY <2>1, <2>3, FS_EmptySet
  <2>4. CASE Cardinality(Flagged) = 1
    BY <2>1, <2>4, FS_Singleton
  <2>5. Cardinality(Flagged) = 0 \/ Cardinality(Flagged) = 1
    BY <2>2
  <2> QED BY <2>3, <2>4, <2>5
<1>4. CASE Flagged = {}
  <2>1. ps = {bs[1].label}
    BY <1>1, <1>2, <1>4 DEF Primaries
  <2>2. Cardinality(ps) = 1
    BY <2>1, FS_Singleton
  <2> QED BY <1>4, <2>2 DEF ws
<1>5. ASSUME NEW k, Flagged = {k}
      PROVE  ps = {servers[k].label}
  <2>1. PICK i \in 1..Len(bs) : bs[i] = BackOf(servers[k])
    BY <1>5
  <2>2. bs[i].primary /\ bs[i].label = servers[k].label
    BY <1>5, <2>1 DEF BackOf, Flagged
  <2>3. ws = bs
    BY <1>1, <2>2
  <2>4. \A j \in 1..Len(bs) : bs[j].primary => bs[j].label = servers[k].label
    BY <1>5 DEF BackOf
  <2> QED BY <1>1, <2>2, <2>3, <2>4 DEF Primaries
<1>6. ASSUME NEW k, Flagged = {k}
      PROVE  Cardinality(ps) = 1 /\ \A i \in Flagged : servers[i].label \in ps
  <2>1. ps = {servers[k].label}
    BY <1>5, <1>6
  <2> HIDE DEF ps
  <2> QED BY <1>6, <2>1, FS_Singleton
<1> QED BY <1>3, <1>4, <1>6 DEF ws

\* The configured back ends are such, with or without the local one.
LEMMA ReadyHasOnePrimary ==
  ASSUME LInv, at = "ready"
  PROVE  OnePrimary
<1> DEFINE base == parse_servers(servers)
<1>1. Keeps(base, servers)
  BY ParseServersKeeps DEF LInv, LTypes
<1>2. DOMAIN servers = 1..Len(servers) /\ \A k \in 1..Len(servers) : servers[k] \in ServerEntry
  BY DEF LInv, LTypes
<1> HIDE DEF base
<1>3. \A i \in 1..Len(base) : base[i].primary => \E k \in Flagged : base[i] = BackOf(servers[k])
  <2> SUFFICES ASSUME NEW i \in 1..Len(base), base[i].primary
               PROVE  \E k \in Flagged : base[i] = BackOf(servers[k])
    OBVIOUS
  <2>1. PICK k \in 1..Len(servers) : Usable(servers[k]) /\ base[i] = BackOf(servers[k])
    BY <1>1 DEF Keeps
  <2>2. servers[k].primary
    BY <2>1 DEF BackOf
  <2> QED BY <1>2, <2>1, <2>2 DEF Flagged
<1>4. \A k \in Flagged : \E i \in 1..Len(base) : base[i] = BackOf(servers[k])
  BY <1>1, <1>2 DEF Keeps, Flagged
<1>5. base \in Seq(Back)
  BY <1>1 DEF Keeps
<1> DEFINE both == Append(base, Local)
<1>6. Local \in Back /\ ~Local.primary
  BY ModelAssumption DEF Local, Back
<1>7. /\ both \in Seq(Back) /\ both # <<>> /\ Len(base) \in Nat /\ Len(both) = Len(base) + 1
      /\ both[Len(base) + 1] = Local /\ \A i \in 1..Len(base) : both[i] = base[i]
  BY <1>5, <1>6
<1> HIDE DEF both
<1>8. \A i \in 1..Len(both) : both[i].primary => \E k \in Flagged : both[i] = BackOf(servers[k])
  <2> SUFFICES ASSUME NEW i \in 1..Len(both), both[i].primary
               PROVE  \E k \in Flagged : both[i] = BackOf(servers[k])
    OBVIOUS
  <2>1. i # Len(base) + 1
    BY <1>6, <1>7
  <2>2. i \in 1..Len(base) /\ both[i] = base[i]
    BY <1>7, <2>1
  <2> QED BY <1>3, <2>2
<1>9. \A k \in Flagged : \E i \in 1..Len(both) : both[i] = BackOf(servers[k])
  <2> SUFFICES ASSUME NEW k \in Flagged PROVE \E i \in 1..Len(both) : both[i] = BackOf(servers[k])
    OBVIOUS
  <2>1. PICK i \in 1..Len(base) : base[i] = BackOf(servers[k])
    BY <1>4
  <2>2. i \in 1..Len(both) /\ both[i] = base[i]
    BY <1>7
  <2> QED BY <2>1, <2>2
<1>10. backends = WithPrimary(both) \/ (base # <<>> /\ backends = WithPrimary(base))
  BY DEF LInv, Assembled, WithLocal, base, both
<1>11. LTypes
  BY DEF LInv
<1>12. Cardinality(Flagged) <= 1 =>
         Cardinality(Primaries(backends)) = 1 /\ \A k \in Flagged : servers[k].label \in Primaries(backends)
  <2>1. CASE backends = WithPrimary(both)
    BY <1>7, <1>8, <1>9, <1>11, <2>1, OneOfThem
  <2>2. CASE base # <<>> /\ backends = WithPrimary(base)
    BY <1>3, <1>4, <1>5, <1>11, <2>2, OneOfThem
  <2> QED BY <1>10, <2>1, <2>2
<1> QED BY <1>12 DEF OnePrimary, Flagged, Primaries

------------------------------------------------------------------------------
(* What load leaves.                                                       *)

\* The local back end is listed when its llama-server is used.
LEMMA ReadyListsLocal ==
  ASSUME LTypes, backends = WithLocal
  PROVE  Listed
<1> DEFINE base == parse_servers(servers)
           both == Append(base, Local)
<1>1. base \in Seq(Back)
  BY ParseServersKeeps DEF LTypes, Keeps
<1>2. Local \in Back /\ Local.label = LABEL
  BY ModelAssumption DEF Local, Back
<1> HIDE DEF base
<1>3. both \in Seq(Back) /\ both # <<>> /\ Len(base) + 1 \in 1..Len(both) /\ both[Len(base) + 1] = Local
  BY <1>1, <1>2
<1> HIDE DEF both
<1>4. backends = WithPrimary(both)
  BY DEF WithLocal, base, both
<1>5. DOMAIN backends = 1..Len(both) /\ backends[Len(base) + 1].label = LABEL
  BY <1>2, <1>3, <1>4, WithPrimaryIs
<1> QED BY <1>3, <1>5 DEF Listed

\* At each place in load: which back ends it has put together, and that a child it
\* gave up is gone unless a call about it failed (Summarizer::load,
\* spawn_local_server).
THEOREM LInvariance == Spec => []LInv
  BY InitLInv, StepLInv, PTL DEF Spec

\* Once load returns there is one primary; a llama-server it does not use is gone
\* unless try_wait, the poll client or the kill failed; and it gives summaries up only
\* if no configured back end is usable or its own HTTP client could not be made
\* (Summarizer::load, parse_servers, spawn_local_server).
THEOREM LoadedServesHolds == Spec => []LoadedServes
<1>1. LInv => LoadedServes
  <2> SUFFICES ASSUME LInv, Returned PROVE LoadedServes
    BY DEF LoadedServes
  <2>1. NoChildLeft
    <3>1. CASE at = "failed"
      BY <3>1 DEF LInv, Children, NoChildLeft
    <3>2. CASE at = "ready"
      BY <3>2, ReadyListsLocal DEF LInv, Assembled, NoChildLeft
    <3>3. CASE at = "no_client"
      BY <3>3 DEF LInv, Children, NoChildLeft, Alive
    <3> QED BY <3>1, <3>2, <3>3 DEF Returned
  <2>2. OnePrimary
    BY ReadyHasOnePrimary DEF OnePrimary
  <2>3. at = "failed" => \A i \in DOMAIN servers : ~Usable(servers[i])
    <3> SUFFICES ASSUME at = "failed", NEW i \in DOMAIN servers, Usable(servers[i]) PROVE FALSE
      OBVIOUS
    <3>1. parse_servers(servers) = <<>>
      BY DEF LInv, Assembled
    <3>2. Keeps(<<>>, servers) /\ i \in 1..Len(servers)
      BY <3>1, ParseServersKeeps DEF LInv, LTypes
    <3> QED BY <3>2 DEF Keeps
  <2> QED BY <2>1, <2>2, <2>3 DEF LoadedServes
<1> QED BY <1>1, LInvariance, PTL
================================================================================
