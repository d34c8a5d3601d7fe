------------------------------ MODULE Text_proofs ------------------------------
(***************************************************************************)
(* What the readers of logs make of a text, for every text, however long,  *)
(* and every cap on reports and prompts.  The readers are recursive        *)
(* functions; that they are functions at all and what they find is proved  *)
(* by induction on the lines that are left to read.                        *)
(***************************************************************************)
EXTENDS Text, TLAPS, FiniteSetTheorems, SequenceTheorems

------------------------------------------------------------------------------
(* Induction, and least and greatest numbers.                              *)

\* A set of numbers that holds 0, and the next of each it holds, holds them all.
LEMMA NatSetInduction ==
  ASSUME NEW G, 0 \in G, \A n \in Nat : n \in G => n + 1 \in G
  PROVE  Nat \subseteq G
<1> DEFINE Less == OpToRel(<, Nat)
           B == Nat \ G
<1> SUFFICES ASSUME B # {} PROVE FALSE
  OBVIOUS
<1>1. \E n \in B : \A m \in B : ~ (<<m, n>> \in Less)
  <2>1. B \subseteq Nat
    OBVIOUS
  <2> HIDE DEF B
  <2> QED BY <2>1, WFMin, NatLessThanWellFounded, Zenon
<1>2. \A m, n \in Nat : m < n => <<m, n>> \in Less
  BY DEF OpToRel
<1> HIDE DEF Less
<1>3. PICK n \in B : \A m \in B : ~ (<<m, n>> \in Less)
  BY <1>1
<1>4. n # 0 /\ n - 1 \in Nat /\ n - 1 < n
  BY <1>3
<1>5. n - 1 \in G
  BY <1>2, <1>3, <1>4
<1>6. n - 1 + 1 = n
  BY <1>4
<1> QED BY <1>3, <1>4, <1>5, <1>6

\* f begins with b and goes on by step, up to N.
Iterates(f, N, S, b, step) ==
  f \in [0..N -> S] /\ f[0] = b /\ \A i \in 1..N : f[i] = step[i][f[i - 1]]
Steps(N, S) == [1..N -> [S -> S]]

\* There is such a function.
LEMMA PrimitiveRecursion ==
  ASSUME NEW N \in Nat, NEW S, NEW b \in S, NEW step \in Steps(N, S)
  PROVE  \E f : Iterates(f, N, S, b, step)
<1> USE DEF Steps, Iterates
<1> DEFINE Upto(f, n) == f[0] = b /\ \A i \in 1..n : f[i] = step[i][f[i - 1]]
           G == {n \in Nat : n <= N => \E f \in [0..N -> S] : Upto(f, n)}
<1>1. 0 \in G
  <2>1. [i \in 0..N |-> b] \in [0..N -> S] /\ Upto([i \in 0..N |-> b], 0)
    OBVIOUS
  <2> QED BY <2>1
<1>2. ASSUME NEW n \in Nat, n \in G PROVE n + 1 \in G
  <2> SUFFICES ASSUME n + 1 <= N PROVE \E f \in [0..N -> S] : Upto(f, n + 1)
    OBVIOUS
  <2>1. PICK f \in [0..N -> S] : Upto(f, n)
    BY <1>2
  <2> DEFINE g == [f EXCEPT ![n + 1] = step[n + 1][f[n]]]
  <2>2. step[n + 1][f[n]] \in S
    OBVIOUS
  <2>3. g \in [0..N -> S] /\ g[n + 1] = step[n + 1][f[n]] /\ \A i \in 0..n : g[i] = f[i]
    BY <2>2
  <2> HIDE DEF g
  <2>4. \A i \in 1..n + 1 : g[i] = step[i][g[i - 1]]
    <3> SUFFICES ASSUME NEW i \in 1..n + 1 PROVE g[i] = step[i][g[i - 1]]
      OBVIOUS
    <3>1. i - 1 \in 0..n /\ g[i - 1] = f[i - 1]
      BY <2>3
    <3>2. CASE i = n + 1
      BY <2>3, <3>1, <3>2
    <3>3. CASE i \in 1..n
      BY <2>1, <2>3, <3>1, <3>3
    <3> QED BY <3>2, <3>3
  <2> QED BY <2>1, <2>3, <2>4
<1>3. Nat \subseteq G
  <2> HIDE DEF G
  <2> QED BY <1>1, <1>2, NatSetInduction
<1>4. N \in G
  BY <1>3
<1> QED BY <1>4

\* Min finds the least of a set of numbers.
LEMMA MinNat ==
  ASSUME NEW T \in SUBSET Nat, T # {}
  PROVE  Min(T) \in T /\ \A y \in T : Min(T) <= y
<1> DEFINE Less == OpToRel(<, Nat)
<1>1. \E n \in T : \A m \in T : ~ (<<m, n>> \in Less)
  BY WFMin, NatLessThanWellFounded, Zenon
<1>2. \A m, n \in Nat : m < n => <<m, n>> \in Less
  BY DEF OpToRel
<1> HIDE DEF Less
<1>3. PICK n \in T : \A m \in T : ~ (<<m, n>> \in Less)
  BY <1>1
<1>4. ASSUME NEW m \in T PROVE n <= m
  <2>1. ~(m < n)
    BY <1>2, <1>3
  <2> QED BY <2>1
<1> QED BY <1>4 DEF Min

\* The ends of an interval.
LEMMA Ends ==
  ASSUME NEW a \in Nat, NEW b \in Nat, a <= b
  PROVE  Min(a..b) = a /\ Max(a..b) = b
  BY DEF Min, Max

------------------------------------------------------------------------------
(* Where a report ends.                                                    *)

\* After its first line, within the cap and the log, with an end mark only as its
\* last line.
LEMMA ReportEndIs ==
  ASSUME NEW N \in Nat, NEW log, Len(log) = N, NEW i \in 1..N
  PROVE  /\ ReportEnd(log, i) \in (i + 1)..(N + 1)
         /\ ReportEnd(log, i) <= i + ReportCap
         /\ \A j \in (i + 1)..(ReportEnd(log, i) - 1) :
              log[j] \in Closing => j = ReportEnd(log, i) - 1
<1> DEFINE cap == Min({i + ReportCap, N + 1})
           marks == {j \in (i + 1)..(cap - 1) : log[j] \in Closing}
<1>1. cap \in Nat /\ i + 1 <= cap /\ cap <= N + 1 /\ cap <= i + ReportCap
  <2>1. ReportCap \in Nat /\ ReportCap >= 1
    BY ReportsAssumption
  <2>2. {i + ReportCap, N + 1} \in SUBSET Nat
    BY <2>1
  <2>3. cap \in {i + ReportCap, N + 1} /\ cap <= i + ReportCap /\ cap <= N + 1
    BY <2>2, MinNat
  <2> QED BY <2>1, <2>3
<1>2. ReportEnd(log, i) = IF marks = {} THEN cap ELSE Min(marks) + 1
  BY DEF ReportEnd
<1> HIDE DEF cap
<1>3. CASE marks = {}
  <2>1. ReportEnd(log, i) = cap
    BY <1>2, <1>3
  <2>2. \A j \in (i + 1)..(cap - 1) : log[j] \notin Closing
    BY <1>3
  <2>3. cap \in (i + 1)..(N + 1)
    BY <1>1
  <2> DEFINE e == ReportEnd(log, i)
  <2> HIDE DEF marks, e
  <2>4. e = cap
    BY <2>1 DEF e
  <2>5. e \in (i + 1)..(N + 1) /\ e <= i + ReportCap
    BY <1>1, <2>3, <2>4
  <2>6. \A j \in (i + 1)..(e - 1) : log[j] \notin Closing
    BY <2>2, <2>4
  <2>7. \A j \in (i + 1)..(e - 1) : log[j] \in Closing => j = e - 1
    BY <2>6
  <2> QED BY <2>5, <2>7 DEF e
<1>4. CASE marks # {}
  <2>1. marks \in SUBSET Nat
    BY <1>1
  <2>2. Min(marks) \in marks /\ \A y \in marks : Min(marks) <= y
    BY <1>4, <2>1, MinNat
  <2> DEFINE m == Min(marks)
  <2>3. m \in (i + 1)..(cap - 1)
    BY <2>2
  <2>4. ReportEnd(log, i) = m + 1
    BY <1>2, <1>4
  <2>5. ASSUME NEW j \in (i + 1)..m, log[j] \in Closing
        PROVE  j = m
    <3>1. j \in marks
      BY <1>1, <2>3, <2>5
    <3> QED BY <2>2, <2>3, <3>1
  <2> DEFINE e == ReportEnd(log, i)
  <2> HIDE DEF m, marks, e
  <2>6. e = m + 1
    BY <2>4 DEF e
  <2>7. e \in (i + 1)..(N + 1) /\ e <= i + ReportCap /\ e - 1 = m
    <3>1. ReportCap \in Nat
      BY ReportsAssumption
    <3> QED BY <1>1, <2>3, <2>6, <3>1
  <2>8. \A j \in (i + 1)..(e - 1) : log[j] \in Closing => j = e - 1
    BY <2>5, <2>7
  <2> QED BY <2>7, <2>8 DEF e
<1> QED BY <1>3, <1>4

------------------------------------------------------------------------------
(* What a report shows.                                                    *)

LinesOfReport(r) == Range(r.head \o r.trace)

\* The lines it shows are those up to its end; the call stack is not in its head.
LEMMA ReportShows ==
  ASSUME NEW N \in Nat, NEW log, Len(log) = N, NEW i \in 1..N, log[i] = "BUG:"
  PROVE  LET r == Report(log, i) IN
         /\ LinesOfReport(r) = i..(ReportEnd(log, i) - 1)
         /\ r.head \in Seq(1..N) /\ r.head # <<>> /\ r.head[1] = i
         /\ \A l \in Range(r.head) : log[l] # "call_trace"
<1> DEFINE end == ReportEnd(log, i)
           stack == {j \in i..(end - 1) : log[j] = "call_trace"}
           split == IF stack = {} THEN end ELSE Min(stack)
           r == Report(log, i)
<1>1. end \in Nat /\ i + 1 <= end
  BY ReportEndIs
<1>2. r = [head |-> [k \in 1..(split - i) |-> i + k - 1],
           trace |-> [k \in 1..(end - split) |-> split + k - 1]]
  BY DEF Report
<1> HIDE DEF end
<1>3. split \in Nat /\ i + 1 <= split /\ split <= end
      /\ \A l \in i..(split - 1) : log[l] # "call_trace"
  <2>1. CASE stack = {}
    <3>1. split = end
      BY <2>1
    <3>2. \A l \in i..(end - 1) : log[l] # "call_trace"
      BY <2>1
    <3> HIDE DEF split, stack
    <3>3. split \in Nat /\ i + 1 <= split /\ split <= end
      BY <1>1, <3>1
    <3>4. \A l \in i..(split - 1) : log[l] # "call_trace"
      BY <3>1, <3>2
    <3> QED BY <3>3, <3>4
  <2>2. CASE stack # {}
    <3>1. stack \in SUBSET Nat
      BY <1>1
    <3>2. Min(stack) \in stack /\ \A y \in stack : Min(stack) <= y
      BY <2>2, <3>1, MinNat
    <3> DEFINE m == Min(stack)
    <3>3. m \in i..(end - 1) /\ m # i
      BY <3>2
    <3>4. ASSUME NEW l \in i..(m - 1) PROVE log[l] # "call_trace"
      <4>1. l \in i..(end - 1) /\ ~(m <= l)
        BY <1>1, <3>3
      <4> QED BY <3>2, <4>1
    <3>5. split = m
      BY <2>2
    <3> HIDE DEF m, split, stack
    <3>6. split \in Nat /\ i + 1 <= split /\ split <= end
      BY <1>1, <3>3, <3>5
    <3>7. \A l \in i..(split - 1) : log[l] # "call_trace"
      BY <3>4, <3>5
    <3> QED BY <3>6, <3>7
  <2> QED BY <2>1, <2>2
<1> HIDE DEF split, r
<1> DEFINE h == r.head  t == r.trace
<1>4. /\ h = [k \in 1..(split - i) |-> i + k - 1]
      /\ t = [k \in 1..(end - split) |-> split + k - 1]
  BY <1>2
<1> HIDE DEF h, t
<1>5. h \in Seq(Nat) /\ t \in Seq(Nat) /\ Len(h) = split - i /\ Len(t) = end - split
  BY <1>1, <1>3, <1>4
<1>6. DOMAIN (h \o t) = 1..(end - i)
      /\ \A k \in 1..(end - i) : (h \o t)[k] = i + k - 1
  <2>1. Len(h \o t) = end - i /\ h \o t \in Seq(Nat)
    BY <1>1, <1>3, <1>5
  <2>2. ASSUME NEW k \in 1..(end - i) PROVE (h \o t)[k] = i + k - 1
    <3>1. CASE k <= split - i
      <4>1. k \in 1..(split - i)
        BY <1>1, <1>3, <3>1
      <4>2. (h \o t)[k] = h[k]
        BY <1>1, <1>3, <1>5, <4>1, ConcatProperties
      <4> QED BY <1>4, <4>1, <4>2
    <3>2. CASE k > split - i
      <4>1. (h \o t)[k] = t[k - (split - i)]
        <5>1. k \in 1..(Len(h) + Len(t)) /\ ~(k <= Len(h))
          BY <1>1, <1>3, <1>5, <3>2
        <5>2. \A j \in 1..(Len(h) + Len(t)) :
                (h \o t)[j] = IF j <= Len(h) THEN h[j] ELSE t[j - Len(h)]
          BY <1>5, ConcatProperties
        <5>3. (h \o t)[k] = t[k - Len(h)]
          BY <5>1, <5>2
        <5> QED BY <1>5, <5>3
      <4>2. k - (split - i) \in 1..(end - split)
        BY <1>1, <1>3, <3>2
      <4>3. t[k - (split - i)] = split + (k - (split - i)) - 1
        BY <1>4, <4>2
      <4>4. split + (k - (split - i)) - 1 = i + k - 1
        BY <1>1, <1>3
      <4> QED BY <4>1, <4>3, <4>4
    <3>3. k <= split - i \/ k > split - i
      BY <1>1, <1>3
    <3> QED BY <3>1, <3>2, <3>3
  <2> QED BY <2>1, <2>2
<1>7. Range(h \o t) = i..(end - 1)
  <2>1. \A k \in 1..(end - i) : (h \o t)[k] \in i..(end - 1)
    BY <1>1, <1>6
  <2>2. ASSUME NEW l \in i..(end - 1) PROVE \E k \in 1..(end - i) : (h \o t)[k] = l
    <3>1. l - i + 1 \in 1..(end - i) /\ i + (l - i + 1) - 1 = l
      BY <1>1
    <3> QED BY <1>6, <3>1
  <2> QED BY <1>6, <2>1, <2>2 DEF Range
<1>8. h \in Seq(1..N) /\ h # <<>> /\ h[1] = i
  <2>1. \A k \in 1..(split - i) : i + k - 1 \in 1..N
    <3>1. end <= N + 1
      BY ReportEndIs DEF end
    <3> QED BY <1>1, <1>3, <3>1
  <2>2. h \in Seq(1..N)
    BY <1>1, <1>3, <1>4, <2>1
  <2>3. 1 \in 1..(split - i)
    BY <1>1, <1>3
  <2>4. DOMAIN h = 1..(split - i)
    BY <1>4
  <2>5. h # <<>>
    <3>1. DOMAIN <<>> = {} /\ DOMAIN h # {}
      BY <2>3, <2>4
    <3> QED BY <3>1, Zenon
  <2> QED BY <1>4, <2>2, <2>3, <2>5
<1>9. \A l \in Range(h) : log[l] # "call_trace"
  <2> SUFFICES ASSUME NEW k \in 1..(split - i) PROVE log[h[k]] # "call_trace"
    BY <1>4 DEF Range
  <2>1. h[k] = i + k - 1 /\ i + k - 1 \in i..(split - 1)
    BY <1>3, <1>4
  <2> QED BY <1>3, <2>1
<1> QED BY <1>7, <1>8, <1>9 DEF LinesOfReport, h, t, r, end
------------------------------------------------------------------------------
(* The scan of dmesg_reports.                                              *)

\* The reports from line i on, given those from each later line.
Scanned(log, f, i) ==
  IF i > Len(log) THEN <<>>
  ELSE IF log[i] = "BUG:" THEN <<Report(log, i)>> \o f[ReportEnd(log, i)]
  ELSE f[i + 1]
Scan(log) == CHOOSE f : f = [i \in 1..(Len(log) + 1) |-> Scanned(log, f, i)]

\* dmesg_reports is that scan from the first line.
LEMMA ReportsAreScan ==
  ASSUME NEW log
  PROVE  dmesg_reports(log) = Scan(log)[1]
BY DEF dmesg_reports, Scan, Scanned

\* The scan is a function: it only ever goes on from a later line.
LEMMA ScanExists ==
  ASSUME NEW N \in Nat, NEW log, Len(log) = N
  PROVE  \A i \in 1..(N + 1) : Scan(log)[i] = Scanned(log, Scan(log), i)
<1> DEFINE Down(f, n) == \A i \in 1..(N + 1) : i >= N + 1 - n => f[i] = Scanned(log, f, i)
           G == {n \in Nat : \E f : Down(f, n)}
<1>1. \A i \in 1..N : /\ ReportEnd(log, i) \in 1..(N + 1) /\ ReportEnd(log, i) >= i + 1
                      /\ i + 1 \in 1..(N + 1)
  BY ReportEndIs
<1>2. 0 \in G
  <2>1. \A i \in 1..(N + 1) : i >= N + 1 - 0 => <<>> = Scanned(log, [k \in 1..(N + 1) |-> <<>>], i)
    BY DEF Scanned
  <2>2. Down([k \in 1..(N + 1) |-> <<>>], 0)
    BY <2>1
  <2> QED BY <2>2
<1>3. ASSUME NEW n \in Nat, n \in G PROVE n + 1 \in G
  <2>1. PICK f : Down(f, n)
    BY <1>3
  <2> DEFINE g == [i \in 1..(N + 1) |-> Scanned(log, f, i)]
  <2>2. \A i \in 1..(N + 1) : g[i] = Scanned(log, f, i)
    OBVIOUS
  <2>3. \A i \in 1..(N + 1) : i >= N + 1 - n => g[i] = f[i]
    BY <2>1, <2>2
  <2> HIDE DEF g
  <2>4. ASSUME NEW i \in 1..(N + 1), i >= N + 1 - (n + 1)
        PROVE  Scanned(log, f, i) = Scanned(log, g, i)
    <3>1. CASE i = N + 1
      BY <3>1 DEF Scanned
    <3>2. CASE i \in 1..N
      <4>1. /\ ReportEnd(log, i) >= N + 1 - n /\ i + 1 >= N + 1 - n
        BY <1>1, <2>4, <3>2
      <4>2. f[ReportEnd(log, i)] = g[ReportEnd(log, i)] /\ f[i + 1] = g[i + 1]
        BY <1>1, <2>3, <3>2, <4>1
      <4> QED BY <4>2 DEF Scanned
    <3>3. i = N + 1 \/ i \in 1..N
      OBVIOUS
    <3> QED BY <3>1, <3>2, <3>3
  <2>5. Down(g, n + 1)
    BY <2>2, <2>4
  <2> QED BY <2>5
<1>4. Nat \subseteq G
  <2> HIDE DEF G
  <2> QED BY <1>2, <1>3, NatSetInduction
<1>5. PICK f : Down(f, N)
  BY <1>4
<1>6. \A i \in 1..(N + 1) : f[i] = Scanned(log, f, i)
  BY <1>5
<1> DEFINE h == [i \in 1..(N + 1) |-> f[i]]
<1>7. \A i \in 1..(N + 1) : Scanned(log, f, i) = Scanned(log, h, i)
  <2> SUFFICES ASSUME NEW i \in 1..(N + 1) PROVE Scanned(log, f, i) = Scanned(log, h, i)
    OBVIOUS
  <2>1. CASE i = N + 1
    BY <2>1 DEF Scanned
  <2>2. CASE i \in 1..N
    BY <1>1, <2>2 DEF Scanned
  <2>3. i = N + 1 \/ i \in 1..N
    OBVIOUS
  <2> QED BY <2>1, <2>2, <2>3
<1>8. h = [i \in 1..(N + 1) |-> Scanned(log, h, i)]
  BY <1>6, <1>7
<1> HIDE DEF h
<1>9. Scan(log) = [i \in 1..(N + 1) |-> Scanned(log, Scan(log), i)]
  BY <1>8 DEF Scan
<1> DEFINE a == Scan(log)
<1>10. a = [i \in 1..(N + 1) |-> Scanned(log, a, i)]
  BY <1>9
<1> HIDE DEF a
<1>11. \A i \in 1..(N + 1) : a[i] = Scanned(log, a, i)
  BY <1>10
<1> QED BY <1>11 DEF a

\* q holds the reports of the lines from i on: each begins with a BUG line there, and
\* each such line is in one of them.
Reports(log) == {Report(log, s) : s \in 1..Len(log)}
Covers(log, q, i) ==
  /\ q \in Seq(Reports(log))
  /\ \A k \in DOMAIN q : \E s \in i..Len(log) : log[s] = "BUG:" /\ q[k] = Report(log, s)
  /\ \A j \in i..Len(log) : log[j] = "BUG:" =>
       \E k \in DOMAIN q : \A k2 \in DOMAIN q : j \in LinesOfReport(q[k2]) <=> k2 = k

\* The report of a BUG line, before those from its end on.
LEMMA CoversReport ==
  ASSUME NEW N \in Nat, NEW log, Len(log) = N, NEW i \in 1..N, log[i] = "BUG:",
         NEW q, Covers(log, q, ReportEnd(log, i))
  PROVE  Covers(log, <<Report(log, i)>> \o q, i)
<1> DEFINE end == ReportEnd(log, i)
           r == Report(log, i)
           p == <<r>> \o q
<1>1. end \in (i + 1)..(N + 1)
  BY ReportEndIs
<1>2. LinesOfReport(r) = i..(end - 1)
  BY ReportShows
<1>3. q \in Seq(Reports(log)) /\ r \in Reports(log)
  BY DEF Covers, Reports
<1>4. \A k \in DOMAIN q : \E s \in end..N : log[s] = "BUG:" /\ q[k] = Report(log, s)
  BY DEF Covers
<1>5. \A j \in end..N : log[j] = "BUG:" =>
        \E k \in DOMAIN q : \A k2 \in DOMAIN q : j \in LinesOfReport(q[k2]) <=> k2 = k
  BY DEF Covers
<1>6. Len(q) \in Nat /\ DOMAIN q = 1..Len(q)
  BY <1>3
<1> DEFINE L == Len(q)
<1>7. /\ p \in Seq(Reports(log)) /\ DOMAIN p = 1..(L + 1) /\ p[1] = r
      /\ \A k \in 1..L : p[k + 1] = q[k]
  <2> HIDE DEF r
  <2> QED BY <1>3
<1> HIDE DEF end, r, p, L
<1>8. \A k \in 2..(L + 1) : k - 1 \in DOMAIN q /\ p[k] = q[k - 1]
  <2> SUFFICES ASSUME NEW k \in 2..(L + 1) PROVE k - 1 \in DOMAIN q /\ p[k] = q[k - 1]
    OBVIOUS
  <2>1. L \in Nat /\ DOMAIN q = 1..L
    BY <1>6 DEF L
  <2>2. k - 1 \in 1..L /\ k - 1 + 1 = k
    BY <2>1
  <2> QED BY <1>7, <2>1, <2>2
<1>9. ASSUME NEW j \in i..(end - 1), NEW k \in 2..(L + 1)
      PROVE  j \notin LinesOfReport(p[k])
  <2>1. PICK s \in end..N : log[s] = "BUG:" /\ p[k] = Report(log, s)
    BY <1>4, <1>8
  <2>2. s \in 1..N
    BY <1>1, <2>1
  <2>3. LinesOfReport(p[k]) = s..(ReportEnd(log, s) - 1)
    BY <2>1, <2>2, ReportShows
  <2>4. ReportEnd(log, s) \in (s + 1)..(N + 1)
    BY <2>2, ReportEndIs
  <2> QED BY <1>1, <2>1, <2>3, <2>4
<1>10. ASSUME NEW k \in DOMAIN p
       PROVE  \E s \in i..N : log[s] = "BUG:" /\ p[k] = Report(log, s)
  <2>1. CASE k = 1
    <3>1. i \in i..N
      OBVIOUS
    <3> QED BY <1>7, <2>1, <3>1 DEF r
  <2>2. CASE k # 1
    <3>1. k \in 2..(L + 1)
      BY <1>6, <1>7, <2>2 DEF L
    <3>2. PICK s \in end..N : log[s] = "BUG:" /\ p[k] = Report(log, s)
      BY <1>4, <1>8, <3>1
    <3>3. s \in i..N
      BY <1>1
    <3> QED BY <3>2, <3>3
  <2> QED BY <2>1, <2>2
<1>11. ASSUME NEW j \in i..N, log[j] = "BUG:"
       PROVE  \E k \in DOMAIN p : \A k2 \in DOMAIN p : j \in LinesOfReport(p[k2]) <=> k2 = k
  <2>0. L \in Nat /\ \A k \in DOMAIN p : k = 1 \/ k \in 2..(L + 1)
    BY <1>6, <1>7 DEF L
  <2>1. CASE j < end
    <3>1. j \in i..(end - 1)
      BY <1>1, <2>1
    <3>2. 1 \in DOMAIN p /\ j \in LinesOfReport(p[1])
      BY <1>2, <1>7, <2>0, <3>1
    <3>3. \A k \in 2..(L + 1) : j \notin LinesOfReport(p[k]) /\ k # 1
      BY <1>9, <2>0, <3>1
    <3> QED BY <2>0, <3>2, <3>3
  <2>2. CASE j >= end
    <3>1. j \in end..N /\ j \notin i..(end - 1)
      BY <1>1, <2>2
    <3>2. PICK k \in DOMAIN q : \A k2 \in DOMAIN q : j \in LinesOfReport(q[k2]) <=> k2 = k
      BY <1>5, <1>11, <3>1
    <3>3. k \in 1..L /\ k + 1 \in DOMAIN p /\ p[k + 1] = q[k]
      BY <1>6, <1>7, <2>0 DEF L
    <3>4. ASSUME NEW k2 \in DOMAIN p PROVE j \in LinesOfReport(p[k2]) <=> k2 = k + 1
      <4>1. CASE k2 = 1
        <5>1. j \notin LinesOfReport(p[k2])
          BY <1>2, <1>7, <3>1, <4>1
        <5>2. k2 # k + 1
          BY <3>3, <4>1
        <5> QED BY <5>1, <5>2
      <4>2. CASE k2 \in 2..(L + 1)
        <5>1. j \in LinesOfReport(p[k2]) <=> k2 - 1 = k
          BY <1>8, <3>2, <4>2
        <5> QED BY <3>3, <4>2, <5>1
      <4> QED BY <2>0, <4>1, <4>2
    <3> QED BY <3>3, <3>4
  <2>3. j < end \/ j >= end
    BY <1>1
  <2> QED BY <2>1, <2>2, <2>3
<1>12. Covers(log, p, i)
  BY <1>7, <1>10, <1>11 DEF Covers
<1> QED BY <1>12 DEF p, r
\* What the scan finds from any line on covers the BUG lines from there on.
LEMMA ScanCovers ==
  ASSUME NEW N \in Nat, NEW log, Len(log) = N
  PROVE  Covers(log, dmesg_reports(log), 1)
<1> DEFINE G == {n \in Nat : \A i \in 1..(N + 1) : i >= N + 1 - n => Covers(log, Scan(log)[i], i)}
<1>1. 0 \in G
  <2> SUFFICES ASSUME NEW i \in 1..(N + 1), i >= N + 1 - 0
               PROVE  Covers(log, Scan(log)[i], i)
    OBVIOUS
  <2>1. i > Len(log) /\ i..Len(log) = {}
    OBVIOUS
  <2>2. Scan(log)[i] = <<>>
    BY <2>1, ScanExists DEF Scanned
  <2>3. DOMAIN <<>> = {} /\ <<>> \in Seq(Reports(log))
    OBVIOUS
  <2> QED BY <2>1, <2>2, <2>3 DEF Covers
<1>2. ASSUME NEW n \in Nat, n \in G PROVE n + 1 \in G
  <2> SUFFICES ASSUME NEW i \in 1..(N + 1), i >= N + 1 - (n + 1)
               PROVE  Covers(log, Scan(log)[i], i)
    OBVIOUS
  <2>1. CASE i >= N + 1 - n
    BY <1>2, <2>1
  <2>2. CASE i = N + 1 - (n + 1)
    <3>1. i \in 1..N /\ ~(i > Len(log)) /\ i + 1 \in 1..(N + 1)
      BY <2>2
    <3>2. Scan(log)[i] = Scanned(log, Scan(log), i)
      BY ScanExists
    <3>3. CASE log[i] = "BUG:"
      <4>1. ReportEnd(log, i) \in (i + 1)..(N + 1)
        BY <3>1, ReportEndIs
      <4>2. ReportEnd(log, i) \in 1..(N + 1) /\ ReportEnd(log, i) >= N + 1 - n
        BY <2>2, <3>1, <4>1
      <4>3. Covers(log, Scan(log)[ReportEnd(log, i)], ReportEnd(log, i))
        BY <1>2, <4>2
      <4>4. Covers(log, <<Report(log, i)>> \o Scan(log)[ReportEnd(log, i)], i)
        BY <3>1, <3>3, <4>3, CoversReport
      <4> QED BY <3>1, <3>2, <3>3, <4>4 DEF Scanned
    <3>4. CASE log[i] # "BUG:"
      <4>1. Covers(log, Scan(log)[i + 1], i + 1)
        <5>1. i + 1 >= N + 1 - n
          BY <2>2
        <5> QED BY <1>2, <3>1, <5>1
      <4>2. Scan(log)[i] = Scan(log)[i + 1]
        BY <3>1, <3>2, <3>4 DEF Scanned
      <4>3. \A j \in i..N : log[j] = "BUG:" => j \in (i + 1)..N
        BY <3>4
      <4>4. \A j \in (i + 1)..N : j \in i..N
        OBVIOUS
      <4> QED BY <4>1, <4>2, <4>3, <4>4 DEF Covers
    <3> QED BY <3>3, <3>4
  <2> QED BY <2>1, <2>2
<1>3. Nat \subseteq G
  <2> HIDE DEF G
  <2> QED BY <1>1, <1>2, NatSetInduction
<1>4. N \in G
  BY <1>3
<1>5. Covers(log, Scan(log)[1], 1)
  BY <1>4
<1> QED BY <1>5, ReportsAreScan

------------------------------------------------------------------------------
(* The kernel log.                                                         *)

\* The text under the kernel log's reader is a sequence of lines.
KernelLog == reading = "dmesg" => text \in Seq(Lines)

\* Lines are only ever added to the kernel log.
LEMMA KernelLogInvariant == Spec => []KernelLog
<1>1. Init => KernelLog
  BY DEF Init, KernelLog
<1>2. KernelLog /\ [Next]_vars => KernelLog'
  <2> SUFFICES ASSUME KernelLog, [Next]_vars, reading' = "dmesg" PROVE text' \in Seq(Lines)
    BY DEF KernelLog
  <2>1. CASE KernelLogs
    <3>1. text \in Seq(Lines)
      BY <2>1 DEF KernelLogs, KernelLog
    <3>2. PICK l \in {"BUG:", "call_trace", "end_trace", "bar", "quiet"} : text' = Append(text, l)
      BY <2>1 DEF KernelLogs
    <3>3. l \in Lines
      BY DEF Lines
    <3> QED BY <3>1, <3>2, <3>3
  <2>2. CASE JobLogs
    BY <2>2 DEF JobLogs
  <2>3. CASE BundleGrows
    BY <2>3 DEF BundleGrows
  <2>4. CASE UNCHANGED vars
    BY <2>4 DEF vars, KernelLog
  <2> QED BY <2>1, <2>2, <2>3, <2>4 DEF Next
<1> QED BY <1>1, <1>2, PTL DEF Spec

\* In any log, however long and whatever the cap, every BUG line is in exactly one
\* report, and a report is a run of lines that begins with one, ends at the first
\* end mark after it and keeps the call stack out of its head.
LEMMA LogIsCovered ==
  ASSUME NEW N \in Nat, NEW log, Len(log) = N, DOMAIN log = 1..N,
         reading = "dmesg", text = log
  PROVE  ReportsCover
<1> DEFINE q == dmesg_reports(log)
           lines(r) == Range(r.head \o r.trace)
<1>1. Covers(log, q, 1)
  BY ScanCovers
<1> HIDE DEF q
<1>2. ASSUME NEW i \in DOMAIN log, log[i] = "BUG:"
      PROVE  Cardinality({k \in DOMAIN q : i \in lines(q[k])}) = 1
  <2>0. i \in 1..Len(log)
    OBVIOUS
  <2>1. PICK k \in DOMAIN q : \A k2 \in DOMAIN q : i \in LinesOfReport(q[k2]) <=> k2 = k
    BY <1>1, <1>2, <2>0 DEF Covers
  <2>2. {k2 \in DOMAIN q : i \in lines(q[k2])} = {k}
    BY <2>1 DEF LinesOfReport
  <2> QED BY <2>2, FS_Singleton
<1>3. ASSUME NEW k \in DOMAIN q
      PROVE  LET ls == lines(q[k]) IN
             /\ ls = Min(ls)..Max(ls) /\ Cardinality(ls) <= ReportCap
             /\ log[Min(ls)] = "BUG:" /\ Min(ls) = q[k].head[1]
             /\ \A i \in ls : log[i] \in Closing => i = Max(ls)
             /\ \A i \in Range(q[k].head) : log[i] # "call_trace"
  <2>1. PICK s \in 1..N : log[s] = "BUG:" /\ q[k] = Report(log, s)
    BY <1>1 DEF Covers
  <2> DEFINE ls == lines(q[k])
             e == ReportEnd(log, s) - 1
  <2>2. /\ ls = s..e /\ q[k].head[1] = s
        /\ \A i \in Range(q[k].head) : log[i] # "call_trace"
    BY <2>1, ReportShows DEF LinesOfReport
  <2>3. /\ e \in s..N /\ e <= s + ReportCap - 1
        /\ \A i \in (s + 1)..e : log[i] \in Closing => i = e
    <3>1. ReportCap \in Nat
      BY ReportsAssumption
    <3> DEFINE end == ReportEnd(log, s)
    <3>2. end \in (s + 1)..(N + 1) /\ end <= s + ReportCap
          /\ \A i \in (s + 1)..(end - 1) : log[i] \in Closing => i = end - 1
      BY ReportEndIs
    <3> HIDE DEF end
    <3>3. end - 1 \in s..N /\ end - 1 <= s + ReportCap - 1
      BY <3>1, <3>2
    <3> QED BY <3>2, <3>3 DEF end
  <2> HIDE DEF ls, e
  <2>4. Min(ls) = s /\ Max(ls) = e
    BY <2>2, <2>3, Ends
  <2>5. Cardinality(ls) = e - s + 1
    BY <2>2, <2>3, FS_Interval
  <2>6. Cardinality(ls) <= ReportCap
    BY <2>3, <2>5, ReportsAssumption
  <2>7. \A i \in ls : log[i] \in Closing => i = e
    <3>1. log[s] \notin Closing
      BY <2>1 DEF Closing
    <3>2. \A i \in s..e : i = s \/ i \in (s + 1)..e
      BY <2>3
    <3> QED BY <2>2, <2>3, <3>1, <3>2
  <2> QED BY <2>1, <2>2, <2>4, <2>6, <2>7 DEF ls
<1> QED BY <1>2, <1>3 DEF ReportsCover, q

\* Every reachable kernel log is so cut into reports: no BUG line is lost or shown
\* twice (dmesg_reports).
THEOREM ReportsCoverHolds == Spec => []ReportsCover
<1>1. KernelLog => ReportsCover
  <2> SUFFICES ASSUME reading = "dmesg", text \in Seq(Lines) PROVE ReportsCover
    BY DEF KernelLog, ReportsCover
  <2>1. Len(text) \in Nat /\ DOMAIN text = 1..Len(text)
    OBVIOUS
  <2> QED BY <2>1, LogIsCovered
<1> QED BY <1>1, KernelLogInvariant, PTL

------------------------------------------------------------------------------
(* The fences of a bundle.                                                 *)

\* What the server's reader has open after each line.
LEMMA OpenFenceRec ==
  ASSUME NEW b \in Seq(BundleLines)
  PROVE  LET f == OpenFence(b) IN
         /\ f[0] = 0
         /\ \A i \in 1..Len(b) :
              f[i] = IF f[i - 1] = 0 THEN Ticks(b[i])
                     ELSE IF Bare(b[i]) /\ Ticks(b[i]) >= f[i - 1] THEN 0 ELSE f[i - 1]
<1> DEFINE N == Len(b)
           S == {0, 3, 4}
           Next1(v, l) == IF v = 0 THEN Ticks(l)
                          ELSE IF Bare(l) /\ Ticks(l) >= v THEN 0 ELSE v
           step == [i \in 1..N |-> [v \in S |-> Next1(v, b[i])]]
           Eqn(f) == [i \in 0..N |-> IF i = 0 THEN 0 ELSE Next1(f[i - 1], b[i])]
<1>1. N \in Nat /\ 0 \in S
  OBVIOUS
<1>2. \A i \in 1..N, v \in S : Next1(v, b[i]) \in S
  BY DEF Ticks
<1>3. step \in Steps(N, S)
  BY <1>2 DEF Steps
<1>4. \E f : Iterates(f, N, S, 0, step)
  <2> HIDE DEF step, S, N
  <2> QED BY <1>1, <1>3, PrimitiveRecursion
<1>5. PICK f \in [0..N -> S] : f[0] = 0 /\ \A i \in 1..N : f[i] = step[i][f[i - 1]]
  BY <1>4 DEF Iterates
<1>6. \A i \in 1..N : f[i] = Next1(f[i - 1], b[i])
  <2> SUFFICES ASSUME NEW i \in 1..N PROVE f[i] = Next1(f[i - 1], b[i])
    OBVIOUS
  <2>1. i - 1 \in 0..N
    BY <1>1
  <2>2. f[i - 1] \in S
    BY <1>5, <2>1
  <2> HIDE DEF Next1, S
  <2> QED BY <1>5, <2>2
<1> HIDE DEF N, S, step, Next1
<1>7. f = Eqn(f)
  <2>1. \A i \in 0..N : i = 0 \/ i \in 1..N
    BY <1>1
  <2> QED BY <1>5, <1>6, <2>1
<1> HIDE DEF Eqn
<1>8. OpenFence(b) = CHOOSE g : g = Eqn(g)
  BY DEF OpenFence, Eqn, Next1, N
<1> DEFINE g == OpenFence(b)
<1>9. g = Eqn(g)
  <2> HIDE DEF g
  <2>1. g = CHOOSE h : h = Eqn(h)
    BY <1>8 DEF g
  <2> QED BY <1>7, <2>1
<1> HIDE DEF g
<1>10. g[0] = 0 /\ \A i \in 1..N : g[i] = Next1(g[i - 1], b[i])
  <2>1. 0 \in 0..N /\ \A i \in 1..N : i \in 0..N /\ i # 0
    BY <1>1
  <2> QED BY <1>9, <2>1 DEF Eqn
<1> QED BY <1>10 DEF g, N, Next1

\* Whether the pipeline's reader is in a fence after each line.
LEMMA InBlockRec ==
  ASSUME NEW b \in Seq(BundleLines)
  PROVE  LET f == InBlock(b) IN
         /\ ~f[0]
         /\ \A i \in 1..Len(b) :
              f[i] <=> IF f[i - 1] THEN ~Bare(b[i]) ELSE Ticks(b[i]) # 0
<1> DEFINE N == Len(b)
           S == BOOLEAN
           Next1(v, l) == IF v THEN ~Bare(l) ELSE Ticks(l) # 0
           step == [i \in 1..N |-> [v \in S |-> Next1(v, b[i])]]
           Eqn(f) == [i \in 0..N |-> IF i = 0 THEN FALSE ELSE Next1(f[i - 1], b[i])]
<1>1. N \in Nat /\ FALSE \in S
  OBVIOUS
<1>2. \A i \in 1..N, v \in S : Next1(v, b[i]) \in S
  BY DEF Bare
<1>3. step \in Steps(N, S)
  <2> HIDE DEF Next1, S
  <2> QED BY <1>2 DEF Steps
<1>4. \E f : Iterates(f, N, S, FALSE, step)
  <2> HIDE DEF step, S, N
  <2> QED BY <1>1, <1>3, PrimitiveRecursion
<1>5. PICK f \in [0..N -> S] : f[0] = FALSE /\ \A i \in 1..N : f[i] = step[i][f[i - 1]]
  BY <1>4 DEF Iterates
<1>6. \A i \in 1..N : f[i] = Next1(f[i - 1], b[i])
  <2> SUFFICES ASSUME NEW i \in 1..N PROVE f[i] = Next1(f[i - 1], b[i])
    OBVIOUS
  <2>1. i - 1 \in 0..N
    BY <1>1
  <2>2. f[i - 1] \in S
    <3> HIDE DEF S
    <3> QED BY <1>5, <2>1
  <2> HIDE DEF Next1, S
  <2> QED BY <1>5, <2>2
<1> HIDE DEF N, S, step, Next1
<1>7. f = Eqn(f)
  <2>1. \A i \in 0..N : i = 0 \/ i \in 1..N
    BY <1>1
  <2> QED BY <1>5, <1>6, <2>1
<1> HIDE DEF Eqn
<1>8. InBlock(b) = CHOOSE g : g = Eqn(g)
  BY DEF InBlock, Eqn, Next1, N
<1> DEFINE g == InBlock(b)
<1>9. g = Eqn(g)
  <2> HIDE DEF g
  <2>1. g = CHOOSE h : h = Eqn(h)
    BY <1>8 DEF g
  <2> QED BY <1>7, <2>1
<1> HIDE DEF g
<1>10. g[0] = FALSE /\ \A i \in 1..N : g[i] = Next1(g[i - 1], b[i])
  <2>1. 0 \in 0..N /\ \A i \in 1..N : i \in 0..N /\ i # 0
    BY <1>1
  <2> QED BY <1>9, <2>1 DEF Eqn
<1> QED BY <1>10 DEF g, N, Next1

\* When no fence holds a shorter one, the two readers have a fence open after the same
\* lines.
LEMMA FencesAgree ==
  ASSUME NEW b \in Seq(BundleLines), NoShorterFence(b)
  PROVE  \A i \in 0..Len(b) : InBlock(b)[i] <=> OpenFence(b)[i] # 0
<1> DEFINE N == Len(b)
           f == OpenFence(b)
           g == InBlock(b)
           G == {n \in Nat : n <= N => (g[n] <=> f[n] # 0)}
<1>1. \A i \in 1..N : Bare(b[i]) => Ticks(b[i]) >= f[i - 1]
  BY DEF NoShorterFence
<1>2. f[0] = 0 /\ \A i \in 1..N :
        f[i] = IF f[i - 1] = 0 THEN Ticks(b[i])
               ELSE IF Bare(b[i]) /\ Ticks(b[i]) >= f[i - 1] THEN 0 ELSE f[i - 1]
  BY OpenFenceRec
<1>3. ~g[0] /\ \A i \in 1..N : g[i] <=> IF g[i - 1] THEN ~Bare(b[i]) ELSE Ticks(b[i]) # 0
  BY InBlockRec
<1> HIDE DEF f, g
<1>4. 0 \in G
  BY <1>2, <1>3
<1>5. ASSUME NEW n \in Nat, n \in G PROVE n + 1 \in G
  <2> SUFFICES ASSUME n + 1 <= N PROVE g[n + 1] <=> f[n + 1] # 0
    OBVIOUS
  <2>1. n + 1 \in 1..N /\ n + 1 - 1 = n /\ (g[n] <=> f[n] # 0)
    BY <1>5
  <2>2. f[n + 1] = IF f[n] = 0 THEN Ticks(b[n + 1])
                   ELSE IF Bare(b[n + 1]) /\ Ticks(b[n + 1]) >= f[n] THEN 0 ELSE f[n]
    BY <1>2, <2>1
  <2>3. g[n + 1] <=> IF g[n] THEN ~Bare(b[n + 1]) ELSE Ticks(b[n + 1]) # 0
    BY <1>3, <2>1
  <2>4. Bare(b[n + 1]) => Ticks(b[n + 1]) >= f[n]
    BY <1>1, <2>1
  <2>5. CASE f[n] = 0
    BY <2>1, <2>2, <2>3, <2>5
  <2>6. CASE f[n] # 0
    <3>1. f[n + 1] = IF Bare(b[n + 1]) THEN 0 ELSE f[n]
      BY <2>2, <2>4, <2>6
    <3> QED BY <2>1, <2>3, <2>6, <3>1
  <2> QED BY <2>5, <2>6
<1>6. Nat \subseteq G
  <2> HIDE DEF G
  <2> QED BY <1>4, <1>5, NatSetInduction
<1>7. \A i \in 0..N : g[i] <=> f[i] # 0
  BY <1>6
<1> QED BY <1>7 DEF f, g

\* They take the same lines for code.
LEMMA CodeAgrees ==
  ASSUME NEW b \in Seq(BundleLines), NoShorterFence(b)
  PROVE  WatchedCode(b) = RunnerCode(b)
<1>1. \A i \in 1..Len(b) : i - 1 \in 0..Len(b)
  OBVIOUS
<1>2. \A i \in 1..Len(b) : InBlock(b)[i - 1] <=> OpenFence(b)[i - 1] # 0
  BY <1>1, FencesAgree
<1> QED BY <1>2 DEF WatchedCode, RunnerCode

\* The block that leads the bundle is outside the fences, and so is the rule that
\* ends it.
LEMMA BlockIsNotCode ==
  ASSUME NEW b \in Seq(BundleLines), NEW a \in DOMAIN b, NEW c \in DOMAIN b,
         LeadingBlock(b, a, c)
  PROVE  \A i \in a..c : i \notin RunnerCode(b)
<1> DEFINE g == InBlock(b)
           N == Len(b)
           G == {n \in Nat : n <= c - a => ~g[a + n - 1]}
<1>0. /\ a \in 1..N /\ c \in 1..N /\ N \in Nat /\ a < c
      /\ b[a] = "rule" /\ b[c] = "rule" /\ a \notin RunnerCode(b)
      /\ \A i \in (a + 1)..(c - 1) : b[i] \in KeyValue
  BY DEF LeadingBlock
<1>1. \A i \in 1..N : g[i] <=> IF g[i - 1] THEN ~Bare(b[i]) ELSE Ticks(b[i]) # 0
  BY InBlockRec
<1>2. \A i \in a..c : i \in 1..N /\ Ticks(b[i]) = 0
  <2> SUFFICES ASSUME NEW i \in a..c PROVE i \in 1..N /\ Ticks(b[i]) = 0
    OBVIOUS
  <2>1. i \in 1..N /\ (i = a \/ i = c \/ i \in (a + 1)..(c - 1))
    BY <1>0
  <2>2. b[i] \in {"rule"} \cup KeyValue
    BY <1>0, <2>1
  <2> QED BY <2>1, <2>2 DEF Ticks, KeyValue
<1> HIDE DEF g, N
<1>3. 0 \in G
  <2>1. a \in 1..N /\ a + 0 - 1 = a - 1
    BY <1>0
  <2> QED BY <1>0, <2>1 DEF RunnerCode, g, N
<1>4. ASSUME NEW n \in Nat, n \in G PROVE n + 1 \in G
  <2> SUFFICES ASSUME n + 1 <= c - a PROVE ~g[a + (n + 1) - 1]
    OBVIOUS
  <2>1. ~g[a + n - 1]
    BY <1>0, <1>4
  <2>2. a + n \in a..c /\ a + (n + 1) - 1 = a + n
    BY <1>0
  <2>3. a + n \in 1..N /\ Ticks(b[a + n]) = 0
    BY <1>2, <2>2
  <2> QED BY <1>1, <2>1, <2>2, <2>3
<1>5. Nat \subseteq G
  <2> HIDE DEF G
  <2> QED BY <1>3, <1>4, NatSetInduction
<1>6. ASSUME NEW i \in a..c PROVE ~g[i - 1]
  <2>1. i - a \in Nat /\ i - a <= c - a /\ a + (i - a) - 1 = i - 1
    BY <1>0
  <2> QED BY <1>5, <2>1
<1> QED BY <1>2, <1>6 DEF RunnerCode, g

\* The rules outside fences begin with those of the block that leads the bundle.
LEMMA FirstRules ==
  ASSUME NEW b \in Seq(BundleLines), NEW a \in DOMAIN b, NEW c \in DOMAIN b,
         LeadingBlock(b, a, c)
  PROVE  LET D == {i \in 1..Len(b) : b[i] = "rule"} \ RunnerCode(b) IN
         /\ a \in D /\ c \in D /\ D \in SUBSET Nat
         /\ \A d \in D : d = a \/ d >= c
<1> DEFINE D == {i \in 1..Len(b) : b[i] = "rule"} \ RunnerCode(b)
<1>1. /\ a \in 1..Len(b) /\ c \in 1..Len(b) /\ Len(b) \in Nat /\ a < c
      /\ b[a] = "rule" /\ b[c] = "rule"
      /\ \A i \in (a + 1)..(c - 1) : b[i] \in KeyValue
      /\ \A i \in 1..(a - 1) : b[i] = "rule" => i \in RunnerCode(b)
  BY DEF LeadingBlock
<1>2. \A i \in a..c : i \notin RunnerCode(b)
  BY BlockIsNotCode
<1>3. a \in D /\ c \in D
  BY <1>1, <1>2
<1>4. ASSUME NEW d \in D PROVE d = a \/ d >= c
  <2>1. d \in 1..(a - 1) \/ d = a \/ d \in (a + 1)..(c - 1) \/ d >= c
    BY <1>1
  <2>2. d \notin 1..(a - 1)
    BY <1>1
  <2>3. d \notin (a + 1)..(c - 1)
    <3>1. b[d] \notin KeyValue
      BY DEF KeyValue
    <3> QED BY <1>1, <3>1
  <2> QED BY <2>1, <2>2, <2>3
<1> QED BY <1>1, <1>3, <1>4

\* The server has the patterns of that block.
LEMMA PatternsAreRead ==
  ASSUME NEW b \in Seq(BundleLines), NoShorterFence(b),
         NEW a \in DOMAIN b, NEW c \in DOMAIN b, LeadingBlock(b, a, c)
  PROVE  watched_patterns(b) = {i \in (a + 1)..(c - 1) : b[i] = "pattern"}
<1> DEFINE D == {i \in 1..Len(b) : b[i] = "rule"} \ RunnerCode(b)
           K == (a + 1)..(c - 1)
<1>1. a \in D /\ c \in D /\ D \in SUBSET Nat /\ (\A d \in D : d = a \/ d >= c) /\ a < c
  BY FirstRules DEF LeadingBlock
<1>2. D = {i \in 1..Len(b) : b[i] = "rule"} \ WatchedCode(b)
  BY CodeAgrees
<1>3. \A i \in K : i \notin WatchedCode(b)
  <2>1. \A i \in a..c : i \notin WatchedCode(b)
    BY BlockIsNotCode, CodeAgrees
  <2> QED BY <1>1, <2>1
<1> HIDE DEF D
<1>4. Min(D) = a
  <2>1. Min(D) \in D /\ \A y \in D : Min(D) <= y
    BY <1>1, MinNat
  <2> QED BY <1>1, <2>1
<1>5. D \ {a} # {} /\ Min(D \ {a}) = c
  <2>1. c \in D \ {a} /\ D \ {a} \in SUBSET Nat
    BY <1>1
  <2>2. Min(D \ {a}) \in D \ {a} /\ \A y \in D \ {a} : Min(D \ {a}) <= y
    BY <2>1, MinNat
  <2>3. Min(D \ {a}) >= c /\ Min(D \ {a}) <= c /\ Min(D \ {a}) \in Nat
    BY <1>1, <2>1, <2>2
  <2> QED BY <1>1, <2>1, <2>3
<1>6. watched_patterns(b) = {i \in K : b[i] = "pattern"} \ WatchedCode(b)
  <2>1. D # {}
    BY <1>1
  <2> QED BY <1>2, <1>4, <1>5, <2>1 DEF watched_patterns
<1> HIDE DEF K
<1>7. watched_patterns(b) = {i \in K : b[i] = "pattern"}
  BY <1>3, <1>6
<1> QED BY <1>7 DEF K

\* The pipeline takes that block if it has a key of its own, and else one behind it.
LEMMA MetadataIsRead ==
  ASSUME NEW b \in Seq(BundleLines), NEW a \in DOMAIN b, NEW c \in DOMAIN b,
         LeadingBlock(b, a, c)
  PROVE  LET M == {i \in (a + 1)..(c - 1) : b[i] = "meta"} IN
         /\ M # {} => parse_bundle(b) = M
         /\ M = {} => \A i \in parse_bundle(b) : i > c
<1> DEFINE D == {i \in 1..Len(b) : b[i] = "rule"} \ RunnerCode(b)
           inner(p) == (p[1] + 1)..(p[2] - 1)
           M == {i \in (a + 1)..(c - 1) : b[i] = "meta"}
           Pairs == {p \in D \X D :
             /\ p[1] < p[2] /\ \A d \in D : d <= p[1] \/ d >= p[2]
             /\ \A i \in inner(p) : b[i] \in KeyValue
             /\ \E i \in inner(p) : b[i] = "meta"}
           first == CHOOSE p \in Pairs : \A q \in Pairs : p[1] <= q[1]
<1>1. /\ a \in D /\ c \in D /\ D \in SUBSET Nat /\ (\A d \in D : d = a \/ d >= c) /\ a < c
      /\ \A i \in (a + 1)..(c - 1) : b[i] \in KeyValue
  BY FirstRules DEF LeadingBlock
<1>2. parse_bundle(b) = IF Pairs = {} THEN {} ELSE {i \in inner(first) : b[i] = "meta"}
  BY DEF parse_bundle
<1> HIDE DEF D
<1>3. ASSUME NEW p \in Pairs PROVE (p[1] = a /\ p[2] = c) \/ p[1] >= c
  <2>1. p[1] \in D /\ p[2] \in D /\ p[1] < p[2] /\ (c <= p[1] \/ c >= p[2])
    BY <1>1
  <2>2. p[1] \in Nat /\ p[2] \in Nat /\ a \in Nat /\ c \in Nat
    BY <1>1, <2>1
  <2>3. (p[1] = a \/ p[1] >= c) /\ (p[2] = a \/ p[2] >= c)
    BY <1>1, <2>1
  <2> QED BY <1>1, <2>1, <2>2, <2>3
<1>4. Pairs # {} => first \in Pairs /\ \A q \in Pairs : first[1] <= q[1]
  <2> SUFFICES ASSUME Pairs # {}
               PROVE  \E p \in Pairs : \A q \in Pairs : p[1] <= q[1]
    BY Zenon
  <2> DEFINE F == {p[1] : p \in Pairs}
  <2>1. F \in SUBSET Nat /\ F # {}
    BY <1>1
  <2>2. Min(F) \in F /\ \A y \in F : Min(F) <= y
    BY <2>1, MinNat
  <2>3. PICK p \in Pairs : p[1] = Min(F)
    BY <2>2
  <2>4. ASSUME NEW q \in Pairs PROVE p[1] <= q[1]
    <3>1. q[1] \in F
      OBVIOUS
    <3> HIDE DEF Pairs, F
    <3> QED BY <2>2, <2>3, <3>1
  <2> HIDE DEF Pairs
  <2> QED BY <2>4
<1>5. ASSUME M # {} PROVE parse_bundle(b) = M
  <2>1. <<a, c>> \in Pairs
    BY <1>1, <1>5
  <2>2. first \in Pairs /\ first[1] <= a
    <3> HIDE DEF first, Pairs
    <3>1. first \in Pairs /\ first[1] <= <<a, c>>[1]
      BY <1>4, <2>1
    <3> QED BY <3>1
  <2>3. first[1] = a /\ first[2] = c
    <3> HIDE DEF first
    <3>1. first[1] \in Nat
      BY <1>1, <2>2
    <3> QED BY <1>1, <1>3, <2>2, <3>1
  <2>4. Pairs # {}
    BY <2>1
  <2> HIDE DEF first, Pairs
  <2> QED BY <1>2, <2>3, <2>4
<1>6. ASSUME M = {}, NEW i \in parse_bundle(b) PROVE i > c
  <2>1. Pairs # {} /\ i \in inner(first)
    <3> HIDE DEF first, Pairs
    <3> QED BY <1>2, <1>6
  <2>2. first \in Pairs
    BY <1>4, <2>1
  <2> HIDE DEF first
  <2>3. first[1] # a \/ first[2] # c
    BY <1>6, <2>2
  <2>4. first[1] >= c /\ first[1] \in Nat /\ first[2] \in Nat
    BY <1>1, <1>3, <2>2, <2>3
  <2> QED BY <1>1, <2>1, <2>4
<1> QED BY <1>5, <1>6

\* A fence is open when an odd number of lines of backticks came before, if those with
\* a name open only.
LEMMA FencesPair ==
  ASSUME NEW b \in Seq(BundleLines),
         \A i \in DOMAIN b : Ticks(b[i]) # 0 /\ ~Bare(b[i]) => ~InBlock(b)[i - 1]
  PROVE  \A i \in 1..Len(b) :
           InBlock(b)[i - 1] <=> Cardinality({j \in 1..(i - 1) : Ticks(b[j]) # 0}) % 2 # 0
<1> DEFINE N == Len(b)
           g == InBlock(b)
           Fences(n) == {j \in 1..n : Ticks(b[j]) # 0}
           G == {n \in Nat : n <= N =>
                   /\ IsFiniteSet(Fences(n)) /\ Cardinality(Fences(n)) \in Nat
                   /\ g[n] <=> Cardinality(Fences(n)) % 2 # 0}
<1>1. ~g[0] /\ \A i \in 1..N : g[i] <=> IF g[i - 1] THEN ~Bare(b[i]) ELSE Ticks(b[i]) # 0
  BY InBlockRec
<1>2. \A i \in 1..N : Ticks(b[i]) # 0 /\ ~Bare(b[i]) => ~g[i - 1]
  OBVIOUS
<1>3. \A l : Bare(l) => Ticks(l) # 0
  BY DEF Bare, Ticks
<1> HIDE DEF g
<1>4. 0 \in G
  <2>1. Fences(0) = {}
    OBVIOUS
  <2>2. IsFiniteSet(Fences(0)) /\ Cardinality(Fences(0)) = 0
    BY <2>1, FS_EmptySet
  <2> HIDE DEF Fences
  <2> QED BY <1>1, <2>2
<1>5. ASSUME NEW n \in Nat, n \in G PROVE n + 1 \in G
  <2> SUFFICES ASSUME n + 1 <= N
               PROVE  /\ IsFiniteSet(Fences(n + 1)) /\ Cardinality(Fences(n + 1)) \in Nat
                      /\ g[n + 1] <=> Cardinality(Fences(n + 1)) % 2 # 0
    OBVIOUS
  <2>1. n + 1 \in 1..N /\ n + 1 - 1 = n
    OBVIOUS
  <2>2. /\ IsFiniteSet(Fences(n)) /\ Cardinality(Fences(n)) \in Nat
        /\ g[n] <=> Cardinality(Fences(n)) % 2 # 0
    BY <1>5
  <2>3. g[n + 1] <=> IF g[n] THEN ~Bare(b[n + 1]) ELSE Ticks(b[n + 1]) # 0
    BY <1>1, <2>1
  <2>4. Ticks(b[n + 1]) # 0 /\ ~Bare(b[n + 1]) => ~g[n]
    BY <1>2, <2>1
  <2>5. n + 1 \notin Fences(n)
    OBVIOUS
  <2>6. CASE Ticks(b[n + 1]) = 0
    <3>1. \A j \in 1..(n + 1) : j = n + 1 \/ j \in 1..n
      OBVIOUS
    <3>2. \A j \in 1..n : j \in 1..(n + 1)
      OBVIOUS
    <3>3. Fences(n + 1) = Fences(n)
      BY <2>6, <3>1, <3>2
    <3> HIDE DEF Fences
    <3>4. g[n + 1] <=> g[n]
      BY <1>3, <2>3, <2>6
    <3> QED BY <2>2, <3>3, <3>4
  <2>7. CASE Ticks(b[n + 1]) # 0
    <3>1. \A j \in 1..(n + 1) : j = n + 1 \/ j \in 1..n
      OBVIOUS
    <3>2. n + 1 \in 1..(n + 1) /\ \A j \in 1..n : j \in 1..(n + 1)
      OBVIOUS
    <3>3. Fences(n + 1) = Fences(n) \cup {n + 1}
      BY <2>7, <3>1, <3>2
    <3> HIDE DEF Fences
    <3>4. IsFiniteSet(Fences(n + 1)) /\ Cardinality(Fences(n + 1)) = Cardinality(Fences(n)) + 1
      BY <2>2, <2>5, <3>3, FS_AddElement
    <3>5. g[n + 1] <=> ~g[n]
      BY <2>3, <2>4, <2>7
    <3> DEFINE c == Cardinality(Fences(n))
    <3>6. c \in Nat /\ (g[n] <=> c % 2 # 0)
      BY <2>2
    <3> HIDE DEF c
    <3>7. c + 1 \in Nat /\ ((c + 1) % 2 # 0 <=> ~(c % 2 # 0))
      BY <3>6
    <3>8. Cardinality(Fences(n + 1)) = c + 1
      BY <3>4 DEF c
    <3> QED BY <3>4, <3>5, <3>6, <3>7, <3>8
  <2> QED BY <2>6, <2>7
<1>6. Nat \subseteq G
  <2> HIDE DEF G
  <2> QED BY <1>4, <1>5, NatSetInduction
<1>7. ASSUME NEW i \in 1..N PROVE g[i - 1] <=> Cardinality(Fences(i - 1)) % 2 # 0
  <2>1. i - 1 \in Nat /\ i - 1 <= N
    OBVIOUS
  <2> QED BY <1>6, <2>1
<1> QED BY <1>7 DEF g

\* The prompt then has just what is not code.
LEMMA ProseIsNotCode ==
  ASSUME NEW b \in Seq(BundleLines),
         \A i \in DOMAIN b : Ticks(b[i]) # 0 /\ ~Bare(b[i]) => ~InBlock(b)[i - 1]
  PROVE  ProseLines(b) = DOMAIN b \ RunnerCode(b)
<1>1. \A i \in 1..Len(b) :
        InBlock(b)[i - 1] <=> Cardinality({j \in 1..(i - 1) : Ticks(b[j]) # 0}) % 2 # 0
  BY FencesPair
<1>2. DOMAIN b = 1..Len(b)
  OBVIOUS
<1> QED BY <1>1, <1>2 DEF ProseLines, RunnerCode

\* The text under the bundle's readers is a sequence of lines.
Bundle == reading = "bundle" => text \in Seq(BundleLines)

\* And to a bundle.
LEMMA BundleInvariant == Spec => []Bundle
<1>1. Init => Bundle
  BY DEF Init, Bundle
<1>2. Bundle /\ [Next]_vars => Bundle'
  <2> SUFFICES ASSUME Bundle, [Next]_vars, reading' = "bundle" PROVE text' \in Seq(BundleLines)
    BY DEF Bundle
  <2>1. CASE KernelLogs
    BY <2>1 DEF KernelLogs
  <2>2. CASE JobLogs
    BY <2>2 DEF JobLogs
  <2>3. CASE BundleGrows
    BY <2>3 DEF BundleGrows, Bundle
  <2>4. CASE UNCHANGED vars
    BY <2>4 DEF vars, Bundle
  <2> QED BY <2>1, <2>2, <2>3, <2>4 DEF Next
<1> QED BY <1>1, <1>2, PTL DEF Spec

\* On every reachable bundle: when no fence holds a shorter one, the server and the
\* pipeline have the same code, the server has the patterns of a block that leads the
\* bundle, and the pipeline has its own keys of that block or looks on behind it;
\* curate_bundle has what is not code (watched_patterns, parse_bundle).
THEOREM ReadersAgreeHolds == Spec => []ReadersAgree
<1>1. Bundle => ReadersAgree
  <2> SUFFICES ASSUME text \in Seq(BundleLines) PROVE ReadersAgree
    BY DEF Bundle, ReadersAgree
  <2>1. ASSUME NoShorterFence(text), NEW a \in DOMAIN text, NEW c \in DOMAIN text,
               LeadingBlock(text, a, c)
        PROVE  LET keys(k) == {i \in (a + 1)..(c - 1) : text[i] = k} IN
               /\ watched_patterns(text) = keys("pattern")
               /\ keys("meta") # {} => parse_bundle(text) = keys("meta")
               /\ keys("meta") = {} => \A i \in parse_bundle(text) : i > c
    BY <2>1, PatternsAreRead, MetadataIsRead
  <2>2. NoShorterFence(text) => WatchedCode(text) = RunnerCode(text)
    BY CodeAgrees
  <2>3. (\A i \in DOMAIN text : Ticks(text[i]) # 0 /\ ~Bare(text[i]) => ~InBlock(text)[i - 1])
          => ProseLines(text) = DOMAIN text \ RunnerCode(text)
    BY ProseIsNotCode
  <2> QED BY <2>1, <2>2, <2>3 DEF ReadersAgree
<1> QED BY <1>1, BundleInvariant, PTL

------------------------------------------------------------------------------
(* Sequences put end to end.                                               *)

\* The equations of FlattenSeq.
LEMMA FlattenRec ==
  ASSUME NEW S, NEW seqs \in Seq(Seq(S)), seqs # <<>>
  PROVE  \E f \in [1..Len(seqs) -> Seq(S)] :
           /\ FlattenSeq(seqs) = f[Len(seqs)]
           /\ f[1] = seqs[1]
           /\ \A i \in 2..Len(seqs) : f[i] = f[i - 1] \o seqs[i]
<1> DEFINE N == Len(seqs)
           T == Seq(S)
           step == [i \in 1..N |-> [v \in T |-> v \o seqs[i]]]
           Eqn(f) == [i \in 1..N |-> IF i = 1 THEN seqs[i] ELSE f[i - 1] \o seqs[i]]
<1>1. N \in Nat /\ N >= 1 /\ <<>> \in T /\ \A i \in 1..N : seqs[i] \in T
  OBVIOUS
<1>2. step \in Steps(N, T)
  <2>1. \A i \in 1..N, v \in T : v \o seqs[i] \in T
    BY <1>1
  <2> HIDE DEF T
  <2> QED BY <2>1 DEF Steps
<1>3. \E f : Iterates(f, N, T, <<>>, step)
  <2> HIDE DEF step, T, N
  <2> QED BY <1>1, <1>2, PrimitiveRecursion
<1>4. PICK f \in [0..N -> T] : f[0] = <<>> /\ \A i \in 1..N : f[i] = step[i][f[i - 1]]
  BY <1>3 DEF Iterates
<1>5. \A i \in 1..N : f[i] = f[i - 1] \o seqs[i]
  <2> SUFFICES ASSUME NEW i \in 1..N PROVE f[i] = f[i - 1] \o seqs[i]
    OBVIOUS
  <2>1. i - 1 \in 0..N
    BY <1>1
  <2>2. f[i - 1] \in T
    <3> HIDE DEF T
    <3> QED BY <1>4, <2>1
  <2> HIDE DEF T
  <2> QED BY <1>4, <2>2
<1>6. f[1] = seqs[1]
  <2>1. f[1] = <<>> \o seqs[1]
    <3>1. 1 \in 1..N /\ 1 - 1 = 0
      BY <1>1
    <3> HIDE DEF step, T, N
    <3>2. f[1] = f[1 - 1] \o seqs[1]
      BY <1>5, <3>1
    <3>3. f[1] = f[0] \o seqs[1]
      BY <3>1, <3>2
    <3> QED BY <1>4, <3>3
  <2>2. seqs[1] \in Seq(S)
    BY <1>1
  <2> QED BY <2>1, <2>2
<1> HIDE DEF step
<1> DEFINE h == [i \in 1..N |-> f[i]]
<1>7. h \in [1..N -> T] /\ h[1] = seqs[1] /\ \A i \in 2..N : h[i] = h[i - 1] \o seqs[i]
  <2>1. \A i \in 1..N : i \in 0..N
    BY <1>1
  <2>2. \A i \in 2..N : i - 1 \in 1..N /\ i \in 1..N
    BY <1>1
  <2> HIDE DEF T, N
  <2>3. \A i \in 1..N : f[i] \in T
    BY <1>4, <2>1
  <2>4. 1 \in 1..N
    BY <1>1
  <2>5. \A i \in 1..N : h[i] = f[i]
    OBVIOUS
  <2>6. h \in [1..N -> T]
    BY <2>3
  <2> HIDE DEF h
  <2> QED BY <1>5, <1>6, <2>2, <2>4, <2>5, <2>6
<1>8. h = Eqn(h)
  <2> HIDE DEF h
  <2>1. \A i \in 1..N : i = 1 \/ i \in 2..N
    BY <1>1
  <2> HIDE DEF N
  <2>2. \A i \in 1..N : h[i] = IF i = 1 THEN seqs[i] ELSE h[i - 1] \o seqs[i]
    BY <1>7, <2>1
  <2>3. DOMAIN h = 1..N /\ h = [i \in 1..N |-> h[i]]
    BY <1>7
  <2> QED BY <2>2, <2>3
<1> HIDE DEF h, Eqn
<1> DEFINE g == CHOOSE f1 : f1 = Eqn(f1)
<1>9. FlattenSeq(seqs) = g[N]
  <2>1. Len(seqs) # 0
    BY <1>1
  <2> QED BY <2>1 DEF FlattenSeq, Eqn
<1>10. g = Eqn(g)
  BY <1>8
<1> HIDE DEF g
<1>11. g = h
  <2> DEFINE G == {n \in Nat : n + 1 <= N => g[n + 1] = h[n + 1]}
  <2>1. \A i \in 1..N : /\ g[i] = IF i = 1 THEN seqs[i] ELSE g[i - 1] \o seqs[i]
                        /\ h[i] = IF i = 1 THEN seqs[i] ELSE h[i - 1] \o seqs[i]
    BY <1>8, <1>10 DEF Eqn
  <2>2. 0 \in G
    BY <1>1, <2>1
  <2>3. ASSUME NEW n \in Nat, n \in G PROVE n + 1 \in G
    <3> SUFFICES ASSUME n + 1 + 1 <= N PROVE g[n + 1 + 1] = h[n + 1 + 1]
      OBVIOUS
    <3>1. n + 1 + 1 \in 1..N /\ n + 1 + 1 # 1 /\ n + 1 + 1 - 1 = n + 1
      BY <1>1
    <3>2. g[n + 1] = h[n + 1]
      BY <1>1, <2>3
    <3> QED BY <2>1, <3>1, <3>2
  <2>4. Nat \subseteq G
    <3> HIDE DEF G
    <3> QED BY <2>2, <2>3, NatSetInduction
  <2>5. \A i \in 1..N : g[i] = h[i]
    <3> SUFFICES ASSUME NEW i \in 1..N PROVE g[i] = h[i]
      OBVIOUS
    <3>1. i - 1 \in Nat /\ i - 1 + 1 = i /\ i <= N
      BY <1>1
    <3>2. i - 1 \in G
      BY <2>4, <3>1
    <3> QED BY <3>1, <3>2
  <2>6. g = [i \in 1..N |-> g[i]] /\ h = [i \in 1..N |-> h[i]]
    BY <1>8, <1>10 DEF Eqn
  <2> QED BY <2>5, <2>6
<1>12. h \in [1..N -> T] /\ FlattenSeq(seqs) = h[N]
  BY <1>7, <1>9, <1>11
<1> QED BY <1>7, <1>12 DEF N, T

\* It is empty when all of them are; its first element is that of the first that is not.
LEMMA Flattened ==
  ASSUME NEW S, NEW seqs \in Seq(Seq(S))
  PROVE  /\ FlattenSeq(seqs) \in Seq(S)
         /\ FlattenSeq(seqs) = <<>> <=> \A i \in DOMAIN seqs : seqs[i] = <<>>
         /\ FlattenSeq(seqs) # <<>> =>
              \E k \in DOMAIN seqs : /\ seqs[k] # <<>> /\ FlattenSeq(seqs)[1] = seqs[k][1]
                                     /\ \A j \in 1..(k - 1) : seqs[j] = <<>>
<1>1. CASE seqs = <<>>
  <2>1. FlattenSeq(seqs) = <<>>
    BY <1>1 DEF FlattenSeq
  <2>2. DOMAIN seqs = {}
    BY <1>1
  <2>3. FlattenSeq(seqs) \in Seq(S)
    BY <2>1
  <2> QED BY <2>1, <2>2, <2>3
<1>2. CASE seqs # <<>>
  <2> DEFINE N == Len(seqs)
             T == Seq(S)
             First(q, n) == \E k \in 1..n : /\ seqs[k] # <<>> /\ q[1] = seqs[k][1]
                                            /\ \A j \in 1..(k - 1) : seqs[j] = <<>>
             Ok(q, n) == /\ q \in T
                         /\ q = <<>> => \A i \in 1..n : seqs[i] = <<>>
                         /\ q # <<>> => First(q, n)
  <2>1. N \in Nat /\ N >= 1 /\ DOMAIN seqs = 1..N /\ \A i \in 1..N : seqs[i] \in T
    BY <1>2
  <2>2. PICK f \in [1..N -> T] :
          /\ FlattenSeq(seqs) = f[N] /\ f[1] = seqs[1]
          /\ \A i \in 2..N : f[i] = f[i - 1] \o seqs[i]
    BY <1>2, FlattenRec
  <2> DEFINE G == {n \in Nat : n + 1 <= N => Ok(f[n + 1], n + 1)}
  <2> HIDE DEF N
  <2>3. 0 \in G
    <3>1. f[0 + 1] = seqs[1] /\ seqs[1] \in T
      BY <2>1, <2>2
    <3>2. 1 \in 1..(0 + 1) /\ 1..(1 - 1) = {} /\ \A i \in 1..(0 + 1) : i = 1
      OBVIOUS
    <3> HIDE DEF T
    <3> QED BY <3>1, <3>2
  <2>4. ASSUME NEW n \in Nat, n \in G PROVE n + 1 \in G
    <3> SUFFICES ASSUME n + 1 + 1 <= N PROVE Ok(f[n + 1 + 1], n + 1 + 1)
      OBVIOUS
    <3> DEFINE p == f[n + 1]
               q == f[n + 1 + 1]
               e == seqs[n + 1 + 1]
    <3>1. n + 1 + 1 \in 2..N /\ n + 1 + 1 - 1 = n + 1 /\ n + 1 \in 1..N /\ n + 1 + 1 \in 1..N
      BY <2>1
    <3>2. Ok(p, n + 1)
      BY <2>1, <2>4
    <3>3. q = p \o e /\ p \in Seq(S) /\ e \in Seq(S)
      <4>1. p \in T /\ e \in T
        BY <2>1, <2>2, <3>1
      <4> HIDE DEF e
      <4>2. q = p \o e
        <5> DEFINE m == n + 1 + 1
        <5>1. m \in 2..N /\ m - 1 = n + 1
          BY <3>1
        <5> HIDE DEF m
        <5>2. f[m] = f[m - 1] \o seqs[m]
          BY <2>2, <5>1
        <5>3. f[m] = f[n + 1] \o seqs[m]
          BY <5>1, <5>2
        <5> QED BY <5>3 DEF m, e
      <4> QED BY <4>1, <4>2
    <3>4. \A i \in 1..(n + 1 + 1) : i \in 1..(n + 1) \/ i = n + 1 + 1
      OBVIOUS
    <3>5. \A i \in 1..(n + 1) : i \in 1..(n + 1 + 1)
      OBVIOUS
    <3>6. CASE p # <<>>
      <4>1. q \in Seq(S) /\ q # <<>> /\ q[1] = p[1]
        <5> HIDE DEF p, q, e
        <5> QED BY <3>3, <3>6
      <4> HIDE DEF q, p
      <4>2. PICK k \in 1..(n + 1) : /\ seqs[k] # <<>> /\ p[1] = seqs[k][1]
                                    /\ \A j \in 1..(k - 1) : seqs[j] = <<>>
        BY <3>2, <3>6
      <4>3. First(q, n + 1 + 1)
        BY <3>5, <4>1, <4>2
      <4>4. Ok(q, n + 1 + 1)
        BY <4>1, <4>3
      <4> QED BY <4>4 DEF q
    <3>7. CASE p = <<>>
      <4>1. q = e
        <5> HIDE DEF p, q, e
        <5> QED BY <3>3, <3>7
      <4>2. \A i \in 1..(n + 1) : seqs[i] = <<>>
        BY <3>2, <3>7
      <4>3. n + 1 + 1 \in 1..(n + 1 + 1) /\ 1..(n + 1 + 1 - 1) = 1..(n + 1)
        OBVIOUS
      <4> HIDE DEF q, p
      <4>4. q # <<>> => First(q, n + 1 + 1)
        BY <4>1, <4>2, <4>3
      <4>5. q = <<>> => \A i \in 1..(n + 1 + 1) : seqs[i] = <<>>
        BY <3>4, <4>1, <4>2
      <4>6. q \in T
        BY <3>3, <4>1
      <4>7. Ok(q, n + 1 + 1)
        <5> HIDE DEF First, T
        <5> QED BY <4>4, <4>5, <4>6
      <4> QED BY <4>7 DEF q
    <3> QED BY <3>6, <3>7
  <2>5. Nat \subseteq G
    <3> HIDE DEF G
    <3> QED BY <2>3, <2>4, NatSetInduction
  <2>6. N - 1 \in Nat /\ N - 1 + 1 = N
    BY <2>1
  <2>7. Ok(f[N], N)
    <3> HIDE DEF Ok
    <3> QED BY <2>5, <2>6
  <2> DEFINE q == FlattenSeq(seqs)
  <2>8. Ok(q, N)
    <3> HIDE DEF Ok
    <3> QED BY <2>2, <2>7
  <2> HIDE DEF q
  <2>9. q \in T /\ (q # <<>> => First(q, N))
    BY <2>8
  <2>10. q = <<>> <=> \A i \in 1..N : seqs[i] = <<>>
    BY <2>8
  <2> QED BY <2>1, <2>9, <2>10 DEF q
<1> QED BY <1>1, <1>2

\* The lines of a log that are in T.
LEMMA ThoseAre ==
  ASSUME NEW S, NEW log \in Seq(S), NEW T
  PROVE  /\ Those(log, T) \in Seq(S)
         /\ Those(log, T) = <<>> <=> \A i \in DOMAIN log : log[i] \notin T
         /\ Those(log, T) # <<>> => Those(log, T)[1] \in T
<1> DEFINE seqs == [i \in DOMAIN log |-> IF log[i] \in T THEN <<log[i]>> ELSE <<>>]
<1>1. DOMAIN log = 1..Len(log) /\ Len(log) \in Nat /\ \A i \in DOMAIN log : log[i] \in S
  OBVIOUS
<1>2. \A i \in DOMAIN log : seqs[i] \in Seq(S)
  BY <1>1
<1>3. seqs \in Seq(Seq(S)) /\ DOMAIN seqs = DOMAIN log
  BY <1>1, <1>2
<1>4. \A i \in DOMAIN log : /\ seqs[i] = <<>> <=> log[i] \notin T
                            /\ log[i] \in T => seqs[i][1] = log[i]
  OBVIOUS
<1>5. Those(log, T) = FlattenSeq(seqs)
  BY DEF Those
<1> HIDE DEF seqs
<1> DEFINE q == FlattenSeq(seqs)
<1>6. /\ q \in Seq(S)
      /\ q = <<>> <=> \A i \in DOMAIN seqs : seqs[i] = <<>>
      /\ q # <<>> => \E k \in DOMAIN seqs : seqs[k] # <<>> /\ q[1] = seqs[k][1]
  BY <1>3, Flattened
<1> HIDE DEF q
<1>7. q = Those(log, T)
  BY <1>5 DEF q
<1> QED BY <1>3, <1>4, <1>6, <1>7

------------------------------------------------------------------------------
(* What a job's logs say, and what of it the model is told.                *)

FileIds == {<<d, f>> : d \in Range(Dirs), f \in Range(Files)}
           \cup {<<d, f, "watched">> : d \in Range(Dirs), f \in Range(Watched)}

\* Sections with something to show, and nothing empty in it.
Shown(blocks) == \A b \in DOMAIN blocks : blocks[b] # <<>>
Sections ==
  {s \in [file : FileIds, blocks : Seq(Seq(Lines))] : s.blocks # <<>> /\ Shown(s.blocks)}

\* The blocks of a kernel log are the heads of its reports.
LEMMA HeadsAre ==
  ASSUME NEW log \in Seq(Lines)
  PROVE  /\ Heads(log) \in Seq(Seq(Lines)) /\ Shown(Heads(log))
         /\ Heads(log) = <<>> <=> \A i \in DOMAIN log : log[i] # "BUG:"
<1> DEFINE N == Len(log)
           q == dmesg_reports(log)
           head(r) == [k \in DOMAIN q[r].head |-> log[q[r].head[k]]]
<1>1. N \in Nat /\ DOMAIN log = 1..N /\ \A i \in 1..N : log[i] \in Lines
  OBVIOUS
<1>2. Covers(log, q, 1)
  BY <1>1, ScanCovers
<1> HIDE DEF q
<1>3. q \in Seq(Reports(log))
  BY <1>2 DEF Covers
<1>4. Len(q) \in Nat /\ DOMAIN q = 1..Len(q)
  BY <1>3
<1>5. \A r \in DOMAIN q : \E s \in 1..N : log[s] = "BUG:" /\ q[r] = Report(log, s)
  BY <1>2 DEF Covers
<1>6. ASSUME NEW r \in DOMAIN q PROVE head(r) \in Seq(Lines) /\ head(r) # <<>>
  <2>1. PICK s \in 1..N : log[s] = "BUG:" /\ q[r] = Report(log, s)
    BY <1>5
  <2> DEFINE h == q[r].head
  <2>2. h \in Seq(1..N) /\ h # <<>>
    BY <1>1, <2>1, ReportShows
  <2> HIDE DEF h
  <2>3. Len(h) \in Nat /\ Len(h) # 0 /\ DOMAIN h = 1..Len(h) /\ \A k \in DOMAIN h : h[k] \in 1..N
    BY <2>2
  <2>4. [k \in DOMAIN h |-> log[h[k]]] \in Seq(Lines)
    BY <1>1, <2>3
  <2>5. 1 \in DOMAIN h
    BY <2>3
  <2>6. DOMAIN [k \in DOMAIN h |-> log[h[k]]] # {}
    BY <2>5
  <2> QED BY <2>4, <2>6 DEF h
<1> HIDE DEF head
<1>7. Heads(log) = [r \in DOMAIN q |-> head(r)]
  BY DEF Heads, head, q
<1>8. Heads(log) \in Seq(Seq(Lines))
  <2> DEFINE T == Seq(Lines)
  <2>1. \A r \in DOMAIN q : head(r) \in T
    BY <1>6
  <2> HIDE DEF T
  <2>2. Heads(log) \in Seq(T)
    BY <1>4, <1>7, <2>1
  <2> QED BY <2>2 DEF T
<1>9. Shown(Heads(log))
  BY <1>6, <1>7 DEF Shown
<1>10. Heads(log) = <<>> <=> DOMAIN q = {}
  <2>1. DOMAIN Heads(log) = DOMAIN q
    BY <1>7
  <2> QED BY <1>8, <2>1
<1>11. DOMAIN q = {} <=> \A i \in 1..N : log[i] # "BUG:"
  <2>1. ASSUME NEW i \in 1..N, log[i] = "BUG:" PROVE DOMAIN q # {}
    BY <1>2, <2>1 DEF Covers
  <2> QED BY <1>5, <2>1
<1> QED BY <1>1, <1>8, <1>9, <1>10, <1>11

\* The one block of another log.
LEMMA BlockIs ==
  ASSUME NEW head \in Seq(Lines)
  PROVE  /\ Block(head) \in Seq(Seq(Lines)) /\ Shown(Block(head))
         /\ Block(head) = <<>> <=> head = <<>>
         /\ head # <<>> => Block(head)[1] = head
<1> DEFINE T == Seq(Lines)
<1> HIDE DEF T
<1>1. head \in T
  BY DEF T
<1>2. CASE head = <<>>
  <2>1. Block(head) = <<>> /\ <<>> \in Seq(T) /\ DOMAIN <<>> = {}
    BY <1>2 DEF Block
  <2> QED BY <1>2, <2>1 DEF Shown, T
<1>3. CASE head # <<>>
  <2>1. Block(head) = <<head>>
    BY <1>3 DEF Block
  <2>2. <<head>> \in Seq(T) /\ <<head>> # <<>> /\ <<head>>[1] = head /\ DOMAIN <<head>> = {1}
    BY <1>1
  <2>3. Shown(<<head>>)
    BY <1>3, <2>2 DEF Shown
  <2> QED BY <1>3, <2>1, <2>2, <2>3 DEF T
<1> QED BY <1>2, <1>3

\* A section for each file with something to show.
LEMMA SectionIs ==
  ASSUME NEW file \in FileIds, NEW blocks \in Seq(Seq(Lines)), Shown(blocks)
  PROVE  /\ Section(file, blocks) \in Seq(Sections)
         /\ Section(file, blocks) = <<>> <=> blocks = <<>>
         /\ blocks # <<>> => Section(file, blocks)[1].blocks = blocks
<1>1. CASE blocks = <<>>
  <2>1. Section(file, blocks) = <<>> /\ <<>> \in Seq(Sections)
    BY <1>1 DEF Section
  <2> QED BY <1>1, <2>1
<1>2. CASE blocks # <<>>
  <2> DEFINE s == [file |-> file, blocks |-> blocks]
  <2>1. Section(file, blocks) = <<s>>
    BY <1>2 DEF Section
  <2>2. s.blocks = blocks /\ s \in [file : FileIds, blocks : Seq(Seq(Lines))]
    OBVIOUS
  <2>3. s \in Sections
    BY <1>2, <2>2 DEF Sections
  <2> HIDE DEF s
  <2>4. <<s>> \in Seq(Sections) /\ <<s>> # <<>> /\ <<s>>[1] = s
    BY <2>3
  <2> QED BY <1>2, <2>1, <2>2, <2>4
<1> QED BY <1>1, <1>2

\* What the prompt says of a section.
Tagged(s) ==
  FlattenSeq([b \in DOMAIN s.blocks |->
                [k \in DOMAIN s.blocks[b] |-> [file |-> s.file, line |-> s.blocks[b][k]]]])
Told == [file : FileIds, line : Lines]

\* It is not empty, and begins with the first line of the first block.
LEMMA TaggedIs ==
  ASSUME NEW s \in Sections
  PROVE  Tagged(s) \in Seq(Told) /\ Tagged(s) # <<>> /\ Tagged(s)[1].line = s.blocks[1][1]
<1> DEFINE B == s.blocks
           tag(l) == [file |-> s.file, line |-> l]
           tags(c) == [k \in DOMAIN c |-> tag(c[k])]
           seqs == [b \in DOMAIN B |-> tags(B[b])]
           T == Seq(Lines)
           U == Seq(Told)
<1>1. B \in Seq(T) /\ B # <<>> /\ \A b \in DOMAIN B : B[b] # <<>>
  BY DEF Sections, Shown
<1>2. \A l \in Lines : tag(l) \in Told /\ tag(l).line = l
  BY DEF Sections, Told
<1>3. Tagged(s) = FlattenSeq(seqs)
  BY DEF Tagged
<1> HIDE DEF tag
<1>4. ASSUME NEW c \in T, c # <<>>
      PROVE  tags(c) \in U /\ tags(c) # <<>> /\ tags(c)[1].line = c[1]
  <2>1. Len(c) \in Nat /\ Len(c) >= 1 /\ DOMAIN c = 1..Len(c) /\ \A k \in DOMAIN c : c[k] \in Lines
    BY <1>4
  <2>2. \A k \in DOMAIN c : tag(c[k]) \in Told
    BY <1>2, <2>1
  <2>3. tags(c) \in Seq(Told)
    BY <2>1, <2>2
  <2>4. 1 \in DOMAIN c
    BY <2>1
  <2>5. tags(c)[1] = tag(c[1])
    BY <2>4
  <2>6. DOMAIN tags(c) = DOMAIN c
    OBVIOUS
  <2>7. tags(c) # <<>>
    BY <2>4, <2>6
  <2> QED BY <1>2, <2>1, <2>3, <2>4, <2>5, <2>7
<1> HIDE DEF tags, T, U
<1>5. Len(B) \in Nat /\ DOMAIN B = 1..Len(B) /\ 1 \in DOMAIN B /\ \A b \in DOMAIN B : B[b] \in T
  BY <1>1
<1>6. \A b \in DOMAIN B : tags(B[b]) \in U /\ tags(B[b]) # <<>>
  BY <1>1, <1>4, <1>5
<1>7. seqs \in Seq(U) /\ DOMAIN seqs = DOMAIN B /\ \A b \in DOMAIN B : seqs[b] = tags(B[b])
  BY <1>5, <1>6
<1> HIDE DEF seqs
<1> DEFINE q == FlattenSeq(seqs)
<1>8. /\ q \in Seq(Told)
      /\ q = <<>> <=> \A i \in DOMAIN seqs : seqs[i] = <<>>
      /\ q # <<>> => \E k \in DOMAIN seqs : /\ seqs[k] # <<>> /\ q[1] = seqs[k][1]
                                            /\ \A j \in 1..(k - 1) : seqs[j] = <<>>
  BY <1>7, Flattened DEF U
<1> HIDE DEF q
<1>9. q # <<>>
  BY <1>5, <1>6, <1>7, <1>8
<1>10. PICK k \in DOMAIN seqs : /\ seqs[k] # <<>> /\ q[1] = seqs[k][1]
                                /\ \A j \in 1..(k - 1) : seqs[j] = <<>>
  BY <1>8, <1>9
<1>11. k = 1
  <2>1. k \in 1..Len(B) /\ seqs[1] # <<>>
    BY <1>5, <1>6, <1>7
  <2>2. k # 1 => 1 \in 1..(k - 1)
    BY <2>1
  <2> QED BY <1>10, <2>1, <2>2
<1>12. q[1].line = B[1][1]
  BY <1>1, <1>4, <1>5, <1>7, <1>10, <1>11
<1> QED BY <1>3, <1>8, <1>9, <1>12 DEF q

\* The prompt says something whenever there is a section, and its first line first.
LEMMA CuratedIs ==
  ASSUME NEW sections \in Seq(Sections)
  PROVE  /\ curate_issues(sections) = <<>> <=> sections = <<>>
         /\ sections # <<>> => curate_issues(sections)[1].line = sections[1].blocks[1][1]
<1> DEFINE seqs == [i \in DOMAIN sections |-> Tagged(sections[i])]
           all == FlattenSeq(seqs)
           U == Seq(Told)
<1>1. Len(sections) \in Nat /\ DOMAIN sections = 1..Len(sections)
      /\ \A i \in DOMAIN sections : sections[i] \in Sections
  OBVIOUS
<1>2. \A i \in DOMAIN sections : Tagged(sections[i]) \in U /\ Tagged(sections[i]) # <<>>
  BY <1>1, TaggedIs
<1>3. seqs \in Seq(U) /\ DOMAIN seqs = DOMAIN sections
      /\ \A i \in DOMAIN sections : seqs[i] = Tagged(sections[i])
  <2> HIDE DEF U
  <2> QED BY <1>1, <1>2
<1>4. curate_issues(sections) = SubSeq(all, 1, Min({PromptCap, Len(all)}))
  BY DEF curate_issues, Tagged
<1> HIDE DEF seqs
<1>5. /\ all \in Seq(Told)
      /\ all = <<>> <=> \A i \in DOMAIN seqs : seqs[i] = <<>>
      /\ all # <<>> => \E k \in DOMAIN seqs : /\ seqs[k] # <<>> /\ all[1] = seqs[k][1]
                                              /\ \A j \in 1..(k - 1) : seqs[j] = <<>>
  BY <1>3, Flattened
<1> HIDE DEF all
<1> DEFINE n == Min({PromptCap, Len(all)})
<1>6. PromptCap \in Nat /\ PromptCap >= 1 /\ Len(all) \in Nat
  BY <1>5, ReportsAssumption
<1>7. n \in {PromptCap, Len(all)} /\ n <= Len(all) /\ n \in Nat
  <2>1. {PromptCap, Len(all)} \in SUBSET Nat
    BY <1>6
  <2>2. Min({PromptCap, Len(all)}) \in {PromptCap, Len(all)}
        /\ \A y \in {PromptCap, Len(all)} : Min({PromptCap, Len(all)}) <= y
    BY <2>1, MinNat
  <2> QED BY <1>6, <2>2
<1> HIDE DEF n
<1>8. CASE sections = <<>>
  <2>1. DOMAIN seqs = {}
    BY <1>3, <1>8
  <2>2. all = <<>>
    BY <1>5, <2>1
  <2>3. n = 0
    BY <1>6, <1>7, <2>2
  <2>4. SubSeq(all, 1, n) = <<>>
    BY <1>5, <2>3
  <2> QED BY <1>4, <1>8, <2>4 DEF n
<1>9. CASE sections # <<>>
  <2>1. 1 \in DOMAIN sections
    BY <1>1, <1>9
  <2>2. all # <<>>
    BY <1>2, <1>3, <1>5, <2>1
  <2>3. PICK k \in DOMAIN seqs : /\ seqs[k] # <<>> /\ all[1] = seqs[k][1]
                                 /\ \A j \in 1..(k - 1) : seqs[j] = <<>>
    BY <1>5, <2>2
  <2>4. k = 1
    <3>1. k \in 1..Len(sections) /\ seqs[1] # <<>>
      BY <1>1, <1>2, <1>3, <2>1
    <3>2. k # 1 => 1 \in 1..(k - 1)
      BY <1>1, <3>1
    <3> QED BY <2>3, <3>1, <3>2
  <2>5. all[1].line = sections[1].blocks[1][1]
    BY <1>1, <1>3, <2>1, <2>3, <2>4, TaggedIs
  <2>6. n >= 1
    <3>1. Len(all) >= 1
      BY <1>5, <2>2
    <3> QED BY <1>6, <1>7, <3>1
  <2>7. SubSeq(all, 1, n)[1] = all[1] /\ SubSeq(all, 1, n) # <<>>
    <3>1. 1 \in 1..Len(all) /\ n \in 1..Len(all)
      BY <1>6, <1>7, <2>6
    <3>2. SubSeq(all, 1, n) = [i \in 1..(n - 1 + 1) |-> all[i + 1 - 1]]
      BY <1>5, <1>7 DEF SubSeq
    <3>3. 1 \in 1..(n - 1 + 1) /\ 1 + 1 - 1 = 1
      BY <1>7, <2>6
    <3>4. 1 \in DOMAIN SubSeq(all, 1, n)
      BY <3>2, <3>3
    <3>5. DOMAIN <<>> = {} /\ DOMAIN SubSeq(all, 1, n) # {}
      BY <3>4
    <3>6. SubSeq(all, 1, n) # <<>>
      BY <3>5, Zenon
    <3>7. SubSeq(all, 1, n)[1] = all[1 + 1 - 1]
      BY <3>2, <3>3
    <3> QED BY <3>3, <3>6, <3>7
  <2> QED BY <1>4, <1>9, <2>5, <2>7 DEF n
<1> QED BY <1>8, <1>9

JobLogsType == [Range(Dirs) -> [Range(Files) -> Seq(Lines)]]

\* The directories and the files by name.
LEMMA NamesAre ==
  /\ DOMAIN Dirs = 1..3 /\ Range(Dirs) = {"job", "baseline", "patched"} /\ Dirs[1] = "job"
  /\ DOMAIN Files = 1..4
  /\ Range(Files) = {"console.log", "dmesg.log", "exec.log", "compile.log"}
  /\ DOMAIN Watched = 1..2 /\ Range(Watched) = {"console.log", "exec.log"}
  /\ \A i \in 1..4 : Files[i] \in Range(Files)
  /\ \A i \in 1..2 : Watched[i] \in Range(Watched)
  /\ \A f \in Range(Files) : \E i \in 1..4 : Files[i] = f
  /\ \A f \in Range(Watched) : \E i \in 1..2 : Watched[i] = f
<1>1. DOMAIN Dirs = 1..3 /\ Range(Dirs) = {"job", "baseline", "patched"} /\ Dirs[1] = "job"
  BY DEF Dirs, Range
<1>2. DOMAIN Files = 1..4
  BY DEF Files
<1>3. Range(Files) = {"console.log", "dmesg.log", "exec.log", "compile.log"}
  BY DEF Files, Range
<1>4. DOMAIN Watched = 1..2 /\ Range(Watched) = {"console.log", "exec.log"}
  BY DEF Watched, Range
<1>5. /\ \A i \in 1..4 : Files[i] \in Range(Files)
      /\ \A f \in Range(Files) : \E i \in 1..4 : Files[i] = f
  BY <1>2 DEF Range
<1>6. /\ \A i \in 1..2 : Watched[i] \in Range(Watched)
      /\ \A f \in Range(Watched) : \E i \in 1..2 : Watched[i] = f
  BY <1>4 DEF Range
<1> QED BY <1>1, <1>2, <1>3, <1>4, <1>5, <1>6

\* What the bundle watches for in a file of a directory.
WatchedOf(dir, logs, f) ==
  Section(<<dir, f, "watched">>, Block(Those(logs[dir][f], {"hit"})))
\* What is suspicious in it for any bundle.
GeneralOf(dir, logs, f) ==
  Section(<<dir, f>>, IF f = "dmesg.log" THEN Heads(logs[dir][f])
                      ELSE Block(Hits(f, logs[dir][f])))

\* A section when the bundle's own pattern is in the file, which it shows first.
LEMMA WatchedIs ==
  ASSUME NEW logs \in JobLogsType, NEW dir \in Range(Dirs), NEW f \in Range(Watched)
  PROVE  /\ WatchedOf(dir, logs, f) \in Seq(Sections)
         /\ WatchedOf(dir, logs, f) = <<>> <=> \A i \in DOMAIN logs[dir][f] : logs[dir][f][i] # "hit"
         /\ WatchedOf(dir, logs, f) # <<>> => WatchedOf(dir, logs, f)[1].blocks[1][1] = "hit"
<1> DEFINE log == logs[dir][f]
           hits == Those(log, {"hit"})
           s == WatchedOf(dir, logs, f)
<1>1. log \in Seq(Lines)
  BY NamesAre DEF JobLogsType
<1>2. <<dir, f, "watched">> \in FileIds
  BY DEF FileIds
<1> HIDE DEF log
<1>3. /\ hits \in Seq(Lines) /\ (hits = <<>> <=> \A i \in DOMAIN log : log[i] # "hit")
      /\ hits # <<>> => hits[1] = "hit"
  BY <1>1, ThoseAre
<1>4. s = Section(<<dir, f, "watched">>, Block(hits))
  BY DEF WatchedOf, log
<1> HIDE DEF hits, s
<1>5. /\ Block(hits) \in Seq(Seq(Lines)) /\ Shown(Block(hits))
      /\ Block(hits) = <<>> <=> hits = <<>>
      /\ hits # <<>> => Block(hits)[1] = hits
  BY <1>3, BlockIs
<1>6. /\ s \in Seq(Sections) /\ (s = <<>> <=> Block(hits) = <<>>)
      /\ Block(hits) # <<>> => s[1].blocks = Block(hits)
  BY <1>2, <1>4, <1>5, SectionIs
<1>7. s = <<>> <=> \A i \in DOMAIN log : log[i] # "hit"
  BY <1>3, <1>5, <1>6
<1>8. s # <<>> => s[1].blocks[1][1] = "hit"
  BY <1>3, <1>5, <1>6
<1> QED BY <1>6, <1>7, <1>8 DEF s, log

\* The markers that are looked for in any log.
Suspicious(f, l) ==
  IF f = "dmesg.log" THEN l = "BUG:"
  ELSE l \in General /\ (f = "compile.log" => l # "panic")

\* A section when one of the general markers is in the file.
LEMMA GeneralIs ==
  ASSUME NEW logs \in JobLogsType, NEW dir \in Range(Dirs), NEW f \in Range(Files)
  PROVE  /\ GeneralOf(dir, logs, f) \in Seq(Sections)
         /\ GeneralOf(dir, logs, f) = <<>> <=>
              \A i \in DOMAIN logs[dir][f] : ~Suspicious(f, logs[dir][f][i])
<1> DEFINE log == logs[dir][f]
           s == GeneralOf(dir, logs, f)
           blocks == IF f = "dmesg.log" THEN Heads(log) ELSE Block(Hits(f, log))
<1>1. log \in Seq(Lines)
  BY DEF JobLogsType
<1>2. <<dir, f>> \in FileIds
  BY DEF FileIds
<1>3. s = Section(<<dir, f>>, blocks)
  BY DEF GeneralOf
<1> HIDE DEF log, s
<1>4. /\ blocks \in Seq(Seq(Lines)) /\ Shown(blocks)
      /\ blocks = <<>> <=> \A i \in DOMAIN log : ~Suspicious(f, log[i])
  <2>1. CASE f = "dmesg.log"
    <3>1. blocks = Heads(log) /\ \A l : Suspicious(f, l) <=> l = "BUG:"
      BY <2>1 DEF Suspicious
    <3> HIDE DEF blocks
    <3> QED BY <1>1, <3>1, HeadsAre
  <2>2. CASE f # "dmesg.log"
    <3> DEFINE T == IF f = "compile.log" THEN General \ {"panic"} ELSE General
               hits == Those(log, T)
    <3>1. blocks = Block(hits)
      BY <2>2 DEF Hits
    <3>2. \A l : l \in T <=> Suspicious(f, l)
      BY <2>2 DEF Suspicious
    <3> HIDE DEF T, blocks
    <3>3. hits \in Seq(Lines) /\ (hits = <<>> <=> \A i \in DOMAIN log : log[i] \notin T)
      BY <1>1, ThoseAre
    <3> HIDE DEF hits
    <3>4. /\ Block(hits) \in Seq(Seq(Lines)) /\ Shown(Block(hits))
          /\ Block(hits) = <<>> <=> hits = <<>>
      BY <3>3, BlockIs
    <3> QED BY <3>1, <3>2, <3>3, <3>4
  <2> QED BY <2>1, <2>2
<1> HIDE DEF blocks
<1>5. s \in Seq(Sections) /\ (s = <<>> <=> blocks = <<>>)
  BY <1>2, <1>3, <1>4, SectionIs
<1> QED BY <1>4, <1>5 DEF s, log

\* Together they are the lines of which somebody should hear.
LEMMA AlarmingIs ==
  ASSUME NEW f \in Range(Files), NEW l \in Lines
  PROVE  Alarming(f, l) <=> Suspicious(f, l) \/ (f \in Range(Watched) /\ l = "hit")
<1>1. f \in {"console.log", "dmesg.log", "exec.log", "compile.log"}
  BY NamesAre
<1>2. f \in Range(Watched) <=> f \in {"console.log", "exec.log"}
  BY NamesAre
<1>3. l \in Lines
  OBVIOUS
<1> QED BY <1>1, <1>2, <1>3 DEF Alarming, Suspicious, General, Lines

\* A directory's sections: none when its logs have nothing alarming, and what the
\* bundle watches for first.
LEMMA ScanIs ==
  ASSUME NEW logs \in JobLogsType, NEW dir \in Range(Dirs)
  PROVE  /\ scan_issue_dir(dir, logs) \in Seq(Sections)
         /\ scan_issue_dir(dir, logs) = <<>> <=>
              \A f \in Range(Files) : \A i \in DOMAIN logs[dir][f] : ~Alarming(f, logs[dir][f][i])
         /\ (\E f \in Range(Watched) : "hit" \in Range(logs[dir][f])) =>
              /\ scan_issue_dir(dir, logs) # <<>>
              /\ scan_issue_dir(dir, logs)[1].blocks[1][1] = "hit"
<1> DEFINE T == Seq(Sections)
           ws == [i \in DOMAIN Watched |-> WatchedOf(dir, logs, Watched[i])]
           gs == [i \in DOMAIN Files |-> GeneralOf(dir, logs, Files[i])]
           w == FlattenSeq(ws)
           g == FlattenSeq(gs)
           scan == scan_issue_dir(dir, logs)
<1>1. scan = w \o g
  BY DEF scan_issue_dir, WatchedOf, GeneralOf
<1>2. /\ DOMAIN ws = 1..2 /\ \A i \in 1..2 : ws[i] = WatchedOf(dir, logs, Watched[i])
      /\ DOMAIN gs = 1..4 /\ \A i \in 1..4 : gs[i] = GeneralOf(dir, logs, Files[i])
  BY NamesAre
<1>3. ws \in Seq(T) /\ gs \in Seq(T)
  <2>1. \A i \in 1..2 : WatchedOf(dir, logs, Watched[i]) \in T
    BY NamesAre, WatchedIs
  <2>2. \A i \in 1..4 : GeneralOf(dir, logs, Files[i]) \in T
    BY NamesAre, GeneralIs
  <2> HIDE DEF T
  <2> QED BY <2>1, <2>2, NamesAre
<1> HIDE DEF ws, gs, scan
<1>4. /\ w \in T /\ (w = <<>> <=> \A i \in 1..2 : ws[i] = <<>>)
      /\ w # <<>> => \E k \in 1..2 : ws[k] # <<>> /\ w[1] = ws[k][1]
  <2>1. /\ w \in T /\ (w = <<>> <=> \A i \in DOMAIN ws : ws[i] = <<>>)
        /\ w # <<>> => \E k \in DOMAIN ws : /\ ws[k] # <<>> /\ w[1] = ws[k][1]
                                            /\ \A j \in 1..(k - 1) : ws[j] = <<>>
    BY <1>3, Flattened
  <2> HIDE DEF w, T
  <2> QED BY <1>2, <2>1
<1>5. g \in T /\ (g = <<>> <=> \A i \in 1..4 : gs[i] = <<>>)
  <2>1. g \in T /\ (g = <<>> <=> \A i \in DOMAIN gs : gs[i] = <<>>)
    BY <1>3, Flattened
  <2> HIDE DEF g, T
  <2> QED BY <1>2, <2>1
<1> HIDE DEF w, g
<1>6. /\ scan \in T /\ (scan = <<>> <=> w = <<>> /\ g = <<>>)
      /\ w # <<>> => scan[1] = w[1]
  BY <1>1, <1>4, <1>5
<1> DEFINE Hit(f) == \E i \in DOMAIN logs[dir][f] : logs[dir][f][i] = "hit"
<1>7. w = <<>> <=> \A f \in Range(Watched) : ~Hit(f)
  <2>1. \A i \in 1..2 : ws[i] = <<>> <=> ~Hit(Watched[i])
    BY <1>2, NamesAre, WatchedIs
  <2> HIDE DEF Hit
  <2> QED BY <1>4, <2>1, NamesAre
<1>8. w # <<>> => w[1].blocks[1][1] = "hit"
  <2> SUFFICES ASSUME w # <<>> PROVE w[1].blocks[1][1] = "hit"
    OBVIOUS
  <2>1. PICK k \in 1..2 : ws[k] # <<>> /\ w[1] = ws[k][1]
    BY <1>4
  <2>2. Watched[k] \in Range(Watched) /\ ws[k] = WatchedOf(dir, logs, Watched[k])
    BY <1>2, NamesAre
  <2>3. ws[k][1].blocks[1][1] = "hit"
    BY <2>1, <2>2, WatchedIs
  <2> QED BY <2>1, <2>3
<1> DEFINE Marked(f) == \E i \in DOMAIN logs[dir][f] : Suspicious(f, logs[dir][f][i])
<1>9. g = <<>> <=> \A f \in Range(Files) : ~Marked(f)
  <2>1. \A f \in Range(Files) : GeneralOf(dir, logs, f) = <<>> <=> ~Marked(f)
    BY GeneralIs
  <2>2. \A i \in 1..4 : gs[i] = GeneralOf(dir, logs, Files[i]) /\ Files[i] \in Range(Files)
    BY <1>2, NamesAre
  <2> HIDE DEF Marked
  <2> QED BY <1>5, <2>1, <2>2, NamesAre
<1> DEFINE Alarm(f) == \E i \in DOMAIN logs[dir][f] : Alarming(f, logs[dir][f][i])
<1>10. \A f \in Range(Files) : Alarm(f) <=> Marked(f) \/ (f \in Range(Watched) /\ Hit(f))
  <2> SUFFICES ASSUME NEW f \in Range(Files)
               PROVE  Alarm(f) <=> Marked(f) \/ (f \in Range(Watched) /\ Hit(f))
    OBVIOUS
  <2>1. logs[dir][f] \in Seq(Lines)
    BY DEF JobLogsType
  <2>2. \A i \in DOMAIN logs[dir][f] : logs[dir][f][i] \in Lines
    BY <2>1
  <2>3. \A i \in DOMAIN logs[dir][f] :
          LET l == logs[dir][f][i] IN
          Alarming(f, l) <=> Suspicious(f, l) \/ (f \in Range(Watched) /\ l = "hit")
    BY <2>2, AlarmingIs
  <2> QED BY <2>3
<1>11. Range(Watched) \subseteq Range(Files)
  BY NamesAre
<1>12. scan = <<>> <=> \A f \in Range(Files) : ~Alarm(f)
  <2> HIDE DEF Alarm, Marked, Hit
  <2> QED BY <1>6, <1>7, <1>9, <1>10, <1>11
<1>13. ASSUME NEW f \in Range(Watched), "hit" \in Range(logs[dir][f])
       PROVE  scan # <<>> /\ scan[1].blocks[1][1] = "hit"
  <2>1. Hit(f)
    BY <1>13 DEF Range
  <2> HIDE DEF Hit
  <2>2. w # <<>>
    BY <1>7, <2>1
  <2> QED BY <1>6, <1>8, <2>2
<1>14. scan \in T /\ (scan = <<>> <=> \A f \in Range(Files) : ~Alarm(f))
       /\ ((\E f \in Range(Watched) : "hit" \in Range(logs[dir][f])) =>
             scan # <<>> /\ scan[1].blocks[1][1] = "hit")
  BY <1>6, <1>12, <1>13
<1> QED BY <1>14 DEF scan

\* The text under the readers of a job's logs is a log for each file of each directory.
JobLogsAreLogs == reading = "logs" => text \in JobLogsType

\* Lines are only ever added to one of them.
LEMMA JobLogsInvariant == Spec => []JobLogsAreLogs
<1>1. Init => JobLogsAreLogs
  <2>1. NoLogs \in JobLogsType
    BY DEF NoLogs, JobLogsType
  <2> QED BY <2>1 DEF Init, JobLogsAreLogs
<1>2. JobLogsAreLogs /\ [Next]_vars => JobLogsAreLogs'
  <2> SUFFICES ASSUME JobLogsAreLogs, [Next]_vars, reading' = "logs" PROVE text' \in JobLogsType
    BY DEF JobLogsAreLogs
  <2>1. CASE KernelLogs
    BY <2>1 DEF KernelLogs
  <2>2. CASE JobLogs
    <3>1. text \in JobLogsType
      BY <2>2 DEF JobLogs, JobLogsAreLogs
    <3>2. PICK d \in Range(Dirs), f \in Range(Files),
               l \in {"BUG:", "call_trace", "panic", "hit", "quiet"} :
            text' = [text EXCEPT ![d][f] = Append(@, l)]
      BY <2>2 DEF JobLogs
    <3>3. l \in Lines
      BY DEF Lines
    <3>4. Append(text[d][f], l) \in Seq(Lines)
      BY <3>1, <3>3 DEF JobLogsType
    <3> QED BY <3>1, <3>2, <3>4 DEF JobLogsType
  <2>3. CASE BundleGrows
    BY <2>3 DEF BundleGrows
  <2>4. CASE UNCHANGED vars
    BY <2>4 DEF vars, JobLogsAreLogs
  <2> QED BY <2>1, <2>2, <2>3, <2>4 DEF Next
<1> QED BY <1>1, <1>2, PTL DEF Spec

\* The prompt tells of whatever is alarming, and of the bundle's own patterns first.
LEMMA LogsAreTold ==
  ASSUME NEW logs \in JobLogsType
  PROVE  LET told == curate_issues(collect_issues(logs)) IN
         /\ told = <<>> <=>
              \A d \in Range(Dirs), f \in Range(Files) :
                \A i \in DOMAIN logs[d][f] : ~Alarming(f, logs[d][f][i])
         /\ (\E f \in Range(Watched) : "hit" \in Range(logs["job"][f])) => told[1].line = "hit"
<1> DEFINE T == Seq(Sections)
           seqs == [d \in DOMAIN Dirs |-> scan_issue_dir(Dirs[d], logs)]
           all == FlattenSeq(seqs)
           told == curate_issues(all)
           Silent(d) == \A f \in Range(Files) :
                          \A i \in DOMAIN logs[d][f] : ~Alarming(f, logs[d][f][i])
           Hit == \E f \in Range(Watched) : "hit" \in Range(logs["job"][f])
<1>1. \A d \in Range(Dirs) :
        scan_issue_dir(d, logs) \in T /\ (scan_issue_dir(d, logs) = <<>> <=> Silent(d))
  BY ScanIs
<1>2. Hit => scan_issue_dir("job", logs) # <<>>
             /\ scan_issue_dir("job", logs)[1].blocks[1][1] = "hit"
  BY NamesAre, ScanIs
<1> HIDE DEF Silent, Hit
<1>3. /\ \A k \in 1..3 : Dirs[k] \in Range(Dirs)
      /\ \A d \in Range(Dirs) : \E k \in 1..3 : Dirs[k] = d
  BY NamesAre DEF Range
<1>4. DOMAIN seqs = 1..3 /\ \A k \in 1..3 : seqs[k] = scan_issue_dir(Dirs[k], logs)
  BY NamesAre
<1>5. seqs \in Seq(T)
  <2>1. \A k \in 1..3 : scan_issue_dir(Dirs[k], logs) \in T
    BY <1>1, <1>3
  <2> HIDE DEF T
  <2> QED BY <2>1, NamesAre
<1>6. collect_issues(logs) = all
  BY DEF collect_issues
<1> HIDE DEF seqs
<1>7. /\ all \in T /\ (all = <<>> <=> \A k \in DOMAIN seqs : seqs[k] = <<>>)
      /\ all # <<>> => \E k \in DOMAIN seqs : /\ seqs[k] # <<>> /\ all[1] = seqs[k][1]
                                              /\ \A j \in 1..(k - 1) : seqs[j] = <<>>
  BY <1>5, Flattened
<1> HIDE DEF all
<1>8. /\ told = <<>> <=> all = <<>>
      /\ all # <<>> => told[1].line = all[1].blocks[1][1]
  BY <1>7, CuratedIs
<1> HIDE DEF told, T
<1>9. told = <<>> <=> \A d \in Range(Dirs) : Silent(d)
  BY <1>1, <1>3, <1>4, <1>7, <1>8
<1>10. Hit => told[1].line = "hit"
  <2> SUFFICES ASSUME Hit PROVE told[1].line = "hit"
    OBVIOUS
  <2>1. 1 \in 1..3 /\ seqs[1] = scan_issue_dir("job", logs)
    BY <1>4, NamesAre
  <2>2. seqs[1] # <<>> /\ seqs[1][1].blocks[1][1] = "hit"
    BY <1>2, <2>1
  <2>3. all # <<>>
    BY <1>4, <1>7, <2>1, <2>2
  <2>4. PICK k \in DOMAIN seqs : /\ seqs[k] # <<>> /\ all[1] = seqs[k][1]
                                 /\ \A j \in 1..(k - 1) : seqs[j] = <<>>
    BY <1>7, <2>3
  <2>5. k = 1
    <3>1. k \in 1..3
      BY <1>4
    <3>2. k # 1 => 1 \in 1..(k - 1)
      BY <3>1
    <3> QED BY <2>2, <2>4, <3>1, <3>2
  <2> QED BY <1>8, <2>2, <2>3, <2>4, <2>5
<1> QED BY <1>6, <1>9, <1>10 DEF told, Silent, Hit

\* Whatever is in the logs of a job and its variants and however little the prompt has
\* room for, the model hears of an error if and only if there is one (collect_issues,
\* curate_issues).
THEOREM PromptTellsHolds == Spec => []PromptTells
<1>1. JobLogsAreLogs => PromptTells
  <2> SUFFICES ASSUME text \in JobLogsType PROVE reading = "logs" => PromptTells
    BY DEF JobLogsAreLogs, PromptTells
  <2> QED BY LogsAreTold DEF PromptTells
<1> QED BY <1>1, JobLogsInvariant, PTL
================================================================================
