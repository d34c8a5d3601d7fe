------------------------------ MODULE BundleText ------------------------------
(***************************************************************************)
(* The readers of a bundle: run-kernel.py takes its metadata and files     *)
(* (parse_bundle), the server the patterns it declares (watched_patterns)  *)
(* and, for a prompt, its prose (curate_bundle).  Each finds the code      *)
(* fences and the metadata block by a rule of its own.                     *)
(***************************************************************************)
EXTENDS Integers, FiniteSetsExt, SequencesExt

\* A bundle is a sequence of lines, each from column 0 and without trailing blanks: a
\* rule (---), a "key: value" whose key is the pipeline's (META_KEYS), one whose key
\* declares a pattern to the server, a blank line or a key of neither, prose, a fence
\* of three or four backticks, and one that names what follows.
BundleLines == {"rule", "meta", "pattern", "idle", "prose", "fence3", "fence4", "code"}

\* What _parse_kv accepts: "key: value" or blank.
KeyValue == {"meta", "pattern", "idle"}

\* The backticks a line begins with.
Ticks(l) == IF l \in {"fence3", "code"} THEN 3 ELSE IF l = "fence4" THEN 4 ELSE 0
\* Nothing but backticks.
Bare(l) == l \in {"fence3", "fence4"}

------------------------------------------------------------------------------
(* watched_patterns.                                                       *)

\* Mutant: a longer run of backticks does not close a fence.
OpenFence_Exact(b) ==
  LET open[i \in 0..Len(b)] ==
        IF i = 0 THEN 0
        ELSE IF open[i - 1] = 0 THEN Ticks(b[i])
        ELSE IF Bare(b[i]) /\ Ticks(b[i]) > open[i - 1] THEN 0 ELSE open[i - 1]
  IN  open

\* After each line, the length of the fence that is open, or 0: it is closed by a
\* line of as many backticks or more.
OpenFence(b) ==
  LET open[i \in 0..Len(b)] ==
        IF i = 0 THEN 0
        ELSE IF open[i - 1] = 0 THEN Ticks(b[i])
        ELSE IF Bare(b[i]) /\ Ticks(b[i]) >= open[i - 1] THEN 0 ELSE open[i - 1]
  IN  open

WatchedCode(b) == {i \in 1..Len(b) : OpenFence(b)[i - 1] # 0 \/ Ticks(b[i]) # 0}

\* The patterns between the first two rules outside fences, or from the first on.
watched_patterns(b) ==
  LET dashes == {i \in 1..Len(b) : b[i] = "rule"} \ WatchedCode(b)
      rest == dashes \ {Min(dashes)}
      end == IF rest = {} THEN Len(b) + 1 ELSE Min(rest)
  IN  IF dashes = {} THEN {}
      ELSE {i \in (Min(dashes) + 1)..(end - 1) : b[i] = "pattern"} \ WatchedCode(b)

------------------------------------------------------------------------------
(* parse_bundle.                                                           *)

\* A fence is open until the next line of backticks alone, however many.
InBlock(b) ==
  LET open[i \in 0..Len(b)] ==
        IF i = 0 THEN FALSE ELSE IF open[i - 1] THEN ~Bare(b[i]) ELSE Ticks(b[i]) # 0
  IN  open

RunnerCode(b) == {i \in 1..Len(b) : InBlock(b)[i - 1] \/ Ticks(b[i]) # 0}

\* The metadata between the first two neighbours among the rules outside fences that
\* have only keys between them, one of them the pipeline's.
parse_bundle(b) ==
  LET dashes == {i \in 1..Len(b) : b[i] = "rule"} \ RunnerCode(b)
      inner(p) == (p[1] + 1)..(p[2] - 1)
      pairs == {p \in dashes \X dashes :
        /\ p[1] < p[2] /\ \A d \in dashes : d <= p[1] \/ d >= p[2]
        /\ \A i \in inner(p) : b[i] \in KeyValue
        /\ \E i \in inner(p) : b[i] = "meta"}
  IN  IF pairs = {} THEN {}
      ELSE LET first == CHOOSE p \in pairs : \A q \in pairs : p[1] <= q[1]
           IN  {i \in inner(first) : b[i] = "meta"}

------------------------------------------------------------------------------
(* curate_bundle: any fence turns the code on or off.                      *)

ProseLines(b) ==
  {i \in 1..Len(b) : Ticks(b[i]) = 0
                     /\ Cardinality({j \in 1..(i - 1) : Ticks(b[j]) # 0}) % 2 = 0}

================================================================================
