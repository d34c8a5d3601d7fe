----------------------------- MODULE MCLocalModel -----------------------------
(***************************************************************************)
(* Up to two entries: a usable primary, a usable other, and three that     *)
(* lack something.                                                         *)
(***************************************************************************)
EXTENDS LocalModel

Entry(label, kind, base_url, key, primary, named) ==
  [label |-> label, kind |-> kind, base_url |-> base_url, key |-> key,
   primary |-> primary, named |-> named]

Entries ==
  {Entry("one", "openai", TRUE, "set", TRUE, TRUE),
   Entry("other", "opencode", FALSE, "none", FALSE, TRUE),
   Entry("no_key", "openai", TRUE, "unset", TRUE, TRUE),
   Entry("no_url", "openai", FALSE, "none", FALSE, TRUE),
   Entry("no_model", "opencode", FALSE, "none", TRUE, FALSE)}

MCConfigs == {<<>>} \union {<<e>> : e \in Entries} \union {<<d, e>> : d, e \in Entries}
================================================================================
