---------------------------- MODULE MCG301Params ----------------------------
(* Instances of G301Params for TLC: one length stands for the three, which *)
(* are treated alike, next to the tag and a name that is denied.           *)
EXTENDS G301Params

Entry(name, value) == [name |-> name, value |-> value]

MCEntries ==
  {Entry("ivlen", value) : value \in {"fixed", "wrong"}}
    \union {Entry("tag", value) : value \in {"fixed", "wrong", "null"}}
    \union {Entry("legacy", "fixed")}

(* One entry for each reason to refuse a list.                             *)
FewEntries ==
  {Entry("ivlen", "wrong"), Entry("tag", "fixed"), Entry("legacy", "fixed")}
=============================================================================
