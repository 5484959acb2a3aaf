----------------------------- MODULE MCPipeline -----------------------------
(* Small instances of Pipeline: chains of up to three stages over sources of *)
(* up to four records of one value or two, with and without a manifest.     *)
EXTENDS Pipeline

Sample(n) == [transform |-> "sample", halves |-> n, usable |-> TRUE]
Fuzz      == [transform |-> "fuzz", halves |-> 2, usable |-> TRUE]
Quantise  == [transform |-> "quantise", halves |-> 2, usable |-> TRUE]
Unusable  == [Fuzz EXCEPT !.usable = FALSE]

Chains(first, rest) ==
  {<<s>> : s \in first} \cup {<<s, t>> : s \in first, t \in rest}
    \cup {<<s, t, u>> : s \in first, t \in rest, u \in rest}

Version1(chains) == [version : {1}, stages : chains]

Every    == {Sample(1), Fuzz, Quantise}
Anything == Version1(Chains(Every, Every) \cup {<<>>, <<Fuzz, Unusable>>, <<Sample(2), Fuzz>>})
              \cup [version : {2}, stages : {<<Fuzz>>}]

Layout(n, e)  == [values |-> n, encoding |-> e]
Float         == {Layout(1, "float32"), Layout(2, "float32")}

Raw(l, n)      == [bytes |-> n, layout |-> l, declared |-> NoLayout]
Declared(l, n) == [bytes |-> n, layout |-> l, declared |-> l]

\* A caller of the library may also ask for a corpus that is stored already.
Callers == Float \cup {Layout(2, "bfloat16")}

BothWhole == [n \in {"corpus", "manifest"} |-> "whole"]

FourSources == {Raw(Layout(1, "float32"), 12), Raw(Layout(2, "float32"), 0)}
                 \cup {Declared(l, 16) : l \in {Layout(2, "float32"), Layout(2, "bfloat16")}}

=============================================================================
