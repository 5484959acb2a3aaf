------------------------------- MODULE MCSoak -------------------------------
(* Small instances of Soak: two contents of two records each, one of none, *)
(* one of a record and a half; manifests that are true, or wrong in one    *)
(* respect.                                                                *)
EXTENDS Soak

ContentSet  == {"x", "y", "empty", "torn"}
ContentSize == [c \in ContentSet |->
                  CASE c \in {"x", "y"} -> 4 [] c = "empty" -> 0 [] c = "torn" -> 3]

True(c) == [asked |-> TRUE, bytes |-> ContentSize[c], count |-> ContentSize[c] \div 2,
            checksum |-> c, read |-> 2]

Stated(c) == {True(c)} \cup
  {[True(c) EXCEPT !.asked = FALSE], [True(c) EXCEPT !.bytes = @ + 1], [True(c) EXCEPT !.count = @ + 1],
   [True(c) EXCEPT !.checksum = "y"], [True(c) EXCEPT !.read = 1]}

Publishable == UNION {{[content |-> c, manifest |-> m] : m \in Stated(c)} : c \in ContentSet}

=============================================================================
