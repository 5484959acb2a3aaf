---------------------------- MODULE MCSeparation ----------------------------
(* Every file system of two names, two levels deep, beside a directory     *)
(* with a source in it, and any two paths: where the source is beside      *)
(* them, both names are left to the way the output path takes.  The two    *)
(* names play the same part, so they may be exchanged.                     *)
EXTENDS Separation, TLC

CONSTANTS a, b, c
Exchanged == Permutations({a, b})
NameSet   == {a, b, c}

Links     == {Link(q) : q \in Paths({a, b})}
Leaves(p) == {Nothing, File(p)} \cup Links

(* What may be at a name of the top, with what is below it.                *)
Grown(n) ==
  {<<leaf, Nothing, Nothing>> : leaf \in Leaves(<<n>>)}
    \cup ({Directory} \X Leaves(<<n, a>>) \X Leaves(<<n, b>>))

Place(n, grown) == (<<n>> :> grown[1]) @@ (<<n, a>> :> grown[2]) @@ (<<n, b>> :> grown[3])
Beside          == (<<c>> :> Directory) @@ (<<c, c>> :> File(<<c, c>>))

MCTrees ==
  {LET made == Place(a, at_a) @@ Place(b, at_b) @@ Beside
   IN  [p \in Places |-> IF p \in DOMAIN made THEN made[p] ELSE Nothing] :
     at_a \in Grown(a), at_b \in Grown(b)}

MCGiven == (Paths({a, b}) \cup {<<c>>}) \X Paths({a, b})

=============================================================================
