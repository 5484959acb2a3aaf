-------------------------- MODULE SeparationProofs --------------------------
(***************************************************************************)
(* What Separation guarantees in every file system two levels deep,        *)
(* whatever its links: a run keeps off its source, and publishing changes  *)
(* nothing beside the output.                                              *)
(***************************************************************************)
EXTENDS Separation, SequenceTheorems, WellFoundedInduction, TLAPS

-----------------------------------------------------------------------------
(* Paths.                                                                  *)

(* A path names one entry of the root, or one below it.                    *)
LEMMA PathForms ==
  ASSUME NEW S, NEW p
  PROVE  p \in Paths(S) <=> \/ \E n \in S : p = <<n>>
                            \/ \E n, m \in S : p = <<n, m>>
BY DEF Paths

LEMMA Lengths ==
  /\ Len(<<>>) = 0
  /\ \A n : Len(<<n>>) = 1
  /\ \A n, m : Len(<<n, m>>) = 2
OBVIOUS

LEMMA OneName ==
  ASSUME NEW S, NEW s \in Seq(S), Len(s) = 1
  PROVE  s = <<s[1]>>
<1>1. s[1] \in S
  OBVIOUS
<1>2. <<s[1]>> \in Seq(S) /\ Len(<<s[1]>>) = Len(s)
  BY <1>1
<1>3. \A i \in 1 .. Len(s) : s[i] = <<s[1]>>[i]
  OBVIOUS
<1> QED
  BY <1>2, <1>3, SeqEqual, Zenon

LEMMA TwoNames ==
  ASSUME NEW S, NEW s \in Seq(S), Len(s) = 2
  PROVE  s = <<s[1], s[2]>>
<1>1. s[1] \in S /\ s[2] \in S
  <2>1. 1 \in 1 .. Len(s) /\ 2 \in 1 .. Len(s)
    OBVIOUS
  <2> QED
    BY <2>1, ElementOfSeq
<1>2. <<s[1], s[2]>> \in Seq(S) /\ Len(<<s[1], s[2]>>) = Len(s)
  BY <1>1
<1>3. \A i \in 1 .. Len(s) : s[i] = <<s[1], s[2]>>[i]
  <2>1. \A i \in 1 .. Len(s) : i = 1 \/ i = 2
    OBVIOUS
  <2>2. <<s[1], s[2]>>[1] = s[1] /\ <<s[1], s[2]>>[2] = s[2]
    OBVIOUS
  <2> QED
    BY <2>1, <2>2
<1> QED
  BY <1>2, <1>3, SeqEqual, Zenon

(* Its last name and the rest.                                             *)
LEMMA Parts ==
  /\ \A n : Front(<<n>>) = <<>> /\ Last(<<n>>) = n
  /\ \A n, m : Front(<<n, m>>) = <<n>> /\ Last(<<n, m>>) = m
  /\ \A n : Append(<<>>, n) = <<n>>
  /\ \A n, m : Append(<<n>>, m) = <<n, m>>
<1>1. ASSUME NEW n PROVE Front(<<n>>) = <<>> /\ Last(<<n>>) = n
  <2>1. Front(<<n>>) = <<>>
    BY DEF Front
  <2>2. Last(<<n>>) = n
    BY DEF Last
  <2> QED
    BY <2>1, <2>2
<1>2. ASSUME NEW n, NEW m PROVE Front(<<n, m>>) = <<n>> /\ Last(<<n, m>>) = m
  <2> DEFINE s == SubSeq(<<n, m>>, 1, 1)
  <2>1. Front(<<n, m>>) = s
    BY DEF Front
  <2>2. s \in Seq({n, m}) /\ Len(s) = 1 /\ s[1] = n
    OBVIOUS
  <2> HIDE DEF s
  <2>3. s = <<n>>
    BY <2>2, OneName
  <2>4. Last(<<n, m>>) = m
    BY DEF Last
  <2> QED
    BY <2>1, <2>3, <2>4
<1>3. ASSUME NEW n PROVE Append(<<>>, n) = <<n>>
  OBVIOUS
<1>4. ASSUME NEW n, NEW m PROVE Append(<<n>>, m) = <<n, m>>
  <2> DEFINE s == Append(<<n>>, m)
  <2>1. s \in Seq({n, m}) /\ Len(s) = 2 /\ s[1] = n /\ s[2] = m
    <3>1. <<n>> \in Seq({n, m}) /\ Len(<<n>>) = 1 /\ <<n>>[1] = n
      OBVIOUS
    <3>2. m \in {n, m}
      OBVIOUS
    <3> QED
      BY <3>1, <3>2, AppendProperties
  <2> HIDE DEF s
  <2>2. s = <<n, m>>
    BY <2>1, TwoNames
  <2> QED
    BY <2>2 DEF s
<1> QED
  BY <1>1, <1>2, <1>3, <1>4

LEMMA Differ ==
  /\ \A n : <<n>> # <<>>
  /\ \A n, m : <<n, m>> # <<>>
  /\ \A n, m, k : <<n, m>> # <<k>>
  /\ \A n, k : <<n>> = <<k>> <=> n = k
  /\ \A n, m, k, l : <<n, m>> = <<k, l>> <=> n = k /\ m = l
BY Lengths

(* What is under what.                                                     *)
LEMMA UnderForms ==
  /\ \A p : p \in Places \cup {<<>>} => Under(<<>>, p)
  /\ \A n : ~Under(<<n>>, <<>>)
  /\ \A n, m : ~Under(<<n, m>>, <<>>)
  /\ \A n, k : Under(<<n>>, <<k>>) <=> n = k
  /\ \A n, k, l : Under(<<n>>, <<k, l>>) <=> n = k
  /\ \A n, m, k : ~Under(<<n, m>>, <<k>>)
  /\ \A n, m, k, l : Under(<<n, m>>, <<k, l>>) <=> n = k /\ m = l
BY DEF Under, IsPrefix

(* The places paths name are at the top or one below it.                   *)
LEMMA AskedForms ==
  \A p : p \in Asked <=> \/ \E n \in Names : p = <<n>>
                         \/ \E n, m \in Names : p = <<n, m>>
BY PathForms DEF Asked

LEMMA PlaceForms ==
  \A p : p \in Places <=> \/ \E n \in AllNames : p = <<n>>
                          \/ \E n, m \in AllNames : p = <<n, m>>
BY PathForms DEF Places

LEMMA AskedPlaces == Asked \subseteq Places
BY AskedForms, PlaceForms DEF AllNames

(* An entry of the root, or of a place at the top.                         *)
LEMMA EntryAsked ==
  ASSUME NEW parent, parent = <<>> \/ (parent \in Asked /\ Len(parent) # 2), NEW name \in Names
  PROVE  Append(parent, name) \in Asked
<1>1. CASE parent = <<>>
  BY <1>1, Parts, AskedForms
<1>2. CASE parent \in Asked /\ Len(parent) # 2
  <2>1. PICK n \in Names : parent = <<n>>
    BY <1>2, AskedForms, Lengths
  <2>2. Append(parent, name) = <<n, name>>
    BY <2>1, Parts
  <2> QED
    BY <2>2, AskedForms
<1> QED
  BY <1>1, <1>2

-----------------------------------------------------------------------------
(* Path resolution.                                                        *)

LEMMA Kinds ==
  /\ Nothing.kind = "nothing" /\ Directory.kind = "directory" /\ Corpus.kind = "corpus"
  /\ \A p : File(p).kind = "file" /\ Link(p).kind = "link" /\ Link(p).to = p
BY DEF Nothing, Directory, Corpus, File, Link

LEMMA Found ==
  /\ \A a : At(a).found /\ At(a).at = a
  /\ ~Nowhere.found
  /\ \A a, b : At(a) = At(b) <=> a = b
BY DEF At, Nowhere

(* What resolution needs of a tree: links lead to paths callers can name,  *)
(* and there are directories at the top only.                              *)
Shaped(t) ==
  \A p \in Asked : /\ t[p].kind = "link" => t[p].to \in Asked
                   /\ Len(p) = 2 => t[p].kind # "directory"

(* What a path leads to: nowhere, or something that is not a link.         *)
Led(t, answer) ==
  \/ answer = Nowhere
  \/ \E a \in Asked : answer = At(a) /\ t[a] # Nothing /\ t[a].kind # "link"

LEMMA EnterLed ==
  ASSUME NEW t, Shaped(t), NEW f, \A p \in Asked : Led(t, f[p]),
         NEW parent, parent = At(<<>>) \/ Led(t, parent), NEW name \in Names
  PROVE  Led(t, Enter(t, f, parent, name))
<1> DEFINE here == Append(parent.at, name)
<1>1. CASE ~parent.found \/ KindOf(t, parent.at) # "directory" \/ t[here] = Nothing
  BY <1>1 DEF Enter, Led
<1>2. CASE parent.found /\ KindOf(t, parent.at) = "directory" /\ t[here] # Nothing
  <2>1. parent.at = <<>> \/ (parent.at \in Asked /\ Len(parent.at) # 2)
    <3>1. CASE parent = At(<<>>)
      BY <3>1, Found
    <3>2. CASE parent # At(<<>>)
      <4>1. PICK a \in Asked : parent = At(a)
        BY <1>2, <3>2, Found DEF Led
      <4>2. parent.at = a /\ a # <<>>
        BY <4>1, Found, AskedForms, Differ
      <4>3. t[a].kind = "directory"
        BY <1>2, <4>2 DEF KindOf
      <4> QED
        BY <4>2, <4>3 DEF Shaped
    <3> QED
      BY <3>1, <3>2
  <2>2. here \in Asked
    BY <2>1, EntryAsked
  <2>3. Enter(t, f, parent, name) = IF t[here].kind = "link" THEN f[t[here].to] ELSE At(here)
    BY <1>2 DEF Enter
  <2> HIDE DEF here
  <2>4. CASE t[here].kind = "link"
    <3>1. t[here].to \in Asked
      BY <2>2, <2>4 DEF Shaped
    <3> QED
      BY <2>3, <2>4, <3>1
  <2>5. CASE t[here].kind # "link"
    BY <1>2, <2>2, <2>3, <2>5 DEF Led, here
  <2> QED
    BY <2>4, <2>5
<1> QED
  BY <1>1, <1>2

LEMMA WalkForms ==
  ASSUME NEW t, NEW f
  PROVE  /\ Walk(t, f)[<<>>] = At(<<>>)
         /\ \A n \in Names : Walk(t, f)[<<n>>] = Enter(t, f, At(<<>>), n)
         /\ \A n, m \in Names :
              Walk(t, f)[<<n, m>>] = Enter(t, f, Enter(t, f, At(<<>>), n), m)
<1>1. Walk(t, f)[<<>>] = At(<<>>)
  BY DEF Walk
<1>2. ASSUME NEW n \in Names PROVE Walk(t, f)[<<n>>] = Enter(t, f, At(<<>>), n)
  <2>1. <<n>> \in Asked \cup {<<>>} /\ <<n>> # <<>> /\ Len(<<n>>) = 1 /\ <<n>>[1] = n
    BY AskedForms, Lengths, Differ
  <2> QED
    BY <2>1 DEF Walk
<1>3. ASSUME NEW n \in Names, NEW m \in Names
      PROVE  Walk(t, f)[<<n, m>>] = Enter(t, f, Enter(t, f, At(<<>>), n), m)
  <2>1. /\ <<n, m>> \in Asked \cup {<<>>} /\ <<n, m>> # <<>> /\ Len(<<n, m>>) # 1
        /\ <<n, m>>[1] = n /\ <<n, m>>[2] = m
    BY AskedForms, Lengths, Differ
  <2> QED
    BY <2>1 DEF Walk
<1> QED
  BY <1>1, <1>2, <1>3

(* Of a set of numbers there is a least one.                               *)
LEMMA Least ==
  ASSUME NEW T \in SUBSET Nat, T # {}
  PROVE  \E n \in T : \A m \in T : n <= m
<1>1. PICK x \in T : \A y \in T : ~ (<<y, x>> \in OpToRel(<, Nat))
  BY NatLessThanWellFounded, WFMin, Zenon
<1>2. \A y \in T : ~(y < x)
  <2> SUFFICES ASSUME NEW y \in T, y < x PROVE FALSE
    OBVIOUS
  <2>1. <<y, x>> \in OpToRel(<, Nat)
    BY Zenon DEF OpToRel
  <2> QED
    BY <1>1, <2>1, Zenon
<1> QED
  BY <1>2

(* Where links lead at most so deep is where the walk that follows those   *)
(* leads.                                                                  *)
Further(t, k) == IF k = 0 THEN [p \in Asked |-> Nowhere] ELSE Leads(t)[k - 1]

LEMMA LeadsUnfold ==
  ASSUME NEW t, NEW k \in 0 .. MaxLinks
  PROVE  Leads(t)[k] = Walk(t, Further(t, k))
<1> DEFINE F(g, links) == IF links = 0 THEN [p \in Asked |-> Nowhere] ELSE g[links - 1]
           Solves(g, n) == g = [links \in 0 .. n |-> Walk(t, F(g, links))]
           Unsolved == {n \in Nat : ~ \E g : Solves(g, n)}
<1>1. Unsolved = {}
  <2> SUFFICES ASSUME Unsolved # {} PROVE FALSE
    OBVIOUS
  <2>1. PICK n \in Unsolved : \A m \in Unsolved : n <= m
    BY Least
  <2>2. n \in Nat /\ ~ \E g : Solves(g, n)
    OBVIOUS
  <2>3. CASE n = 0
    <3> DEFINE h == [links \in 0 .. 0 |-> Walk(t, [p \in Asked |-> Nowhere])]
    <3>1. \A links \in 0 .. 0 : F(h, links) = [p \in Asked |-> Nowhere]
      OBVIOUS
    <3>2. h = [links \in 0 .. 0 |-> Walk(t, F(h, links))]
      OBVIOUS
    <3> QED
      BY <2>2, <2>3, <3>2
  <2>4. CASE n # 0
    <3>1. n - 1 \in Nat /\ ~(n <= n - 1)
      BY <2>2, <2>4
    <3>2. \E g : Solves(g, n - 1)
      <4> HIDE DEF Solves
      <4>1. n - 1 \notin Unsolved
        <5> HIDE DEF Unsolved
        <5> QED
          BY <2>1, <3>1, Zenon
      <4> QED
        BY <3>1, <4>1
    <3>3. PICK g : Solves(g, n - 1)
      BY <3>2, Zenon
    <3> DEFINE h == [links \in 0 .. n |-> Walk(t, F(g, links))]
    <3>4. ASSUME NEW links \in 0 .. n - 1 PROVE h[links] = g[links]
      <4>1. g[links] = Walk(t, F(g, links))
        BY <3>3
      <4>2. links \in 0 .. n
        BY <2>2
      <4> QED
        BY <4>1, <4>2, Zenon
    <3>5. ASSUME NEW links \in 0 .. n PROVE F(h, links) = F(g, links)
      <4>1. CASE links = 0
        BY <4>1
      <4>2. CASE links # 0
        <5>1. links - 1 \in 0 .. n - 1
          BY <2>2, <3>5, <4>2
        <5>2. h[links - 1] = g[links - 1]
          BY <3>4, <5>1
        <5> HIDE DEF h
        <5> QED
          BY <4>2, <5>2
      <4> QED
        BY <4>1, <4>2
    <3>6. h = [links \in 0 .. n |-> h[links]]
      BY <2>2
    <3>7. \A links \in 0 .. n : h[links] = Walk(t, F(g, links))
      OBVIOUS
    <3> HIDE DEF h
    <3>8. \A links \in 0 .. n : h[links] = Walk(t, F(h, links))
      <4> HIDE DEF F
      <4> QED
        BY <3>5, <3>7
    <3>9. Solves(h, n)
      <4> HIDE DEF F
      <4> QED
        BY <3>6, <3>8
    <3> QED
      BY <2>2, <3>9
  <2> QED
    BY <2>3, <2>4
<1>2. \E g : Solves(g, MaxLinks)
  <2> HIDE DEF Solves
  <2> QED
    BY <1>1, LinksAssumption
<1>3. Leads(t) = CHOOSE g : Solves(g, MaxLinks)
  BY DEF Leads
<1>4. Solves(Leads(t), MaxLinks)
  <2> HIDE DEF Solves
  <2> QED
    BY <1>2, <1>3, Zenon
<1>5. F(Leads(t), k) = Further(t, k)
  BY DEF Further
<1>6. Leads(t) = [links \in 0 .. MaxLinks |-> Walk(t, F(Leads(t), links))]
  BY <1>4
<1> HIDE DEF F
<1>7. Leads(t)[k] = Walk(t, F(Leads(t), k))
  BY <1>6
<1> QED
  BY <1>5, <1>7

LEMMA LinksLed ==
  ASSUME NEW t, Shaped(t), NEW k \in 0 .. MaxLinks
  PROVE  /\ Leads(t)[k][<<>>] = At(<<>>)
         /\ \A p \in Asked : Led(t, Leads(t)[k][p])
<1> DEFINE Good(i) == \A p \in Asked : Led(t, Leads(t)[i][p])
           Bad == {i \in 0 .. MaxLinks : ~Good(i)}
<1>1. Bad = {}
  <2> SUFFICES ASSUME Bad # {} PROVE FALSE
    OBVIOUS
  <2>0. Bad \in SUBSET Nat
    BY LinksAssumption
  <2>1. PICK i \in Bad : \A j \in Bad : i <= j
    <3> HIDE DEF Bad
    <3> QED
      BY <2>0, Least, Zenon
  <2>2. i \in 0 .. MaxLinks /\ ~Good(i)
    OBVIOUS
  <2>3. \A p \in Asked : Led(t, Further(t, i)[p])
    <3>1. CASE i = 0
      BY <3>1 DEF Further, Led
    <3>2. CASE i # 0
      <4>1. i - 1 \in 0 .. MaxLinks /\ ~(i <= i - 1)
        BY <2>2, <3>2, LinksAssumption
      <4>2. Good(i - 1)
        <5> HIDE DEF Good
        <5> QED
          BY <2>1, <4>1
      <4> QED
        BY <3>2, <4>2 DEF Further
    <3> QED
      BY <3>1, <3>2
  <2>4. Leads(t)[i] = Walk(t, Further(t, i))
    BY <2>2, LeadsUnfold
  <2>5. ASSUME NEW n \in Names PROVE Led(t, Enter(t, Further(t, i), At(<<>>), n))
    BY <2>3, EnterLed
  <2>6. ASSUME NEW n \in Names, NEW m \in Names
        PROVE  Led(t, Enter(t, Further(t, i), Enter(t, Further(t, i), At(<<>>), n), m))
    BY <2>3, <2>5, EnterLed
  <2>7. ASSUME NEW p \in Asked PROVE Led(t, Leads(t)[i][p])
    <3>1. CASE \E n \in Names : p = <<n>>
      BY <2>4, <2>5, <3>1, WalkForms
    <3>2. CASE \E n, m \in Names : p = <<n, m>>
      BY <2>4, <2>6, <3>2, WalkForms
    <3> QED
      BY <3>1, <3>2, AskedForms
  <2> QED
    BY <2>2, <2>7
<1>2. Leads(t)[k][<<>>] = At(<<>>)
  BY LeadsUnfold, WalkForms
<1> QED
  BY <1>1, <1>2

(* A tree that holds all that another holds, but perhaps not what is at x, *)
(* which no path leads through: paths lead where they led, other than to x.*)
Keeps(t, u, x) ==
  /\ \A p \in Asked : t[p] # Nothing /\ p # x => u[p] = t[p]
  /\ x # <<>> /\ (x \in Asked => t[x].kind \notin {"link", "directory"})

Same(answer, other, x) == answer.found /\ answer.at # x => other = answer

LEMMA EnterSame ==
  ASSUME NEW t, Shaped(t), NEW u, NEW x, Keeps(t, u, x),
         NEW f, NEW g, \A p \in Asked : Same(f[p], g[p], x),
         NEW parent, parent = At(<<>>) \/ Led(t, parent),
         NEW other, Same(parent, other, x), NEW name \in Names
  PROVE  Same(Enter(t, f, parent, name), Enter(u, g, other, name), x)
<1> DEFINE here == Append(parent.at, name)
           answer == Enter(t, f, parent, name)
<1> SUFFICES ASSUME answer.found, answer.at # x PROVE Enter(u, g, other, name) = answer
  BY DEF Same
<1>1. parent.found /\ KindOf(t, parent.at) = "directory" /\ t[here] # Nothing
  BY Found DEF Enter
<1>2. answer = IF t[here].kind = "link" THEN f[t[here].to] ELSE At(here)
  BY <1>1 DEF Enter
<1>3. \/ parent.at = <<>>
      \/ /\ parent.at \in Asked /\ Len(parent.at) # 2
         /\ t[parent.at] # Nothing /\ t[parent.at].kind = "directory"
  <2>1. CASE parent = At(<<>>)
    BY <2>1, Found
  <2>2. CASE parent # At(<<>>)
    <3>1. PICK a \in Asked : parent = At(a) /\ t[a] # Nothing
      BY <1>1, <2>2, Found DEF Led
    <3>2. parent.at = a /\ a # <<>>
      BY <3>1, Found, AskedForms, Differ
    <3>3. t[a].kind = "directory"
      BY <1>1, <3>2 DEF KindOf
    <3> QED
      BY <3>1, <3>2, <3>3 DEF Shaped
  <2> QED
    BY <2>1, <2>2
<1>4. parent.at # x
  BY <1>3 DEF Keeps
<1>5. other = parent
  BY <1>1, <1>4 DEF Same
<1>6. KindOf(u, parent.at) = "directory"
  BY <1>1, <1>3, <1>4 DEF Keeps, KindOf
<1>7. here \in Asked
  BY <1>3, EntryAsked
<1> HIDE DEF answer, here
<1>8. here # x
  <2> SUFFICES ASSUME here = x PROVE FALSE
    OBVIOUS
  <2>1. t[here].kind # "link"
    BY <1>7 DEF Keeps
  <2> QED
    BY <1>2, <2>1, Found DEF answer
<1>9. u[here] = t[here]
  BY <1>1, <1>7, <1>8 DEF Keeps
<1>10. Enter(u, g, other, name) = IF t[here].kind = "link" THEN g[t[here].to] ELSE At(here)
  BY <1>1, <1>5, <1>6, <1>9 DEF Enter, here
<1>11. CASE t[here].kind = "link"
  <2>1. t[here].to \in Asked
    BY <1>7, <1>11 DEF Shaped
  <2>2. answer = f[t[here].to]
    BY <1>2, <1>11
  <2>3. g[t[here].to] = f[t[here].to]
    BY <2>1, <2>2 DEF Same, answer
  <2> QED
    BY <1>10, <1>11, <2>2, <2>3
<1>12. CASE t[here].kind # "link"
  BY <1>2, <1>10, <1>12
<1> QED
  BY <1>11, <1>12 DEF answer

LEMMA LinksSame ==
  ASSUME NEW t, Shaped(t), NEW u, NEW x, Keeps(t, u, x), NEW k \in 0 .. MaxLinks
  PROVE  \A p \in Asked \cup {<<>>} : Same(Leads(t)[k][p], Leads(u)[k][p], x)
<1> DEFINE Good(i) == \A p \in Asked : Same(Leads(t)[i][p], Leads(u)[i][p], x)
           Bad == {i \in 0 .. MaxLinks : ~Good(i)}
<1>1. Bad = {}
  <2> SUFFICES ASSUME Bad # {} PROVE FALSE
    OBVIOUS
  <2>0. Bad \in SUBSET Nat
    BY LinksAssumption
  <2>1. PICK i \in Bad : \A j \in Bad : i <= j
    <3> HIDE DEF Bad
    <3> QED
      BY <2>0, Least, Zenon
  <2>2. i \in 0 .. MaxLinks /\ ~Good(i)
    OBVIOUS
  <2> DEFINE f == Further(t, i)
             g == Further(u, i)
  <2>3. \A p \in Asked : Same(f[p], g[p], x)
    <3>1. CASE i = 0
      BY <3>1, Found DEF Further, Same
    <3>2. CASE i # 0
      <4>1. i - 1 \in 0 .. MaxLinks /\ ~(i <= i - 1)
        BY <2>2, <3>2, LinksAssumption
      <4>2. Good(i - 1)
        <5> HIDE DEF Good
        <5> QED
          BY <2>1, <4>1
      <4> QED
        BY <3>2, <4>2 DEF Further
    <3> QED
      BY <3>1, <3>2
  <2>4. \A p \in Asked : Led(t, f[p])
    <3>1. CASE i = 0
      BY <3>1 DEF Further, Led
    <3>2. CASE i # 0
      <4>1. i - 1 \in 0 .. MaxLinks
        BY <2>2, <3>2, LinksAssumption
      <4>2. \A p \in Asked : Led(t, Leads(t)[i - 1][p])
        BY <4>1, LinksLed
      <4> QED
        BY <3>2, <4>2 DEF Further
    <3> QED
      BY <3>1, <3>2
  <2>5. Leads(t)[i] = Walk(t, f) /\ Leads(u)[i] = Walk(u, g)
    BY <2>2, LeadsUnfold
  <2> HIDE DEF f, g
  <2>6. ASSUME NEW n \in Names
        PROVE  /\ Led(t, Enter(t, f, At(<<>>), n))
               /\ Same(Enter(t, f, At(<<>>), n), Enter(u, g, At(<<>>), n), x)
    <3>1. Led(t, Enter(t, f, At(<<>>), n))
      BY <2>4, EnterLed
    <3>2. Same(At(<<>>), At(<<>>), x)
      BY DEF Same
    <3>3. Same(Enter(t, f, At(<<>>), n), Enter(u, g, At(<<>>), n), x)
      BY <2>3, <3>2, EnterSame
    <3> QED
      BY <3>1, <3>3
  <2>7. ASSUME NEW n \in Names, NEW m \in Names
        PROVE  Same(Enter(t, f, Enter(t, f, At(<<>>), n), m),
                    Enter(u, g, Enter(u, g, At(<<>>), n), m), x)
    BY <2>3, <2>6, EnterSame
  <2>8. ASSUME NEW p \in Asked PROVE Same(Leads(t)[i][p], Leads(u)[i][p], x)
    <3>1. CASE \E n \in Names : p = <<n>>
      BY <2>5, <2>6, <3>1, WalkForms
    <3>2. CASE \E n, m \in Names : p = <<n, m>>
      BY <2>5, <2>7, <3>2, WalkForms
    <3> QED
      BY <3>1, <3>2, AskedForms
  <2> QED
    BY <2>2, <2>8
<1>2. Leads(t)[k][<<>>] = At(<<>>) /\ Leads(u)[k][<<>>] = At(<<>>)
  BY LeadsUnfold, WalkForms
<1> QED
  BY <1>1, <1>2 DEF Same

LEMMA RealSame ==
  ASSUME NEW t, Shaped(t), NEW u, NEW x, Keeps(t, u, x),
         NEW p \in Asked \cup {<<>>}, Real(t, p).found, Real(t, p).at # x
  PROVE  Real(u, p) = Real(t, p)
<1>1. MaxLinks \in 0 .. MaxLinks
  BY LinksAssumption
<1>2. Same(Leads(t)[MaxLinks][p], Leads(u)[MaxLinks][p], x)
  BY <1>1, LinksSame
<1> QED
  BY <1>2 DEF Same, Real

(* What a path leads to is where such paths go, and there is something.    *)
LEMMA RealLed ==
  ASSUME NEW t, Shaped(t)
  PROVE  /\ Real(t, <<>>) = At(<<>>)
         /\ \A p \in Asked : Led(t, Real(t, p))
<1>1. MaxLinks \in 0 .. MaxLinks
  BY LinksAssumption
<1> QED
  BY <1>1, LinksLed DEF Real

(* Trees that hold the same where callers' names lead agree on every path. *)
LEMMA RealAgrees ==
  ASSUME NEW t, NEW u, Shaped(t), \A p \in Asked : u[p] = t[p]
  PROVE  \A p \in Asked \cup {<<>>} : Real(u, p) = Real(t, p)
<1> TAKE p \in Asked \cup {<<>>}
<1>1. Shaped(u)
  BY DEF Shaped
<1> DEFINE x == <<Staging>>
<1>2. x # <<>> /\ x \notin Asked
  BY AskedForms, Differ, NamesAssumption DEF ScratchNames
<1>3. Keeps(t, u, x) /\ Keeps(u, t, x)
  BY <1>2 DEF Keeps
<1>4. ASSUME NEW v, Shaped(v) PROVE Real(v, p) = Nowhere \/ (Real(v, p).found /\ Real(v, p).at # x)
  <2>1. CASE p = <<>>
    BY <1>2, <1>4, <2>1, RealLed, Found
  <2>2. CASE p \in Asked
    <3>1. Led(v, Real(v, p))
      BY <1>4, <2>2, RealLed
    <3> QED
      BY <1>2, <3>1, Found DEF Led
  <2> QED
    BY <2>1, <2>2
<1> HIDE DEF x
<1>5. CASE Real(t, p).found
  <2>1. Real(t, p).at # x
    BY <1>4, <1>5, Found
  <2> QED
    BY <1>3, <1>5, <2>1, RealSame
<1>6. CASE Real(u, p).found
  <2>1. Real(u, p).at # x
    BY <1>1, <1>4, <1>6, Found
  <2> QED
    BY <1>1, <1>3, <1>6, <2>1, RealSame
<1>7. CASE ~Real(t, p).found /\ ~Real(u, p).found
  BY <1>1, <1>4, <1>7
<1> QED
  BY <1>5, <1>6, <1>7

-----------------------------------------------------------------------------
(* The places the run works on: the entry it replaces, and its two scratch *)
(* names beside that.                                                      *)

IsHome(home) == home = <<>> \/ \E d \in Names : home = <<d>>

(* Different names beside each other are different places, and nothing is  *)
(* under two of them; none is under the directory they are in, which is no *)
(* place among them; callers' names never lead under a scratch name.       *)
LEMMA Siblings ==
  ASSUME NEW home, IsHome(home), NEW n \in AllNames, NEW m \in AllNames
  PROVE  /\ Append(home, n) \in Places
         /\ n \in Names => Append(home, n) \in Asked
         /\ Append(home, n) # home /\ ~Under(Append(home, n), home) /\ Under(home, Append(home, n))
         /\ Under(Append(home, n), Append(home, n))
         /\ n # m => Append(home, n) # Append(home, m)
         /\ n # m => \A p \in Places : ~(Under(Append(home, n), p) /\ Under(Append(home, m), p))
         /\ n \notin Names => \A p \in Asked : ~Under(Append(home, n), p)
<1> DEFINE P == Append(home, n)
           Q == Append(home, m)
<1>1. /\ P \in Places /\ (n \in Names => P \in Asked) /\ P # home
      /\ ~Under(P, home) /\ Under(home, P) /\ Under(P, P) /\ (n # m => P # Q)
  <2>1. CASE home = <<>>
    <3>1. P = <<n>> /\ Q = <<m>>
      BY <2>1, Parts
    <3>2. P \in Places /\ (n \in Names => P \in Asked)
      BY <3>1, PlaceForms, AskedForms
    <3> QED
      BY <2>1, <3>1, <3>2, UnderForms, Differ
  <2>2. ASSUME NEW d \in Names, home = <<d>>
        PROVE  /\ P \in Places /\ (n \in Names => P \in Asked) /\ P # home
               /\ ~Under(P, home) /\ Under(home, P) /\ Under(P, P) /\ (n # m => P # Q)
    <3>1. P = <<d, n>> /\ Q = <<d, m>>
      BY <2>2, Parts
    <3>2. P \in Places /\ (n \in Names => P \in Asked)
      BY <3>1, PlaceForms, AskedForms DEF AllNames
    <3>3. P # home /\ (n # m => P # Q)
      BY <2>2, <3>1, Differ
    <3>4. ~Under(P, home) /\ Under(home, P) /\ Under(P, P)
      <4>1. ~Under(<<d, n>>, <<d>>) /\ Under(<<d>>, <<d, n>>) /\ Under(<<d, n>>, <<d, n>>)
        BY UnderForms, Zenon
      <4> HIDE DEF P
      <4> QED
        BY <2>2, <3>1, <4>1
    <3> QED
      BY <3>2, <3>3, <3>4
  <2> QED
    BY <2>1, <2>2 DEF IsHome
<1>2. ASSUME n # m, NEW p \in Places PROVE ~(Under(P, p) /\ Under(Q, p))
  <2>1. CASE home = <<>>
    <3>1. P = <<n>> /\ Q = <<m>>
      BY <2>1, Parts
    <3> QED
      BY <1>2, <3>1, PlaceForms, UnderForms
  <2>2. ASSUME NEW d \in Names, home = <<d>> PROVE ~(Under(P, p) /\ Under(Q, p))
    <3>1. P = <<d, n>> /\ Q = <<d, m>>
      BY <2>2, Parts
    <3> QED
      BY <1>2, <3>1, PlaceForms, UnderForms
  <2> QED
    BY <2>1, <2>2 DEF IsHome
<1>3. ASSUME n \notin Names, NEW p \in Asked PROVE ~Under(P, p)
  <2>1. CASE home = <<>>
    <3>1. P = <<n>>
      BY <2>1, Parts
    <3> QED
      BY <1>3, <3>1, AskedForms, UnderForms
  <2>2. ASSUME NEW d \in Names, home = <<d>> PROVE ~Under(P, p)
    <3>1. P = <<d, n>>
      BY <2>2, Parts
    <3> QED
      BY <1>3, <3>1, AskedForms, UnderForms
  <2> QED
    BY <2>1, <2>2 DEF IsHome
<1> QED
  BY <1>1, <1>2, <1>3

(* Where a move to a place takes from what is put at p, which is under it. *)
Origin(from, to, p) == from \o SubSeq(p, Len(to) + 1, Len(p))

LEMMA OriginForms ==
  /\ \A a, b : Origin(<<a>>, <<b>>, <<b>>) = <<a>>
  /\ \A a, b, k : Origin(<<a>>, <<b>>, <<b, k>>) = <<a, k>>
  /\ \A d, a, b : Origin(<<d, a>>, <<d, b>>, <<d, b>>) = <<d, a>>
<1>1. ASSUME NEW a, NEW b PROVE Origin(<<a>>, <<b>>, <<b>>) = <<a>>
  <2>1. SubSeq(<<b>>, 2, 1) = <<>>
    BY SubSeqEmpty
  <2>2. <<a>> \o <<>> = <<a>>
    <3>1. <<a>> \in Seq({a})
      OBVIOUS
    <3> QED
      BY <3>1, ConcatEmptySeq
  <2>3. Origin(<<a>>, <<b>>, <<b>>) = <<a>> \o SubSeq(<<b>>, 2, 1)
    BY DEF Origin
  <2> QED
    BY <2>1, <2>2, <2>3
<1>2. ASSUME NEW a, NEW b, NEW k PROVE Origin(<<a>>, <<b>>, <<b, k>>) = <<a, k>>
  <2> DEFINE s == SubSeq(<<b, k>>, 2, 2)
             S == {a, b, k}
  <2>1. s \in Seq(S) /\ Len(s) = 1 /\ s[1] = k
    OBVIOUS
  <2>2. Origin(<<a>>, <<b>>, <<b, k>>) = <<a>> \o s
    BY DEF Origin
  <2> HIDE DEF s
  <2>3. <<a>> \in Seq(S) /\ Len(<<a>>) = 1 /\ <<a>>[1] = a
    OBVIOUS
  <2> DEFINE r == <<a>> \o s
  <2>4. r \in Seq(S) /\ Len(r) = 2
    <3>1. r \in Seq(S) /\ Len(r) = Len(<<a>>) + Len(s)
      BY <2>1, <2>3, ConcatProperties
    <3> QED
      BY <2>1, <2>3, <3>1
  <2>5. r[1] = a /\ r[2] = k
    <3>1. \A i \in 1 .. Len(<<a>>) + Len(s) :
            r[i] = IF i <= Len(<<a>>) THEN <<a>>[i] ELSE s[i - Len(<<a>>)]
      BY <2>1, <2>3, ConcatProperties
    <3> HIDE DEF r
    <3> QED
      BY <2>1, <2>3, <3>1
  <2> HIDE DEF r
  <2>6. r = <<a, k>>
    BY <2>4, <2>5, TwoNames
  <2> QED
    BY <2>2, <2>6 DEF r
<1>3. ASSUME NEW d, NEW a, NEW b PROVE Origin(<<d, a>>, <<d, b>>, <<d, b>>) = <<d, a>>
  <2>1. SubSeq(<<d, b>>, 3, 2) = <<>>
    BY SubSeqEmpty
  <2>2. <<d, a>> \o <<>> = <<d, a>>
    <3>1. <<d, a>> \in Seq({d, a})
      OBVIOUS
    <3> QED
      BY <3>1, ConcatEmptySeq
  <2>3. Origin(<<d, a>>, <<d, b>>, <<d, b>>) = <<d, a>> \o SubSeq(<<d, b>>, 3, 2)
    BY DEF Origin
  <2> QED
    BY <2>1, <2>2, <2>3
<1> QED
  BY <1>1, <1>2, <1>3

(* Moving between siblings: all that is put under the new name comes from  *)
(* under the old one, and moving back puts it where it was.                *)
LEMMA Carries ==
  ASSUME NEW home, IsHome(home), NEW n \in AllNames, NEW m \in AllNames,
         NEW p \in Places, Under(Append(home, m), p)
  PROVE  LET from == Append(home, n)
             to   == Append(home, m)
             o    == Origin(from, to, p)
         IN  o \in Places /\ Under(from, o) /\ Origin(to, from, o) = p /\ (o = from <=> p = to)
<1> DEFINE from == Append(home, n)
           to   == Append(home, m)
           o    == Origin(from, to, p)
           Goal == o \in Places /\ Under(from, o) /\ Origin(to, from, o) = p /\ (o = from <=> p = to)
<1>1. ASSUME home = <<>> PROVE Goal
  <2>1. from = <<n>> /\ to = <<m>>
    BY <1>1, Parts
  <2>2. ASSUME p = <<m>> PROVE Goal
    <3>1. o = <<n>>
      BY <2>1, <2>2, OriginForms
    <3>2. <<n>> \in Places /\ Under(<<n>>, <<n>>)
      BY PlaceForms, UnderForms
    <3>3. Origin(<<m>>, <<n>>, <<n>>) = <<m>>
      BY OriginForms
    <3> HIDE DEF o, from, to
    <3> QED
      BY <2>1, <2>2, <3>1, <3>2, <3>3
  <2>3. ASSUME NEW k \in AllNames, p = <<m, k>> PROVE Goal
    <3>1. o = <<n, k>>
      BY <2>1, <2>3, OriginForms
    <3>2. <<n, k>> \in Places /\ Under(<<n>>, <<n, k>>) /\ <<n, k>> # <<n>> /\ <<m, k>> # <<m>>
      BY PlaceForms, UnderForms, Differ
    <3>3. Origin(<<m>>, <<n>>, <<n, k>>) = <<m, k>>
      BY OriginForms
    <3> HIDE DEF o, from, to
    <3> QED
      BY <2>1, <2>3, <3>1, <3>2, <3>3
  <2>4. p = <<m>> \/ \E k \in AllNames : p = <<m, k>>
    BY <2>1, PlaceForms, UnderForms
  <2> QED
    BY <2>2, <2>3, <2>4
<1>2. ASSUME NEW d \in Names, home = <<d>> PROVE Goal
  <2>1. from = <<d, n>> /\ to = <<d, m>> /\ d \in AllNames
    BY <1>2, Parts DEF AllNames
  <2>2. p = <<d, m>>
    BY <2>1, PlaceForms, UnderForms
  <2>3. o = <<d, n>>
    BY <2>1, <2>2, OriginForms
  <2>4. <<d, n>> \in Places /\ Under(<<d, n>>, <<d, n>>)
    BY <2>1, PlaceForms, UnderForms
  <2>5. Origin(<<d, m>>, <<d, n>>, <<d, n>>) = <<d, m>>
    BY OriginForms
  <2> HIDE DEF o, from, to
  <2> QED
    BY <2>1, <2>2, <2>3, <2>4, <2>5
<1> QED
  BY <1>1, <1>2 DEF IsHome

(* What moving between siblings, and removing, leave at each place.        *)
LEMMA MovedAt ==
  ASSUME NEW t, NEW home, IsHome(home), NEW n \in AllNames, NEW m \in AllNames, NEW p \in Places
  PROVE  LET from == Append(home, n)
             to   == Append(home, m)
         IN  Moved(t, from, to)[p] =
               IF Under(to, p) THEN t[Origin(from, to, p)]
               ELSE IF Under(from, p) THEN Nothing ELSE t[p]
<1> DEFINE from == Append(home, n)
           to   == Append(home, m)
<1>1. Under(to, p) => Origin(from, to, p) \in Places
  BY Carries
<1> HIDE DEF from, to
<1>2. Moved(t, from, to)[p] =
        IF Under(to, p)
          THEN IF Origin(from, to, p) \in Places THEN t[Origin(from, to, p)] ELSE Nothing
        ELSE IF Under(from, p) THEN Nothing ELSE t[p]
  BY DEF Moved, Origin
<1> QED
  BY <1>1, <1>2 DEF from, to

LEMMA RemovedAt ==
  ASSUME NEW t, NEW top, NEW p \in Places
  PROVE  Removed(t, top)[p] = IF Under(top, p) THEN Nothing ELSE t[p]
BY DEF Removed

-----------------------------------------------------------------------------
(* Trees.                                                                  *)

LEMMA TreeShape ==
  ASSUME NEW t, IsTree(t)
  PROVE  /\ Shaped(t)
         /\ t = [p \in Places |-> t[p]]
         /\ \A p \in Places \ Asked : t[p] = Nothing
         /\ \A p \in Asked : t[p] = Nothing \/ t[p].kind \in {"directory", "file", "link"}
         /\ \A p \in Places : t[p].kind = "nothing" => t[p] = Nothing
<1>1. \A p \in Asked : \/ t[p] \in {Nothing, Directory, File(p)} 
                       \/ t[p].kind = "link" /\ t[p].to \in Asked
  BY DEF IsTree, IsLink
<1>2. \A p \in Asked : Len(p) = 2 => t[p].kind # "directory"
  <2> TAKE p \in Asked
  <2> HAVE Len(p) = 2
  <2>1. t[p] # Nothing => t[p] # Directory
    BY DEF IsTree
  <2> QED
    BY <1>1, <2>1, Kinds
<1>3. Shaped(t)
  BY <1>1, <1>2, Kinds DEF Shaped
<1>4. t = [p \in Places |-> t[p]] /\ \A p \in Places \ Asked : t[p] = Nothing
  BY DEF IsTree
<1>5. \A p \in Asked : t[p] = Nothing \/ t[p].kind \in {"directory", "file", "link"}
  BY <1>1, Kinds
<1> QED
  BY <1>3, <1>4, <1>5, AskedPlaces

(* Only a directory holds anything.                                        *)
LEMMA TreeBelow ==
  ASSUME NEW t, IsTree(t), NEW top \in Asked, t[top].kind # "directory",
         NEW p \in Places, Under(top, p), p # top
  PROVE  t[p] = Nothing
<1>1. PICK n \in Names, m \in AllNames : top = <<n>> /\ p = <<n, m>>
  <2>1. CASE \E n \in Names : top = <<n>>
    BY <2>1, PlaceForms, UnderForms
  <2>2. CASE \E n, m \in Names : top = <<n, m>>
    BY <2>2, PlaceForms, UnderForms
  <2> QED
    BY <2>1, <2>2, AskedForms
<1>2. Len(p) = 2 /\ Front(p) = top
  BY <1>1, Lengths, Parts
<1>3. CASE p \in Asked
  <2>1. t[p] # Nothing => t[Front(p)] = Directory
    BY <1>2, <1>3 DEF IsTree
  <2> QED
    BY <1>2, <2>1, Kinds
<1>4. CASE p \notin Asked
  BY <1>4 DEF IsTree
<1> QED
  BY <1>3, <1>4

-----------------------------------------------------------------------------
(* The inductive invariant: what the file system is at each step, in terms *)
(* of what it was.                                                         *)

Scratch(name) == Append(Home, name)

Staged    == [before EXCEPT ![Scratch(Staging)] = Corpus]
Cleared   == IF before[Replaced] = Nothing THEN Staged ELSE Moved(Staged, Replaced, Scratch(Aside))
Installed == Moved(Cleared, Scratch(Staging), Replaced)
Tidied    == IF Cleared[Scratch(Aside)].kind = "file" THEN Installed
             ELSE Removed(Installed, Scratch(Aside))

(* The parent of the output is a directory, and neither path leads into    *)
(* what the other leads to.                                                *)
Resolved == Real(before, Front(output)).found /\ KindOf(before, Home) = "directory"

Destination == IF Real(before, output).found THEN Real(before, output).at ELSE Replaced
Apart == /\ ~Under(Real(before, source).at, Destination)
         /\ ~Under(Destination, Real(before, source).at)

Early   == {"check", "discover", "stage"}
Filling == {"build", "publish"}
Late    == {"install", "remove", "published"}

IInv ==
  /\ before \in Trees /\ <<source, output>> \in Given
  /\ phase \in {"check", "discover", "stage", "build", "publish", "install", "remove",
                "published", "failed"}
  /\ phase \in Early => fs = before
  /\ phase \notin {"check", "failed"} => Apart
  /\ phase \in Filling \cup Late => Resolved
  /\ phase \in Filling => fs = Staged
  /\ phase = "install" => fs = Cleared
  /\ phase = "remove" => fs = Installed /\ ~ComesBack
  /\ phase = "published" => fs = Tidied /\ ~ComesBack
  /\ phase = "failed" /\ fs # before => fs = Cleared /\ Apart /\ Resolved /\ ComesBack


(* What a run starts with.                                                 *)
Sound == IsTree(before) /\ source \in Asked /\ output \in Asked

LEMMA GivenSound ==
  ASSUME before \in Trees, <<source, output>> \in Given
  PROVE  Sound
<1>1. <<source, output>> \in Asked \X Asked
  BY GivenAssumption
<1> QED
  BY <1>1, TreesAssumption DEF Sound

LEMMA OutputParts ==
  ASSUME output \in Asked
  PROVE  Front(output) \in Asked \cup {<<>>} /\ Last(output) \in Names
<1>1. CASE \E n \in Names : output = <<n>>
  BY <1>1, Parts
<1>2. CASE \E n, m \in Names : output = <<n, m>>
  BY <1>2, Parts, AskedForms
<1> QED
  BY <1>1, <1>2, AskedForms

LEMMA HomeForm ==
  ASSUME Sound, Resolved
  PROVE  /\ IsHome(Home) /\ Real(before, Front(output)) = At(Home)
         /\ Home # <<>> => Home \in Asked /\ before[Home].kind = "directory"
         /\ Home = <<>> => Front(output) = <<>>
<1> DEFINE answer == Real(before, Front(output))
<1>1. Shaped(before) /\ Front(output) \in Asked \cup {<<>>}
  BY TreeShape, OutputParts DEF Sound
<1>2. answer.found /\ KindOf(before, Home) = "directory" /\ Home = answer.at
  BY DEF Resolved, Home
<1>3. CASE Front(output) = <<>>
  <2>1. answer = At(<<>>)
    BY <1>1, <1>3, RealLed
  <2>2. Home = <<>>
    BY <1>2, <2>1, Found
  <2> QED
    BY <1>3, <2>1, <2>2 DEF IsHome
<1>4. CASE Front(output) # <<>>
  <2>1. Led(before, answer)
    BY <1>1, <1>4, RealLed
  <2>2. PICK a \in Asked : answer = At(a)
    BY <1>2, <2>1, Found DEF Led
  <2>3. Home = a /\ a # <<>>
    BY <1>2, <2>2, Found, AskedForms, Differ
  <2>4. before[a].kind = "directory"
    BY <1>2, <2>3 DEF KindOf
  <2>5. \E d \in Names : a = <<d>>
    BY <1>1, <2>4, AskedForms, Lengths DEF Shaped
  <2> QED
    BY <2>2, <2>3, <2>4, <2>5 DEF IsHome
<1> QED
  BY <1>3, <1>4

(* How the entry to replace and the two scratch places lie: apart, beside  *)
(* each other, and with nothing of the tree under a scratch place.         *)
LEMMA Layout ==
  ASSUME Sound, Resolved
  PROVE  LET S == Scratch(Staging)
             A == Scratch(Aside)
             R == Replaced
         IN  /\ S \in Places /\ A \in Places /\ R \in Places
             /\ S \notin Asked /\ A \notin Asked /\ R \in Asked
             /\ S # A /\ S # R /\ A # R
             /\ Under(S, S) /\ Under(A, A) /\ Under(R, R)
             /\ \A p \in Places : /\ ~(Under(S, p) /\ Under(A, p))
                                  /\ ~(Under(S, p) /\ Under(R, p))
                                  /\ ~(Under(A, p) /\ Under(R, p))
                                  /\ Under(S, p) \/ Under(A, p) => p \notin Asked /\ before[p] = Nothing
<1> DEFINE S == Scratch(Staging)
           A == Scratch(Aside)
           R == Replaced
           l == Last(output)
<1>1. IsHome(Home) /\ l \in Names
  BY HomeForm, OutputParts DEF Sound
<1>2. /\ Staging \in AllNames /\ Aside \in AllNames /\ l \in AllNames
      /\ Staging \notin Names /\ Aside \notin Names
      /\ Staging # Aside /\ Staging # l /\ Aside # l
  BY <1>1, NamesAssumption DEF AllNames, ScratchNames
<1>3. S = Append(Home, Staging) /\ A = Append(Home, Aside) /\ R = Append(Home, l)
  BY DEF Scratch, Replaced
<1> HIDE DEF S, A, R, l
<1>4. /\ S \in Places /\ Under(S, S) /\ S # A /\ S # R
      /\ \A p \in Places : ~(Under(S, p) /\ Under(A, p)) /\ ~(Under(S, p) /\ Under(R, p))
      /\ \A p \in Asked : ~Under(S, p)
  BY <1>1, <1>2, <1>3, Siblings
<1>5. /\ A \in Places /\ Under(A, A) /\ A # R
      /\ \A p \in Places : ~(Under(A, p) /\ Under(R, p))
      /\ \A p \in Asked : ~Under(A, p)
  BY <1>1, <1>2, <1>3, Siblings
<1>6. R \in Places /\ Under(R, R) /\ R \in Asked
  BY <1>1, <1>2, <1>3, Siblings
<1>7. \A p \in Places \ Asked : before[p] = Nothing
  BY TreeShape DEF Sound
<1> QED
  BY <1>4, <1>5, <1>6, <1>7 DEF S, A, R, l

(* What is carried between two of them.                                    *)
LEMMA LayoutCarries ==
  ASSUME Sound, Resolved,
         NEW from \in {Scratch(Staging), Scratch(Aside), Replaced},
         NEW to \in {Scratch(Staging), Scratch(Aside), Replaced},
         NEW p \in Places
  PROVE  /\ Under(to, p) => /\ Origin(from, to, p) \in Places /\ Under(from, Origin(from, to, p))
                            /\ Origin(to, from, Origin(from, to, p)) = p
                            /\ Origin(from, to, p) = from <=> p = to
         /\ \A t : Moved(t, from, to)[p] =
                     IF Under(to, p) THEN t[Origin(from, to, p)]
                     ELSE IF Under(from, p) THEN Nothing ELSE t[p]
<1>1. IsHome(Home) /\ Last(output) \in Names
  BY HomeForm, OutputParts DEF Sound
<1>2. Staging \in AllNames /\ Aside \in AllNames /\ Last(output) \in AllNames
  BY <1>1 DEF AllNames, ScratchNames
<1>3. PICK n \in AllNames : from = Append(Home, n)
  BY <1>2 DEF Scratch, Replaced
<1>4. PICK m \in AllNames : to = Append(Home, m)
  BY <1>2 DEF Scratch, Replaced
<1>5. Under(to, p) => /\ Origin(from, to, p) \in Places /\ Under(from, Origin(from, to, p))
                      /\ Origin(to, from, Origin(from, to, p)) = p
                      /\ Origin(from, to, p) = from <=> p = to
  BY <1>1, <1>3, <1>4, Carries
<1>6. \A t : Moved(t, from, to)[p] =
               IF Under(to, p) THEN t[Origin(from, to, p)]
               ELSE IF Under(from, p) THEN Nothing ELSE t[p]
  <2> TAKE t
  <2>1. Moved(t, Append(Home, n), Append(Home, m))[p] =
          IF Under(Append(Home, m), p) THEN t[Origin(Append(Home, n), Append(Home, m), p)]
          ELSE IF Under(Append(Home, n), p) THEN Nothing ELSE t[p]
    BY <1>1, MovedAt
  <2> QED
    BY <1>3, <1>4, <2>1
<1> QED
  BY <1>5, <1>6

(* Each state of the file system, place by place.                          *)
LEMMA StagedAt ==
  ASSUME Sound, Resolved, NEW p \in Places
  PROVE  Staged[p] = IF p = Scratch(Staging) THEN Corpus ELSE before[p]
<1>1. before = [q \in Places |-> before[q]] /\ Scratch(Staging) \in Places
  BY TreeShape, Layout DEF Sound
<1> QED
  BY <1>1 DEF Staged

LEMMA ReplacedBelow ==
  ASSUME Sound, Resolved, before[Replaced] = Nothing, NEW p \in Places, Under(Replaced, p)
  PROVE  before[p] = Nothing
<1>1. Replaced \in Asked /\ IsTree(before)
  BY Layout DEF Sound
<1> QED
  BY <1>1, TreeBelow, Kinds

LEMMA ClearedAt ==
  ASSUME Sound, Resolved, NEW p \in Places
  PROVE  Cleared[p] =
           IF Under(Scratch(Aside), p) THEN before[Origin(Replaced, Scratch(Aside), p)]
           ELSE IF Under(Replaced, p) THEN Nothing
           ELSE IF p = Scratch(Staging) THEN Corpus ELSE before[p]
<1> DEFINE S == Scratch(Staging)
           A == Scratch(Aside)
           R == Replaced
           o == Origin(R, A, p)
<1>1. /\ S \in Places /\ S # A /\ S # R /\ Under(S, S)
      /\ \A q \in Places : /\ ~(Under(S, q) /\ Under(A, q)) /\ ~(Under(S, q) /\ Under(R, q))
                           /\ Under(A, q) => before[q] = Nothing
  BY Layout
<1>2. Under(A, p) => o \in Places /\ Under(R, o)
  BY LayoutCarries
<1>3. Moved(Staged, R, A)[p] = IF Under(A, p) THEN Staged[o]
                               ELSE IF Under(R, p) THEN Nothing ELSE Staged[p]
  BY LayoutCarries
<1>4. \A q \in Places : Staged[q] = IF q = S THEN Corpus ELSE before[q]
  BY StagedAt
<1>5. CASE before[R] = Nothing
  <2>1. Cleared = Staged
    BY <1>5 DEF Cleared
  <2>2. Under(R, p) => before[p] = Nothing
    BY <1>5, ReplacedBelow
  <2>3. Under(A, p) => before[o] = Nothing
    BY <1>2, <1>5, ReplacedBelow
  <2> HIDE DEF S, A, R, o
  <2>4. Cleared[p] = IF p = S THEN Corpus ELSE before[p]
    BY <1>4, <2>1
  <2>7. Cleared[p] = IF Under(A, p) THEN before[o] ELSE IF Under(R, p) THEN Nothing
                     ELSE IF p = S THEN Corpus ELSE before[p]
    BY <1>1, <2>2, <2>3, <2>4
  <2> QED
    BY <2>7 DEF S, A, R, o
<1>6. CASE before[R] # Nothing
  <2>1. Cleared = Moved(Staged, R, A)
    BY <1>6 DEF Cleared
  <2> HIDE DEF S, A, R, o
  <2>2. Under(A, p) => Staged[o] = before[o]
    BY <1>1, <1>2, <1>4
  <2>3. Cleared[p] = IF Under(A, p) THEN before[o] ELSE IF Under(R, p) THEN Nothing
                     ELSE IF p = S THEN Corpus ELSE before[p]
    BY <1>3, <1>4, <2>1, <2>2
  <2> QED
    BY <2>3 DEF S, A, R, o
<1> QED
  BY <1>5, <1>6

LEMMA InstalledAt ==
  ASSUME Sound, Resolved, NEW p \in Places
  PROVE  Installed[p] =
           IF p = Replaced THEN Corpus
           ELSE IF Under(Replaced, p) \/ Under(Scratch(Staging), p) THEN Nothing
           ELSE IF Under(Scratch(Aside), p) THEN before[Origin(Replaced, Scratch(Aside), p)]
           ELSE before[p]
<1> DEFINE S == Scratch(Staging)
           A == Scratch(Aside)
           R == Replaced
           o == Origin(S, R, p)
<1>1. /\ S \in Places /\ S # A /\ S # R /\ Under(S, S) /\ Under(R, R)
      /\ \A q \in Places : /\ ~(Under(S, q) /\ Under(A, q)) /\ ~(Under(S, q) /\ Under(R, q))
                           /\ Under(S, q) => before[q] = Nothing
  BY Layout
<1>2. Under(R, p) => o \in Places /\ Under(S, o) /\ (o = S <=> p = R)
  BY LayoutCarries
<1>3. Installed[p] = IF Under(R, p) THEN Cleared[o]
                     ELSE IF Under(S, p) THEN Nothing ELSE Cleared[p]
  BY LayoutCarries DEF Installed
<1>4. \A q \in Places : Cleared[q] =
           IF Under(A, q) THEN before[Origin(R, A, q)]
           ELSE IF Under(R, q) THEN Nothing ELSE IF q = S THEN Corpus ELSE before[q]
  BY ClearedAt
<1> HIDE DEF S, A, R, o
<1>5. Under(R, p) => Cleared[o] = IF p = R THEN Corpus ELSE Nothing
  BY <1>1, <1>2, <1>4
<1>6. ~Under(R, p) /\ ~Under(S, p) =>
        Cleared[p] = IF Under(A, p) THEN before[Origin(R, A, p)] ELSE before[p]
  BY <1>1, <1>4
<1>7. Installed[p] = IF p = R THEN Corpus
                     ELSE IF Under(R, p) \/ Under(S, p) THEN Nothing
                     ELSE IF Under(A, p) THEN before[Origin(R, A, p)] ELSE before[p]
  BY <1>1, <1>3, <1>5, <1>6
<1> QED
  BY <1>7 DEF S, A, R

-----------------------------------------------------------------------------
(* Where the paths lead in each of these.                                  *)

LEMMA StagedLeads ==
  ASSUME Sound, Resolved
  PROVE  Real(Staged, Front(output)) = At(Home)
<1>1. Shaped(before) /\ Front(output) \in Asked \cup {<<>>}
  BY TreeShape, OutputParts DEF Sound
<1>2. \A p \in Asked : Staged[p] = before[p]
  BY AskedPlaces, StagedAt, Layout
<1>3. Real(Staged, Front(output)) = Real(before, Front(output))
  BY <1>1, <1>2, RealAgrees
<1> QED
  BY <1>3, HomeForm

LEMMA AsideLeads ==
  ASSUME Sound, Resolved
  PROVE  LET u == Removed(before, Replaced)
         IN  /\ Shaped(u)
             /\ \A p \in Asked : u[p] = IF Under(Replaced, p) THEN Nothing ELSE before[p]
             /\ Real(Cleared, Front(output)) = Real(u, Front(output))
             /\ ~ComesBack => Real(u, Front(output)) = At(Home)
<1> DEFINE u == Removed(before, Replaced)
           R == Replaced
           top == Front(output)
<1>1. Shaped(before) /\ top \in Asked \cup {<<>>}
  BY TreeShape, OutputParts DEF Sound
<1>2. \A p \in Asked : u[p] = IF Under(R, p) THEN Nothing ELSE before[p]
  BY AskedPlaces, RemovedAt
<1>3. \A p \in Asked : Cleared[p] = u[p]
  <2> TAKE p \in Asked
  <2>1. p \in Places /\ ~Under(Scratch(Aside), p) /\ p # Scratch(Staging)
    BY AskedPlaces, Layout
  <2> QED
    BY <1>2, <2>1, ClearedAt
<1> HIDE DEF u
<1>4. Shaped(u)
  BY <1>1, <1>2, Kinds DEF Shaped
<1>5. Real(Cleared, top) = Real(u, top)
  BY <1>1, <1>3, <1>4, RealAgrees
<1>6. ASSUME ~ComesBack PROVE Real(u, top) = At(Home)
  <2>1. Real(u, top).found
    BY <1>6 DEF ComesBack, u
  <2> DEFINE x == <<Staging>>
  <2>2. x # <<>> /\ x \notin Asked
    BY AskedForms, Differ, NamesAssumption DEF ScratchNames
  <2>3. Keeps(u, before, x)
    BY <1>2, <2>2 DEF Keeps
  <2>4. Real(u, top).at # x
    <3>1. CASE top = <<>>
      BY <1>4, <2>2, <3>1, RealLed, Found
    <3>2. CASE top # <<>>
      <4>1. Led(u, Real(u, top))
        BY <1>1, <1>4, <3>2, RealLed
      <4> QED
        BY <2>1, <2>2, <4>1, Found DEF Led
    <3> QED
      BY <3>1, <3>2
  <2> HIDE DEF x
  <2>5. Real(before, top) = Real(u, top)
    BY <1>1, <1>4, <2>1, <2>3, <2>4, RealSame
  <2> QED
    BY <2>5, HomeForm
<1> QED
  BY <1>2, <1>4, <1>5, <1>6 DEF u

(* The directory that holds the output is not under what was set aside.    *)
LEMMA HomeStays ==
  ASSUME Sound, Resolved
  PROVE  /\ ~Under(Replaced, Home) /\ Home # Replaced
         /\ KindOf(Cleared, Home) = "directory" /\ KindOf(Installed, Home) = "directory"
<1> DEFINE R == Replaced
<1>1. IsHome(Home) /\ Last(output) \in AllNames
  BY HomeForm, OutputParts DEF Sound, AllNames
<1>2. ~Under(R, Home) /\ Home # R
  BY <1>1, Siblings DEF Replaced
<1>3. CASE Home = <<>>
  BY <1>2, <1>3 DEF KindOf
<1>4. CASE Home # <<>>
  <2>1. Home \in Asked /\ before[Home].kind = "directory"
    BY <1>4, HomeForm
  <2>2. /\ Home \in Places /\ ~Under(Scratch(Aside), Home) /\ ~Under(Scratch(Staging), Home)
        /\ Home # Scratch(Staging)
    BY <2>1, AskedPlaces, Layout
  <2>3. Cleared[Home] = before[Home]
    BY <1>2, <2>2, ClearedAt
  <2>4. Installed[Home] = before[Home]
    BY <1>2, <2>2, InstalledAt
  <2> QED
    BY <1>2, <1>4, <2>1, <2>3, <2>4 DEF KindOf
<1> QED
  BY <1>3, <1>4

LEMMA InstalledLeads ==
  ASSUME Sound, Resolved, ~ComesBack,
         NEW t, \A p \in Asked : t[p] = Installed[p]
  PROVE  Real(t, Front(output)) = At(Home)
<1> DEFINE u == Removed(before, Replaced)
           R == Replaced
           top == Front(output)
           x == <<Staging>>
<1>1. top \in Asked \cup {<<>>}
  BY OutputParts DEF Sound
<1>2. /\ Shaped(u) /\ Real(u, top) = At(Home)
      /\ \A p \in Asked : u[p] = IF Under(R, p) THEN Nothing ELSE before[p]
  BY AsideLeads
<1>3. x # <<>> /\ x \notin Asked
  BY AskedForms, Differ, NamesAssumption DEF ScratchNames
<1>4. \A p \in Asked : u[p] # Nothing => t[p] = u[p]
  <2> TAKE p \in Asked
  <2> HAVE u[p] # Nothing
  <2>1. /\ p \in Places /\ ~Under(Scratch(Aside), p) /\ ~Under(Scratch(Staging), p)
        /\ Under(R, R) /\ p # Scratch(Staging)
    BY AskedPlaces, Layout
  <2>2. ~Under(R, p) /\ p # R /\ u[p] = before[p]
    BY <1>2, <2>1
  <2> QED
    BY <2>1, <2>2, InstalledAt
<1> HIDE DEF u, x
<1>5. Keeps(u, t, x)
  BY <1>3, <1>4 DEF Keeps
<1>6. Home # x
  BY <1>3, HomeForm
<1>7. Real(u, top).found /\ Real(u, top).at # x
  BY <1>2, <1>6, Found
<1> QED
  BY <1>1, <1>2, <1>5, <1>7, RealSame

(* Only through a link can the output's parent lead through its entry.     *)
LEMMA ComesBackByLink ==
  ASSUME Sound, Resolved, ComesBack
  PROVE  before[Replaced].kind = "link" /\ Home # <<>>
<1> DEFINE u == Removed(before, Replaced)
           R == Replaced
           top == Front(output)
<1>1. Shaped(before) /\ top \in Asked \cup {<<>>} /\ Real(before, top) = At(Home)
  BY TreeShape, OutputParts, HomeForm DEF Sound
<1>2. Shaped(u) /\ \A p \in Asked : u[p] = IF Under(R, p) THEN Nothing ELSE before[p]
  BY AsideLeads
<1>3. Home # <<>>
  <2> SUFFICES ASSUME Home = <<>> PROVE FALSE
    OBVIOUS
  <2>1. top = <<>>
    BY HomeForm
  <2>2. Real(u, <<>>) = At(<<>>)
    BY <1>2, RealLed
  <2> QED
    BY <2>1, <2>2, Found DEF ComesBack
<1>4. PICK d \in Names : Home = <<d>>
  BY <1>3, HomeForm DEF IsHome
<1>5. R = <<d, Last(output)>>
  BY <1>4, Parts DEF Replaced
<1>6. before[R].kind = "link"
  <2> SUFFICES ASSUME before[R].kind # "link" PROVE FALSE
    OBVIOUS
  <2>1. R \in Asked /\ Len(R) = 2 /\ R # <<>>
    BY <1>5, Layout, Lengths
  <2>2. before[R].kind \notin {"link", "directory"}
    BY <1>1, <2>1 DEF Shaped
  <2>3. \A p \in Asked : Under(R, p) => p = R
    <3> TAKE p \in Asked
    <3> QED
      BY <1>5, AskedForms, UnderForms
  <2> HIDE DEF u
  <2>4. Keeps(before, u, R)
    BY <1>2, <2>1, <2>2, <2>3 DEF Keeps
  <2>5. Home # R
    BY HomeStays
  <2>6. Real(u, top) = Real(before, top)
    BY <1>1, <2>4, <2>5, RealSame, Found
  <2> QED
    BY <1>1, <2>6, Found DEF ComesBack, u
<1> QED
  BY <1>3, <1>6

(* Where the output path itself leads.                                     *)
LEMMA OutputLeads ==
  ASSUME output \in Asked, NEW t, NEW home, Real(t, Front(output)) = At(home),
         KindOf(t, home) = "directory",
         t[Append(home, Last(output))] = Nothing \/ t[Append(home, Last(output))].kind # "link"
  PROVE  LET entry == Append(home, Last(output))
         IN  Real(t, output) = IF t[entry] = Nothing THEN Nowhere ELSE At(entry)
<1> DEFINE f == Further(t, MaxLinks)
           entry == Append(home, Last(output))
<1>1. Leads(t)[MaxLinks] = Walk(t, f)
  <2>1. MaxLinks \in 0 .. MaxLinks
    BY LinksAssumption
  <2> QED
    BY <2>1, LeadsUnfold
<1> HIDE DEF f
<1>2. Real(t, output) = Enter(t, f, At(home), Last(output))
  <2>1. ASSUME NEW n \in Names, output = <<n>> PROVE Real(t, output) = Enter(t, f, At(home), Last(output))
    <3>1. Real(t, <<>>) = At(<<>>)
      BY <1>1, WalkForms DEF Real
    <3>2. At(home) = At(<<>>)
      BY <2>1, <3>1, Parts
    <3>3. Real(t, output) = Enter(t, f, At(<<>>), n)
      BY <1>1, <2>1, WalkForms DEF Real
    <3> QED
      BY <2>1, <3>2, <3>3, Parts
  <2>2. ASSUME NEW n \in Names, NEW m \in Names, output = <<n, m>>
        PROVE  Real(t, output) = Enter(t, f, At(home), Last(output))
    <3>1. At(home) = Enter(t, f, At(<<>>), n)
      BY <1>1, <2>2, WalkForms, Parts DEF Real
    <3>2. Real(t, output) = Enter(t, f, Enter(t, f, At(<<>>), n), m)
      BY <1>1, <2>2, WalkForms DEF Real
    <3> QED
      BY <2>2, <3>1, <3>2, Parts
  <2> QED
    BY <2>1, <2>2, AskedForms
<1>3. Enter(t, f, At(home), Last(output)) = IF t[entry] = Nothing THEN Nowhere ELSE At(entry)
  BY Found DEF Enter
<1> QED
  BY <1>2, <1>3

-----------------------------------------------------------------------------
(* What the steps do to the file system.                                   *)

(* Dropping the staging directory of a run that has moved nothing.         *)
LEMMA Dropped ==
  ASSUME Sound, Resolved
  PROVE  Removed(Staged, Scratch(Staging)) = before
<1> DEFINE u == Removed(Staged, Scratch(Staging))
<1>1. \A p \in Places : u[p] = before[p]
  <2> TAKE p \in Places
  <2>1. u[p] = IF Under(Scratch(Staging), p) THEN Nothing ELSE Staged[p]
    BY RemovedAt
  <2>2. Staged[p] = IF p = Scratch(Staging) THEN Corpus ELSE before[p]
    BY StagedAt
  <2> HIDE DEF u
  <2> QED
    BY <2>1, <2>2, Layout
<1>2. u = [p \in Places |-> u[p]]
  BY DEF Removed
<1>3. before = [p \in Places |-> before[p]]
  BY TreeShape DEF Sound
<1> HIDE DEF u
<1>4. u = before
  BY <1>1, <1>2, <1>3
<1> QED
  BY <1>4 DEF u

(* What was set aside, put back, and the staging directory dropped.        *)
LEMMA Restored ==
  ASSUME Sound, Resolved
  PROVE  LET restored == IF Cleared[Scratch(Aside)] = Nothing THEN Cleared
                         ELSE Moved(Cleared, Scratch(Aside), Replaced)
         IN  Removed(restored, Scratch(Staging)) = before
<1> DEFINE S == Scratch(Staging)
           A == Scratch(Aside)
           R == Replaced
           restored == IF Cleared[A] = Nothing THEN Cleared ELSE Moved(Cleared, A, R)
           u == Removed(restored, S)
<1>1. /\ A \in Places /\ R \in Places /\ Under(A, A) /\ Under(S, S)
      /\ \A p \in Places : /\ ~(Under(S, p) /\ Under(A, p)) /\ ~(Under(S, p) /\ Under(R, p))
                           /\ ~(Under(A, p) /\ Under(R, p))
                           /\ Under(S, p) \/ Under(A, p) => before[p] = Nothing
  BY Layout
<1>2. \A p \in Places : Cleared[p] =
           IF Under(A, p) THEN before[Origin(R, A, p)]
           ELSE IF Under(R, p) THEN Nothing ELSE IF p = S THEN Corpus ELSE before[p]
  BY ClearedAt
<1>3. Origin(R, A, A) = R
  BY <1>1, LayoutCarries
<1>4. Cleared[A] = before[R]
  <2> HIDE DEF A, R, S
  <2> QED
    BY <1>1, <1>2, <1>3
<1>5. ASSUME NEW p \in Places PROVE u[p] = before[p]
  <2>1. u[p] = IF Under(S, p) THEN Nothing ELSE restored[p]
    BY RemovedAt
  <2>2. CASE before[R] = Nothing
    <3>1. restored = Cleared
      BY <1>4, <2>2
    <3>2. Under(R, p) => before[p] = Nothing
      BY <2>2, ReplacedBelow
    <3>3. Under(A, p) => before[Origin(R, A, p)] = Nothing
      <4>1. Under(A, p) => Origin(R, A, p) \in Places /\ Under(R, Origin(R, A, p))
        BY LayoutCarries
      <4> QED
        BY <2>2, <4>1, ReplacedBelow
    <3> HIDE DEF A, R, S, u, restored
    <3> QED
      BY <1>1, <1>2, <2>1, <3>1, <3>2, <3>3
  <2>3. CASE before[R] # Nothing
    <3> DEFINE o == Origin(A, R, p)
    <3>1. restored[p] = IF Under(R, p) THEN Cleared[o]
                        ELSE IF Under(A, p) THEN Nothing ELSE Cleared[p]
      <4>1. restored = Moved(Cleared, A, R)
        BY <1>4, <2>3
      <4>2. Moved(Cleared, A, R)[p] = IF Under(R, p) THEN Cleared[o]
                                      ELSE IF Under(A, p) THEN Nothing ELSE Cleared[p]
        BY LayoutCarries
      <4> HIDE DEF restored
      <4> QED
        BY <4>1, <4>2
    <3>2. Under(R, p) => o \in Places /\ Under(A, o) /\ Origin(R, A, o) = p
      BY LayoutCarries
    <3> HIDE DEF A, R, S, u, restored, o
    <3> QED
      BY <1>1, <1>2, <2>1, <3>1, <3>2
  <2> QED
    BY <2>2, <2>3
<1>6. u = [p \in Places |-> u[p]]
  BY DEF Removed
<1>7. before = [p \in Places |-> before[p]]
  BY TreeShape DEF Sound
<1> HIDE DEF A, R, S, u, restored
<1>8. u = before
  BY <1>5, <1>6, <1>7
<1> QED
  BY <1>8 DEF A, R, S, u, restored

(* What a published run leaves at each place.                              *)
LEMMA TidiedAt ==
  ASSUME Sound, Resolved, NEW p \in Places
  PROVE  Tidied[p] =
           IF p = Replaced THEN Corpus
           ELSE IF Under(Replaced, p) \/ Under(Scratch(Staging), p) THEN Nothing
           ELSE IF Under(Scratch(Aside), p)
                  THEN IF before[Replaced].kind = "file" /\ p = Scratch(Aside)
                         THEN before[Replaced] ELSE Nothing
           ELSE before[p]
<1> DEFINE S == Scratch(Staging)
           A == Scratch(Aside)
           R == Replaced
           o == Origin(R, A, p)
<1>1. /\ A \in Places /\ R \in Asked /\ Under(A, A) /\ Under(R, R)
      /\ ~(Under(S, p) /\ Under(A, p)) /\ ~(Under(A, p) /\ Under(R, p))
  BY Layout
<1>2. Origin(R, A, A) = R
  BY <1>1, LayoutCarries
<1>3. Cleared[A] = before[R]
  BY <1>1, <1>2, ClearedAt
<1>4. Under(A, p) => o \in Places /\ Under(R, o) /\ (o = R <=> p = A)
  BY LayoutCarries
<1>5. Installed[p] =
           IF p = R THEN Corpus ELSE IF Under(R, p) \/ Under(S, p) THEN Nothing
           ELSE IF Under(A, p) THEN before[o] ELSE before[p]
  BY InstalledAt
<1>6. CASE before[R].kind = "file"
  <2>1. Tidied = Installed
    BY <1>3, <1>6 DEF Tidied
  <2>2. Under(A, p) /\ p # A => before[o] = Nothing
    <3>1. IsTree(before) /\ before[R].kind # "directory"
      BY <1>6 DEF Sound
    <3> QED
      BY <1>1, <1>4, <3>1, TreeBelow
  <2>3. Under(A, p) /\ p = A => before[o] = before[R]
    BY <1>4
  <2> HIDE DEF A, R, S, o
  <2>4. Tidied[p] =
           IF p = R THEN Corpus ELSE IF Under(R, p) \/ Under(S, p) THEN Nothing
           ELSE IF Under(A, p) THEN IF before[R].kind = "file" /\ p = A THEN before[R] ELSE Nothing
           ELSE before[p]
    BY <1>1, <1>5, <1>6, <2>1, <2>2, <2>3
  <2> QED
    BY <2>4 DEF A, R, S
<1>7. CASE before[R].kind # "file"
  <2>1. Tidied = Removed(Installed, A)
    BY <1>3, <1>7 DEF Tidied
  <2>2. Tidied[p] = IF Under(A, p) THEN Nothing ELSE Installed[p]
    BY <2>1, RemovedAt
  <2> HIDE DEF A, R, S, o
  <2>4. Tidied[p] =
           IF p = R THEN Corpus ELSE IF Under(R, p) \/ Under(S, p) THEN Nothing
           ELSE IF Under(A, p) THEN IF before[R].kind = "file" /\ p = A THEN before[R] ELSE Nothing
           ELSE before[p]
    BY <1>1, <1>5, <1>7, <2>2
  <2> QED
    BY <2>4 DEF A, R, S
<1> QED
  BY <1>6, <1>7

(* and where the output path then leads.                                   *)
LEMMA TidiedLeads ==
  ASSUME Sound, Resolved, ~ComesBack
  PROVE  Real(Tidied, output) = At(Replaced) /\ Tidied[Replaced] = Corpus
<1>1. \A p \in Asked : Tidied[p] = Installed[p]
  <2> TAKE p \in Asked
  <2>1. p \in Places /\ ~Under(Scratch(Aside), p)
    BY AskedPlaces, Layout
  <2> QED
    BY <2>1, TidiedAt, InstalledAt
<1>2. Real(Tidied, Front(output)) = At(Home)
  BY <1>1, InstalledLeads
<1>3. KindOf(Tidied, Home) = "directory"
  <2>1. CASE Home = <<>>
    BY <2>1 DEF KindOf
  <2>2. CASE Home # <<>>
    <3>1. Home \in Asked
      BY <2>2, HomeForm
    <3> QED
      BY <1>1, <2>2, <3>1, HomeStays DEF KindOf
  <2> QED
    BY <2>1, <2>2
<1>4. Tidied[Replaced] = Corpus
  BY Layout, TidiedAt
<1>5. Corpus # Nothing /\ Corpus.kind # "link"
  BY Kinds
<1>6. Real(Tidied, output) = At(Replaced)
  BY <1>2, <1>3, <1>4, <1>5, OutputLeads DEF Sound, Replaced
<1> QED
  BY <1>4, <1>6

-----------------------------------------------------------------------------
(* A source that resolves apart from the output is under none of the three *)
(* places, and none of them is under it, unless a link is.                 *)

LEMMA Comparable ==
  ASSUME NEW a \in Places, NEW b \in Places, NEW p \in Places, Under(a, p), Under(b, p)
  PROVE  Under(a, b) \/ Under(b, a)
<1>1. CASE \E n \in AllNames : p = <<n>>
  <2>1. PICK n \in AllNames : p = <<n>>
    BY <1>1
  <2>2. a = <<n>> /\ b = <<n>>
    BY <2>1, PlaceForms, UnderForms
  <2>3. Under(<<n>>, <<n>>)
    BY UnderForms
  <2> QED
    BY <2>2, <2>3
<1>2. CASE \E n, m \in AllNames : p = <<n, m>>
  <2>1. PICK n \in AllNames, m \in AllNames : p = <<n, m>>
    BY <1>2
  <2>2. (a = <<n>> \/ a = <<n, m>>) /\ (b = <<n>> \/ b = <<n, m>>)
    BY <2>1, PlaceForms, UnderForms
  <2>3. /\ Under(<<n>>, <<n>>) /\ Under(<<n>>, <<n, m>>)
        /\ Under(<<n, m>>, <<n, m>>)
    BY UnderForms, Zenon
  <2> QED
    BY <2>2, <2>3
<1> QED
  BY <1>1, <1>2, PlaceForms

LEMMA SourceApart ==
  ASSUME Sound, Resolved, Apart,
         Real(before, source).found,
         \A p \in Places : Under(Real(before, source).at, p) => before[p].kind # "link",
         NEW p \in Places, Under(Real(before, source).at, p)
  PROVE  ~Under(Scratch(Staging), p) /\ ~Under(Scratch(Aside), p) /\ ~Under(Replaced, p)
<1> DEFINE home == Real(before, source).at
           R == Replaced
<1>1. home \in Asked /\ home \in Places /\ before[home] # Nothing /\ before[home].kind # "link"
  <2>1. Led(before, Real(before, source))
    BY RealLed, TreeShape DEF Sound
  <2> QED
    BY <2>1, Found, AskedPlaces DEF Led
<1>2. R \in Asked /\ R \in Places
  BY Layout
<1>3. ASSUME Under(home, R) \/ Under(R, home) PROVE FALSE
  <2>1. CASE before[R] # Nothing /\ before[R].kind = "link"
    <3>1. ~Under(home, R)
      BY <1>2, <2>1
    <3>2. Under(R, home) /\ home # R
      BY <1>1, <1>3, <2>1, <3>1
    <3>3. before[home] = Nothing
      BY <1>1, <1>2, <2>1, <3>2, TreeBelow DEF Sound
    <3> QED
      BY <1>1, <3>3
  <2>2. CASE before[R] = Nothing \/ before[R].kind # "link"
    <3>1. Real(before, output) = IF before[R] = Nothing THEN Nowhere ELSE At(R)
      <4>1. Real(before, Front(output)) = At(Home) /\ KindOf(before, Home) = "directory"
        BY HomeForm DEF Resolved
      <4> QED
        BY <2>2, <4>1, OutputLeads DEF Sound, Replaced
    <3>2. Destination = R
      BY <3>1, Found DEF Destination
    <3> QED
      BY <1>3, <3>2 DEF Apart
  <2> QED
    BY <2>1, <2>2
<1>4. ~Under(R, p)
  <2> SUFFICES ASSUME Under(R, p) PROVE FALSE
    OBVIOUS
  <2>1. Under(home, R) \/ Under(R, home)
    BY <1>1, <1>2, Comparable
  <2> QED
    BY <1>3, <2>1
<1>5. ASSUME NEW name \in {Staging, Aside}, Under(Scratch(name), p) PROVE FALSE
  <2> DEFINE X == Scratch(name)
  <2>1. X \in Places /\ \A q \in Asked : ~Under(X, q)
    BY Layout, AskedPlaces
  <2>2. Under(home, X)
    <3> HIDE DEF X
    <3>1. Under(home, X) \/ Under(X, home)
      BY <1>1, <1>5, <2>1, Comparable DEF X
    <3> QED
      BY <1>1, <2>1, <3>1
  <2>3. Under(home, R)
    <3>1. IsHome(Home) /\ Last(output) \in Names /\ name \notin Names
      BY HomeForm, OutputParts, NamesAssumption DEF Sound, ScratchNames
    <3>2. CASE Home = <<>>
      <4>1. X = <<name>>
        BY <3>2, Parts DEF Scratch
      <4>2. home = <<name>>
        BY <1>1, <2>2, <4>1, AskedForms, UnderForms
      <4> QED
        BY <1>1, <3>1, <4>2, AskedForms, Differ
    <3>3. ASSUME NEW d \in Names, Home = <<d>> PROVE Under(home, R)
      <4>1. X = <<d, name>> /\ R = <<d, Last(output)>>
        BY <3>3, Parts DEF Scratch, Replaced
      <4>2. home = <<d>> \/ home = <<d, name>>
        BY <1>1, <2>2, <4>1, AskedForms, UnderForms
      <4>3. home # <<d, name>>
        BY <1>1, <3>1, AskedForms, Differ
      <4>4. Under(<<d>>, <<d, Last(output)>>)
        BY UnderForms
      <4> HIDE DEF R, home
      <4> QED
        BY <4>1, <4>2, <4>3, <4>4
    <3> QED
      BY <3>1, <3>2, <3>3 DEF IsHome
  <2> QED
    BY <1>3, <2>3
<1> QED
  BY <1>4, <1>5

(* Elsewhere than at those three places no state of a run differs from the *)
(* file system it found.                                                   *)
LEMMA Elsewhere ==
  ASSUME Sound, Resolved, NEW p \in Places,
         ~Under(Scratch(Staging), p), ~Under(Scratch(Aside), p), ~Under(Replaced, p)
  PROVE  Staged[p] = before[p] /\ Cleared[p] = before[p]
         /\ Installed[p] = before[p] /\ Tidied[p] = before[p]
<1>1. p # Scratch(Staging) /\ p # Replaced
  BY Layout
<1>2. Staged[p] = before[p]
  BY <1>1, StagedAt
<1>3. Cleared[p] = before[p]
  BY <1>1, ClearedAt
<1>4. Installed[p] = before[p]
  BY <1>1, InstalledAt
<1>5. Tidied[p] = before[p]
  BY <1>1, TidiedAt
<1> QED
  BY <1>2, <1>3, <1>4, <1>5

LEMMA KeepsOffSource ==
  ASSUME IInv
  PROVE  SourceUntouched
<1> DEFINE home == Real(before, source)
           own  == {p \in Places : home.found /\ Under(home.at, p)}
<1> SUFFICES ASSUME \A p \in own : before[p].kind # "link", NEW p \in own PROVE fs[p] = before[p]
  BY DEF SourceUntouched
<1>1. Sound
  BY GivenSound DEF IInv
<1>2. p \in Places /\ home.found /\ Under(home.at, p)
  OBVIOUS
<1>3. \A q \in Places : Under(home.at, q) => before[q].kind # "link"
  BY <1>2
<1>4. CASE fs = before
  BY <1>4
<1>5. CASE fs # before
  <2>1. /\ Apart /\ Resolved
        /\ fs = Staged \/ fs = Cleared \/ fs = Installed \/ fs = Tidied
    BY <1>5 DEF IInv, Early, Filling, Late
  <2>2. ~Under(Scratch(Staging), p) /\ ~Under(Scratch(Aside), p) /\ ~Under(Replaced, p)
    BY <1>1, <1>2, <1>3, <2>1, SourceApart
  <2>3. /\ Staged[p] = before[p] /\ Cleared[p] = before[p]
        /\ Installed[p] = before[p] /\ Tidied[p] = before[p]
    BY <1>1, <1>2, <2>1, <2>2, Elsewhere
  <2> QED
    BY <2>1, <2>3
<1> QED
  BY <1>4, <1>5

LEMMA MovesNothingElse ==
  ASSUME IInv
  PROVE  NothingElseMoves
<1> DEFINE R == Replaced
           A == Scratch(Aside)
           S == Scratch(Staging)
<1>1. Sound
  BY GivenSound DEF IInv
<1>2. ASSUME phase = "failed", fs # before
      PROVE  /\ ComesBack /\ before[R].kind = "link"
             /\ fs = [before EXCEPT ![R] = Nothing, ![A] = before[R], ![S] = Corpus]
  <2>1. fs = Cleared /\ Resolved /\ ComesBack
    BY <1>2 DEF IInv
  <2>2. before[R].kind = "link" /\ Home # <<>>
    BY <1>1, <2>1, ComesBackByLink
  <2>3. /\ R \in Asked /\ R \in Places /\ A \in Places /\ S \in Places
        /\ S # A /\ S # R /\ A # R /\ Under(A, A) /\ Under(R, R) /\ Under(S, S)
        /\ \A p \in Places : /\ ~(Under(S, p) /\ Under(A, p)) /\ ~(Under(S, p) /\ Under(R, p))
                             /\ ~(Under(A, p) /\ Under(R, p))
                             /\ Under(S, p) \/ Under(A, p) => before[p] = Nothing
    BY <1>1, <2>1, Layout
  <2>4. before = [p \in Places |-> before[p]] /\ IsTree(before)
    BY <1>1, TreeShape DEF Sound
  <2>5. \A p \in Places : Under(R, p) /\ p # R => before[p] = Nothing
    BY <2>2, <2>3, <2>4, TreeBelow
  <2>6. \A p \in Places : Under(A, p) =>
           /\ Origin(R, A, p) \in Places /\ Under(R, Origin(R, A, p))
           /\ Origin(R, A, p) = R <=> p = A
    BY <1>1, <2>1, LayoutCarries
  <2>7. \A p \in Places : Cleared[p] =
           IF Under(A, p) THEN before[Origin(R, A, p)]
           ELSE IF Under(R, p) THEN Nothing ELSE IF p = S THEN Corpus ELSE before[p]
    BY <1>1, <2>1, ClearedAt
  <2>8. Cleared = [p \in Places |-> Cleared[p]]
    <3>1. Staged = [p \in Places |-> Staged[p]]
      BY <2>4 DEF Staged
    <3> QED
      BY <3>1 DEF Cleared, Moved
  <2> HIDE DEF R, A, S
  <2> DEFINE lost == [before EXCEPT ![R] = Nothing, ![A] = before[R], ![S] = Corpus]
  <2>9. /\ lost = [p \in Places |-> lost[p]]
        /\ \A p \in Places : lost[p] = IF p = S THEN Corpus ELSE IF p = A THEN before[R]
                                       ELSE IF p = R THEN Nothing ELSE before[p]
    BY <2>3, <2>4
  <2>10. \A p \in Places : Cleared[p] = lost[p]
    <3> HIDE DEF lost
    <3> TAKE p \in Places
    <3>1. CASE Under(A, p)
      BY <2>3, <2>5, <2>6, <2>7, <2>9, <3>1
    <3>2. CASE ~Under(A, p)
      BY <2>3, <2>5, <2>7, <2>9, <3>2
    <3> QED
      BY <3>1, <3>2
  <2>11. Cleared = lost
    <3> HIDE DEF lost
    <3> QED
      BY <2>8, <2>9, <2>10
  <2> QED
    BY <2>1, <2>2, <2>11 DEF R
<1>3. ASSUME phase = "published", NEW p \in Places
      PROVE  \/ Under(R, p) \/ fs[p] = before[p]
             \/ p = A /\ before[R].kind = "file" /\ fs[p] = before[R]
  <2>1. fs = Tidied /\ Resolved
    BY <1>3 DEF IInv, Late
  <2>2. Under(S, p) \/ Under(A, p) => before[p] = Nothing
    BY <1>1, <2>1, Layout
  <2>3. Tidied[p] =
           IF p = R THEN Corpus
           ELSE IF Under(R, p) \/ Under(S, p) THEN Nothing
           ELSE IF Under(A, p)
                  THEN IF before[R].kind = "file" /\ p = A THEN before[R] ELSE Nothing
           ELSE before[p]
    BY <1>1, <2>1, TidiedAt
  <2>4. Under(R, R)
    BY <1>1, <2>1, Layout
  <2> HIDE DEF R, A, S
  <2> QED
    BY <2>1, <2>2, <2>3, <2>4
<1>4. ASSUME phase = "published" PROVE Exists(output) /\ fs[Canonical(output)] = Corpus
  <2>1. fs = Tidied /\ Resolved /\ ~ComesBack
    BY <1>4 DEF IInv, Late
  <2>2. Real(Tidied, output) = At(R) /\ Tidied[R] = Corpus
    BY <1>1, <2>1, TidiedLeads
  <2> QED
    BY <2>1, <2>2, Found DEF Exists, Canonical
<1> QED
  BY <1>2, <1>3, <1>4 DEF NothingElseMoves, Scratch

-----------------------------------------------------------------------------
(* The invariant holds at the start and is kept by every step.             *)

LEMMA InitIInv == Init => IInv
<1> SUFFICES ASSUME Init PROVE IInv
  OBVIOUS
<1>1. PICK given \in Given : source = given[1] /\ output = given[2]
  BY DEF Init
<1>2. given = <<given[1], given[2]>>
  BY GivenAssumption
<1>3. <<source, output>> \in Given
  BY <1>1, <1>2
<1> QED
  BY <1>3 DEF Init, IInv, Filling, Late

(* The paths, and so what each state would be, are fixed for the run.      *)
LEMMA Fixed ==
  ASSUME UNCHANGED <<source, output, before>>
  PROVE  /\ Staged' = Staged /\ Cleared' = Cleared /\ Installed' = Installed /\ Tidied' = Tidied
         /\ (Apart <=> Apart') /\ (Resolved <=> Resolved') /\ (ComesBack <=> ComesBack')
<1>1. Home' = Home /\ Replaced' = Replaced
  BY DEF Home, Replaced
<1>2. \A name : Scratch(name)' = Scratch(name)
  BY <1>1 DEF Scratch
<1>3. Staged' = Staged
  BY <1>2 DEF Staged
<1>4. Cleared' = Cleared
  BY <1>1, <1>2, <1>3 DEF Cleared
<1>5. Installed' = Installed
  BY <1>1, <1>2, <1>4 DEF Installed
<1>6. Tidied' = Tidied
  BY <1>2, <1>4, <1>5 DEF Tidied
<1>7. Apart <=> Apart'
  BY <1>1 DEF Apart, Destination
<1>8. Resolved <=> Resolved'
  BY <1>1 DEF Resolved
<1>9. ComesBack <=> ComesBack'
  BY <1>1 DEF ComesBack
<1> QED
  BY <1>3, <1>4, <1>5, <1>6, <1>7, <1>8, <1>9

(* Where the output's parent is still found, the steps work on the places  *)
(* it named before the run.                                                *)
LEMMA SameParent ==
  ASSUME Real(fs, Front(output)) = At(Home)
  PROVE  /\ Slot = Replaced /\ \A name : Sibling(name) = Scratch(name)
         /\ KindOf(fs, Home) = "directory" => Reachable
BY Found DEF Slot, Entry, Replaced, Sibling, Canonical, Scratch, Reachable, IsDirectory, Exists

LEMMA StepIInv == IInv /\ [Next]_vars => IInv'
<1> SUFFICES ASSUME IInv, [Next]_vars PROVE IInv'
  OBVIOUS
<1>0. Sound
  BY GivenSound DEF IInv
<1>1. CASE Check
  <2>1. UNCHANGED <<fs, source, output, before>>
    BY <1>1 DEF Check
  <2>2. fs = before
    BY <1>1 DEF Check, Go, IInv, Early
  <2>3. (phase' = "discover" /\ Separate) \/ phase' = "failed"
    BY <1>1 DEF Check, Go
  <2>4. Separate => Apart
    <3> SUFFICES ASSUME Separate PROVE Apart
      OBVIOUS
    <3>1. Canonical(source) = Real(before, source).at
      BY <2>2 DEF Canonical
    <3>2. ResolveOutput(output) = Destination
      BY <2>2 DEF ResolveOutput, Destination, Exists, Canonical, Entry, Replaced, Home
    <3> QED
      BY <3>1, <3>2 DEF Separate, Overlapping, Apart, Under
  <2>5. Apart <=> Apart'
    BY <2>1, Fixed
  <2> QED
    BY <2>1, <2>2, <2>3, <2>4, <2>5 DEF IInv, Early, Filling, Late
<1>2. CASE Discover
  <2>1. UNCHANGED <<fs, source, output, before>>
    BY <1>2 DEF Discover
  <2>2. phase = "discover" /\ phase' \in {"stage", "failed"}
    BY <1>2 DEF Discover, Go
  <2>3. fs = before /\ Apart
    BY <2>2 DEF IInv, Early
  <2>4. Apart <=> Apart'
    BY <2>1, Fixed
  <2> QED
    BY <2>1, <2>2, <2>3, <2>4 DEF IInv, Early, Filling, Late
<1>3. CASE Stage
  <2>1. UNCHANGED <<source, output, before>>
    BY <1>3 DEF Stage
  <2>2. phase = "stage" /\ phase' = "build" /\ Reachable
    BY <1>3 DEF Stage, Go
  <2>3. fs = before /\ Apart
    BY <2>2 DEF IInv, Early
  <2>4. Resolved
    BY <2>2, <2>3 DEF Reachable, IsDirectory, Exists, Canonical, Resolved, Home
  <2>5. Sibling(Staging) = Scratch(Staging)
    BY <2>3 DEF Sibling, Scratch, Canonical, Home
  <2>6. fs' = Staged
    BY <1>3, <2>3, <2>5 DEF Stage, Staged
  <2>7. Staged' = Staged /\ (Apart <=> Apart') /\ (Resolved <=> Resolved')
    BY <2>1, Fixed
  <2> QED
    BY <2>1, <2>2, <2>3, <2>4, <2>6, <2>7 DEF IInv, Early, Filling, Late
<1>4. CASE StageFails
  <2>1. UNCHANGED <<fs, source, output, before>> /\ phase = "stage" /\ phase' = "failed"
    BY <1>4 DEF StageFails, Go
  <2>2. fs = before
    BY <2>1 DEF IInv, Early
  <2> QED
    BY <2>1, <2>2 DEF IInv, Early, Filling, Late
<1>5. CASE Build
  <2>1. UNCHANGED <<fs, source, output, before>> /\ phase = "build" /\ phase' = "publish"
    BY <1>5 DEF Build, Go
  <2>2. fs = Staged /\ Apart /\ Resolved
    BY <2>1 DEF IInv, Filling
  <2>3. Staged' = Staged /\ (Apart <=> Apart') /\ (Resolved <=> Resolved')
    BY <2>1, Fixed
  <2> QED
    BY <2>1, <2>2, <2>3 DEF IInv, Early, Filling, Late
<1>6. CASE Abandon
  <2>1. UNCHANGED <<source, output, before>> /\ phase \in Filling /\ phase' = "failed"
    BY <1>6 DEF Abandon, Filling
  <2>2. fs = Staged /\ Resolved
    BY <2>1 DEF IInv, Filling
  <2>3. Sibling(Staging) = Scratch(Staging)
    BY <1>0, <2>2, StagedLeads, SameParent
  <2>4. fs' = before
    BY <1>0, <1>6, <2>2, <2>3, Dropped DEF Abandon
  <2> QED
    BY <2>1, <2>4 DEF IInv, Early, Filling, Late
<1>7. CASE SetAside
  <2>1. UNCHANGED <<source, output, before>> /\ phase = "publish" /\ phase' = "install"
    BY <1>7 DEF SetAside, Go
  <2>2. fs = Staged /\ Apart /\ Resolved
    BY <2>1 DEF IInv, Filling
  <2>3. Slot = Replaced /\ Sibling(Aside) = Scratch(Aside)
    BY <1>0, <2>2, StagedLeads, SameParent
  <2>4. Staged[Replaced] = before[Replaced]
    BY <1>0, <2>2, StagedAt, Layout
  <2>5. fs' = Cleared
    BY <1>7, <2>2, <2>3, <2>4 DEF SetAside, Cleared
  <2>6. Cleared' = Cleared /\ (Apart <=> Apart') /\ (Resolved <=> Resolved')
    BY <2>1, Fixed
  <2> QED
    BY <2>1, <2>2, <2>5, <2>6 DEF IInv, Early, Filling, Late
<1>8. CASE Install
  <2>1. /\ UNCHANGED <<source, output, before>> /\ phase = "install" /\ phase' = "remove"
        /\ Reachable
    BY <1>8 DEF Install, Go
  <2>2. fs = Cleared /\ Apart /\ Resolved
    BY <2>1 DEF IInv, Late
  <2>3. Real(fs, Front(output)).found
    BY <2>1 DEF Reachable, IsDirectory, Exists
  <2>4. ~ComesBack
    BY <1>0, <2>2, <2>3, AsideLeads DEF ComesBack
  <2>5. Real(fs, Front(output)) = At(Home)
    BY <1>0, <2>2, <2>4, AsideLeads
  <2>6. Slot = Replaced /\ Sibling(Staging) = Scratch(Staging)
    BY <2>5, SameParent
  <2>7. fs' = Installed
    BY <1>8, <2>2, <2>6 DEF Install, Installed
  <2>8. /\ Installed' = Installed /\ (Apart <=> Apart') /\ (Resolved <=> Resolved')
        /\ (ComesBack <=> ComesBack')
    BY <2>1, Fixed
  <2> QED
    BY <2>1, <2>2, <2>4, <2>7, <2>8 DEF IInv, Early, Filling, Late
<1>9. CASE InstallFails
  <2>1. UNCHANGED <<source, output, before>> /\ phase = "install" /\ phase' = "failed"
    BY <1>9 DEF InstallFails, Go
  <2>2. fs = Cleared /\ Apart /\ Resolved
    BY <2>1 DEF IInv, Late
  <2>3. CASE ComesBack
    <3>1. ~Reachable
      BY <1>0, <2>2, <2>3, AsideLeads DEF ComesBack, Reachable, IsDirectory, Exists
    <3>2. fs' = Cleared
      BY <1>9, <2>2, <3>1 DEF InstallFails
    <3>3. /\ Cleared' = Cleared /\ (Apart <=> Apart') /\ (Resolved <=> Resolved')
          /\ (ComesBack <=> ComesBack')
      BY <2>1, Fixed
    <3> QED
      BY <2>1, <2>2, <2>3, <3>2, <3>3 DEF IInv, Early, Filling, Late
  <2>4. CASE ~ComesBack
    <3>1. Real(fs, Front(output)) = At(Home) /\ KindOf(fs, Home) = "directory"
      BY <1>0, <2>2, <2>4, AsideLeads, HomeStays
    <3>2. /\ Slot = Replaced /\ Sibling(Staging) = Scratch(Staging)
          /\ Sibling(Aside) = Scratch(Aside) /\ Reachable
      BY <3>1, SameParent
    <3>3. fs' = before
      BY <1>0, <1>9, <2>2, <3>2, Restored DEF InstallFails
    <3> QED
      BY <2>1, <3>3 DEF IInv, Early, Filling, Late
  <2> QED
    BY <2>3, <2>4
<1>10. CASE RemoveAside
  <2>1. UNCHANGED <<source, output, before>> /\ phase = "remove" /\ phase' = "published"
    BY <1>10 DEF RemoveAside, Go
  <2>2. fs = Installed /\ Apart /\ Resolved /\ ~ComesBack
    BY <2>1 DEF IInv, Late
  <2>3. Real(fs, Front(output)) = At(Home)
    BY <1>0, <2>2, InstalledLeads
  <2>4. Sibling(Aside) = Scratch(Aside)
    BY <2>3, SameParent
  <2>5. Installed[Scratch(Aside)] = Cleared[Scratch(Aside)]
    <3>1. /\ Scratch(Aside) \in Places /\ Under(Scratch(Aside), Scratch(Aside))
          /\ Scratch(Aside) # Replaced /\ ~Under(Replaced, Scratch(Aside))
          /\ ~Under(Scratch(Staging), Scratch(Aside))
      BY <1>0, <2>2, Layout
    <3> QED
      BY <1>0, <2>2, <3>1, InstalledAt, ClearedAt
  <2>6. fs' = Tidied
    BY <1>10, <2>2, <2>4, <2>5 DEF RemoveAside, Tidied
  <2>7. /\ Tidied' = Tidied /\ (Apart <=> Apart') /\ (Resolved <=> Resolved')
        /\ (ComesBack <=> ComesBack')
    BY <2>1, Fixed
  <2> QED
    BY <2>1, <2>2, <2>6, <2>7 DEF IInv, Early, Filling, Late
<1>11. CASE UNCHANGED vars
  <2>1. UNCHANGED <<fs, source, output, before, phase>>
    BY <1>11 DEF vars
  <2>2. /\ Staged' = Staged /\ Cleared' = Cleared /\ Installed' = Installed /\ Tidied' = Tidied
        /\ (Apart <=> Apart') /\ (Resolved <=> Resolved') /\ (ComesBack <=> ComesBack')
    BY <2>1, Fixed
  <2> QED
    BY <2>1, <2>2 DEF IInv, Early, Filling, Late
<1> QED
  BY <1>1, <1>2, <1>3, <1>4, <1>5, <1>6, <1>7, <1>8, <1>9, <1>10, <1>11 DEF Next

-----------------------------------------------------------------------------

(* A run keeps off its own source: whatever the links of the two paths, a  *)
(* source directory that holds no link stays as it was at every step.      *)
THEOREM SourceStaysWhole == Spec => []SourceUntouched
BY InitIInv, StepIInv, KeepsOffSource, PTL DEF Spec

(* Publishing is confined to the entry that the output path names: all the *)
(* rest is as it was, after a success and after a failure.                 *)
THEOREM PublishesInPlace == Spec => []NothingElseMoves
BY InitIInv, StepIInv, MovesNothingElse, PTL DEF Spec

=============================================================================
