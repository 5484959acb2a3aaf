----------------------------- MODULE Separation -----------------------------
(***************************************************************************)
(* What keeps a run off its own source: both paths are resolved, links and *)
(* all, and compared before anything is read; publishing then works on the *)
(* output path as it was given.  The file system is a tree two levels deep, *)
(* of any names and links.  One run has it to itself.                      *)
(***************************************************************************)
EXTENDS Naturals, Sequences, SequencesExt

CONSTANTS
  Names,             \* the names a caller uses
  Staging, Aside,    \* the scratch names of the run
  MaxLinks,          \* how many links deep a path may lead: beyond is ELOOP
  Trees, Given       \* the file systems, and the source and output of runs

ScratchNames == {Staging, Aside}
AllNames == Names \cup ScratchNames
ASSUME NamesAssumption == Staging # Aside /\ Names \cap ScratchNames = {}
ASSUME LinksAssumption == MaxLinks \in Nat

Paths(names) == {<<n>> : n \in names} \cup {<<n, m>> : n, m \in names}
Places == Paths(AllNames)     \* where something may be
Asked  == Paths(Names)        \* absolute paths of callers and of links

(* What may be at a place; a file is known by the place it was made at.    *)
Nothing   == [kind |-> "nothing"]
Directory == [kind |-> "directory"]
Corpus    == [kind |-> "corpus"]      \* the directory this run builds
File(p)   == [kind |-> "file", made |-> p]
Link(p)   == [kind |-> "link", to |-> p]

(* A directory is at the top, and what is below the top is in one.         *)
IsLink(thing) == thing.kind = "link" /\ thing = Link(thing.to) /\ thing.to \in Asked
IsTree(tree) ==
  /\ tree = [p \in Places |-> tree[p]]
  /\ \A p \in Places \ Asked : tree[p] = Nothing
  /\ \A p \in Asked :
       /\ tree[p] \in {Nothing, Directory, File(p)} \/ IsLink(tree[p])
       /\ Len(p) = 2 /\ tree[p] # Nothing => tree[p] # Directory /\ tree[Front(p)] = Directory

ASSUME TreesAssumption == \A tree \in Trees : IsTree(tree)
ASSUME GivenAssumption == Given \subseteq Asked \X Asked

VARIABLES
  fs,        \* what is at each place
  source, output,   \* the paths the run was given
  sources,   \* real places of the files the run reads
  phase,     \* the step it is about to take, or how it ended
  before     \* fs when it started

vars == <<fs, source, output, sources, phase, before>>

-----------------------------------------------------------------------------
(* Path resolution *)

At(place) == [at |-> place, found |-> TRUE]
Nowhere   == [at |-> <<>>, found |-> FALSE]

KindOf(tree, place) == IF place = <<>> THEN "directory" ELSE tree[place].kind

(* The entry of a directory; a link leads further, where its target does.  *)
Enter(tree, further, parent, name) ==
  LET here == Append(parent.at, name)
  IN  IF ~parent.found \/ KindOf(tree, parent.at) # "directory" \/ tree[here] = Nothing THEN Nowhere
      ELSE IF tree[here].kind = "link" THEN further[tree[here].to] ELSE At(here)

(* Where each path leads, its first name entered from the root: <<>>.      *)
Walk(tree, further) ==
  [p \in Asked \cup {<<>>} |->
     IF p = <<>> THEN At(<<>>)
     ELSE LET top == Enter(tree, further, At(<<>>), p[1])
          IN  IF Len(p) = 1 THEN top ELSE Enter(tree, further, top, p[2])]

Leads(tree) ==
  LET leads[links \in 0 .. MaxLinks] ==
        Walk(tree, IF links = 0 THEN [p \in Asked |-> Nowhere] ELSE leads[links - 1])
  IN  leads

(* The real place of a path, if it has one.                                *)
Real(tree, path) == Leads(tree)[MaxLinks][path]

Exists(path)      == Real(fs, path).found
Canonical(path)   == Real(fs, path).at
IsDirectory(path) == Exists(path) /\ KindOf(fs, Canonical(path)) = "directory"
IsFile(path)      == Exists(path) /\ KindOf(fs, Canonical(path)) = "file"

(* The entry a path names, a last link not followed, in its real parent.   *)
Entry(tree, path) == Append(Real(tree, Front(path)).at, Last(path))

(* resolve_output: what exists is resolved, what does not by its parent.   *)
Resolvable(path)    == Exists(path) \/ Exists(Front(path))
ResolveOutput(path) == IF Exists(path) THEN Canonical(path) ELSE Entry(fs, path)

-----------------------------------------------------------------------------
(* Moving and removing *)

Under(top, p)   == IsPrefix(top, p)
Moved(tree, from, to) ==
  [p \in Places |->
     IF Under(to, p)
       THEN LET origin == from \o SubSeq(p, Len(to) + 1, Len(p))
            IN  IF origin \in Places THEN tree[origin] ELSE Nothing
     ELSE IF Under(from, p) THEN Nothing ELSE tree[p]]
Removed(tree, top) == [p \in Places |-> IF Under(top, p) THEN Nothing ELSE tree[p]]

Sibling(name) == Append(Canonical(Front(output)), name)   \* beside the output

(* Faulty: publishing works on what the output path leads to.              *)
SlotResolved == ResolveOutput(output)

Slot == Entry(fs, output)    \* the entry that publishing renames

(* Every call names its path anew, by way of the output's parent.          *)
Reachable == IsDirectory(Front(output))

-----------------------------------------------------------------------------

Init ==
  /\ fs \in Trees
  /\ \E given \in Given : source = given[1] /\ output = given[2]
  /\ sources = {}
  /\ phase = "check"
  /\ before = fs

Go(from, to) == phase = from /\ phase' = to

(* resolved_source: refuses what overlaps either way round, and a path     *)
(* that leads nowhere.                                                     *)
(* Faulty: only an output inside the source is refused.                    *)
InsideSource == IsPrefix(Canonical(source), ResolveOutput(output))

Overlapping ==
  \/ IsPrefix(Canonical(source), ResolveOutput(output))
  \/ IsPrefix(ResolveOutput(output), Canonical(source))

Separate == Exists(source) /\ Resolvable(output) /\ ~Overlapping

Check ==
  /\ \/ Go("check", "discover") /\ Separate
     \/ Go("check", "failed") /\ ~Separate
  /\ UNCHANGED <<fs, source, output, sources, before>>

(* discover_sources follows the links of a directory and does not descend. *)
Discovered ==
  IF IsFile(source) THEN {Canonical(source)}
  ELSE {Canonical(Append(Canonical(source), n)) :
          n \in {m \in Names : IsFile(Append(Canonical(source), m))}}

Discover ==
  /\ \/ Go("discover", "stage") /\ Discovered # {}
     \/ Go("discover", "failed") /\ Discovered = {}
  /\ sources' = Discovered
  /\ UNCHANGED <<fs, source, output, before>>

(* create; the file in it is no source, whatever DerivedDestination finds. *)
Stage ==
  /\ Go("stage", "build")
  /\ Reachable
  /\ fs' = [fs EXCEPT ![Sibling(Staging)] = Corpus]
  /\ UNCHANGED <<source, output, sources, before>>

StageFails ==
  /\ Go("stage", "failed")
  /\ ~Reachable
  /\ UNCHANGED <<fs, source, output, sources, before>>

Build ==
  /\ Go("build", "publish")
  /\ UNCHANGED <<fs, source, output, sources, before>>

(* Anything may fail once there is a staging directory; it is dropped.     *)
Abandon ==
  /\ phase \in {"build", "publish"}
  /\ phase' = "failed"
  /\ fs' = Removed(fs, Sibling(Staging))
  /\ UNCHANGED <<source, output, sources, before>>

SetAside ==
  /\ Go("publish", "install")
  /\ fs' = IF fs[Slot] = Nothing THEN fs ELSE Moved(fs, Slot, Sibling(Aside))
  /\ UNCHANGED <<source, output, sources, before>>

Install ==
  /\ Go("install", "remove")
  /\ Reachable
  /\ fs' = Moved(fs, Sibling(Staging), Slot)
  /\ UNCHANGED <<source, output, sources, before>>

(* The rollback and the removal, which find nothing where the way to the   *)
(* output led through what was set aside; that they may fail otherwise is  *)
(* left to StagedCorpus.                                                   *)
InstallFails ==
  /\ Go("install", "failed")
  /\ LET restored == IF fs[Sibling(Aside)] = Nothing THEN fs
                     ELSE Moved(fs, Sibling(Aside), Slot)
     IN  fs' = IF Reachable THEN Removed(restored, Sibling(Staging)) ELSE fs
  /\ UNCHANGED <<source, output, sources, before>>

(* remove_dir_all: of a link it removes the link; a file it refuses, and   *)
(* the refusal is ignored.                                                 *)
RemoveAside ==
  /\ Go("remove", "published")
  /\ fs' = IF fs[Sibling(Aside)].kind = "file" THEN fs ELSE Removed(fs, Sibling(Aside))
  /\ UNCHANGED <<source, output, sources, before>>

Next ==
  \/ Check \/ Discover \/ Stage \/ StageFails \/ Build \/ Abandon
  \/ SetAside \/ Install \/ InstallFails \/ RemoveAside

Spec == Init /\ [][Next]_vars

-----------------------------------------------------------------------------
(* Properties *)

TypeOK ==
  /\ \A p \in Places :
       fs[p] \in {Nothing, Directory, Corpus} \cup {File(q) : q \in Places} \cup {Link(q) : q \in Asked}
  /\ \A p \in Places : fs[p] # Nothing /\ Len(p) = 2 => fs[Front(p)] = Directory
  /\ source \in Asked /\ output \in Asked /\ sources \subseteq Places
  /\ phase \in {"check", "discover", "stage", "build", "publish", "install", "remove",
                "published", "failed"}

Ended == phase \in {"published", "failed"}

(* A source directory that holds no links is at every moment what it was:  *)
(* no entry of it is written, moved or removed, and none is added.         *)
SourceUntouched ==
  LET home == Real(before, source)
      own  == {p \in Places : home.found /\ Under(home.at, p)}
  IN  (\A p \in own : before[p].kind # "link") => \A p \in own : fs[p] = before[p]

(* Of the output path, before the run: its parent, and the entry it names; *)
(* and whether the way to the parent leads through that very entry.        *)
Home      == Real(before, Front(output)).at
Replaced  == Append(Home, Last(output))
ComesBack == ~Real(Removed(before, Replaced), Front(output)).found

(* A run that fails leaves the file system as it found it; one that        *)
(* publishes changes what the output path names and nothing beside it -    *)
(* except that a file that stood there is left under its aside name - and  *)
(* the path it was given then leads to the corpus.  Where the output path  *)
(* comes back through its own entry, a link that was set aside is lost to  *)
(* every later rename, and the run fails beside it.                        *)
NothingElseMoves ==
  /\ phase = "failed" =>
       \/ fs = before
       \/ /\ ComesBack /\ before[Replaced].kind = "link"
          /\ fs = [before EXCEPT ![Replaced] = Nothing, ![Append(Home, Aside)] = before[Replaced],
                                 ![Append(Home, Staging)] = Corpus]
  /\ phase = "published" =>
       \A p \in Places :
         \/ Under(Replaced, p) \/ fs[p] = before[p]
         \/ p = Append(Home, Aside) /\ before[Replaced].kind = "file" /\ fs[p] = before[Replaced]
  /\ phase = "published" => Exists(output) /\ fs[Canonical(output)] = Corpus

=============================================================================
