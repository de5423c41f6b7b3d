-------------------------- MODULE TargetResolution --------------------------
(***************************************************************************)
(* resolveTarget of src/src/document_store.cpp: the walk that finds the    *)
(* physical file a path leads to, by the file system calls it makes, while *)
(* somebody may point a link elsewhere.  DocumentStore takes its result as *)
(* one look at a link; the name of the lock is made from it.               *)
(*                                                                         *)
(* A physical path is a sequence of names, the root is the empty one.      *)
(***************************************************************************)
EXTENDS Naturals, SequencesExt, FiniteSets

CONSTANTS
  Dirs,        \* physical paths of directories
  Files,       \* of regular files; what is in neither and no link is missing
  Links,       \* of symbolic links
  Targets,     \* what a link can hold
  Paths,       \* what callers ask for, from the root
  MaxLinks,    \* kMaximumLinks
  MaxChanges   \* bound: how often links are changed during a walk

ASSUME TreeAssumption ==
  /\ <<>> \in Dirs
  /\ Dirs \cap Files = {} /\ (Dirs \cup Files) \cap Links = {}
  /\ \A d \in (Dirs \cup Files \cup Links) \ {<<>>} : Front(d) \in Dirs
  /\ Targets \subseteq [absolute : BOOLEAN, parts : Seq(STRING)]
  /\ Paths \subseteq Seq(STRING)
  /\ MaxLinks \in Nat /\ MaxChanges \in Nat

VARIABLES
  tree,      \* what each link holds
  path,      \* the argument
  resolved,  \* the physical path walked so far
  pending,   \* the components to walk
  links,     \* links followed
  status,    \* "walking", "found", or the error
  trees,     \* history: the trees since the walk began
  met        \* history: the links followed

walk == <<path, resolved, pending, links, status, met>>
vars == <<tree, trees, walk>>

Statuses == {"walking", "found", "NotADirectory", "NoEntry", "TooManyLinks"}

-----------------------------------------------------------------------------
(* The walk *)

Init ==
  /\ tree \in [Links -> Targets]
  /\ trees = {tree}
  /\ path \in Paths
  /\ resolved = <<>> /\ pending = path
  /\ links = 0 /\ met = {}
  /\ status = "walking"

Walking   == status = "walking" /\ pending # <<>>
Component == Head(pending)
Candidate == Append(resolved, Component)

\* Mutant: ".." stays where it is.
SameAgain(p) == p

\* parent_path: the root's is the root.
Parent(p) == IF p = <<>> THEN <<>> ELSE Front(p)

Fail(error) ==
  /\ status' = error
  /\ UNCHANGED <<tree, trees, path, resolved, pending, links, met>>

Walk(at, rest) ==
  /\ resolved' = at
  /\ pending' = rest
  /\ UNCHANGED <<tree, trees, path, status>>

\* A path that ends in a slash has an empty component.
SkipEmpty ==
  /\ Walking /\ Component = ""
  /\ Walk(resolved, Tail(pending))
  /\ UNCHANGED <<links, met>>

\* requireDirectory: "." and ".." need a directory to be there.
Dots ==
  /\ Walking /\ Component \in {".", ".."}
  /\ IF resolved \in Dirs
     THEN /\ Walk(IF Component = ".." THEN Parent(resolved) ELSE resolved, Tail(pending))
          /\ UNCHANGED <<links, met>>
     ELSE Fail(IF resolved \in Files THEN "NotADirectory" ELSE "NoEntry")

Named == Walking /\ Component \notin {"", ".", ".."}

\* Mutant: only the last component can be a link.
IsLastLink(p) == p \in Links /\ Len(pending) = 1

\* symlink_status
IsLink(p) == p \in Links

\* No link: a file or directory, or nothing yet.
Plain ==
  /\ Named /\ ~ IsLink(Candidate)
  /\ IF resolved \in Files
     THEN Fail("NotADirectory")
     ELSE Walk(Candidate, Tail(pending)) /\ UNCHANGED <<links, met>>

\* Mutant: the count starts again with every component.
OneMore(n) == 1

Counted(n) == n + 1

\* Mutant: an absolute target is taken from where the link is.
FromThere(target, at) == at

\* prependLinkTarget: where the walk goes on from.
StartOf(target, at)   == IF target.absolute THEN <<>> ELSE at

\* A link: read_symlink, and what it holds comes before what is left to walk.
Follow ==
  /\ Named /\ IsLink(Candidate)
  /\ IF Counted(links) > MaxLinks
     THEN Fail("TooManyLinks")
     ELSE /\ links' = Counted(links)
          /\ met' = met \cup {Candidate}
          /\ Walk(StartOf(tree[Candidate], resolved), tree[Candidate].parts \o Tail(pending))

Finish ==
  /\ status = "walking" /\ pending = <<>>
  /\ status' = "found"
  /\ UNCHANGED <<tree, trees, path, resolved, pending, links, met>>

\* Somebody replaces a link.
Relink ==
  /\ status = "walking" /\ Cardinality(trees) <= MaxChanges
  /\ \E l \in Links, target \in Targets : tree' = [tree EXCEPT ![l] = target]
  /\ trees' = trees \cup {tree'}
  /\ UNCHANGED walk

Step == SkipEmpty \/ Dots \/ Plain \/ Follow \/ Finish
Next == Step \/ Relink
Spec == Init /\ [][Next]_vars /\ WF_vars(Step)

-----------------------------------------------------------------------------
(* Properties *)

TypeOK ==
  /\ tree \in [Links -> Targets] /\ tree \in trees
  /\ path \in Paths
  /\ status \in Statuses
  /\ links \in 0 .. MaxLinks /\ Cardinality(met) <= links
  /\ met \subseteq Links

\* No link is left in what is found: the temporary file and the rename go to
\* the directory of the file itself, even if links changed in between.
NoLinkIsLeft ==
  status = "found" => \A n \in 1 .. Len(resolved) : SubSeq(resolved, 1, n) \notin Links

\* Every turn of the loop gets on, whatever links are replaced meanwhile: it
\* ends the walk, or uses up one of the links that may be followed, or has one
\* component less to walk.
WalkGetsOn ==
  [][/\ status = "walking" /\ links' <= MaxLinks
     /\ \/ status' # "walking"
        \/ links' > links
        \/ links' = links /\ Len(pending') < Len(pending)]_walk

\* Loops of links and links into themselves end the walk with an error.
WalkEnds == <>(status # "walking")

=============================================================================
