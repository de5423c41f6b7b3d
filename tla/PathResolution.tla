--------------------------- MODULE PathResolution ---------------------------
(***************************************************************************)
(* Where a path leads, as path_resolution(7) has it: a link is resolved as *)
(* a path of its own, what follows it goes on from there, and every name   *)
(* is looked up in a directory.  Nothing here is taken from resolveTarget; *)
(* the walk of TargetResolution is compared with it.                       *)
(***************************************************************************)
EXTENDS TargetResolution

\* Where a resolution is or stopped, and how many links it may still follow.
Found(at, left) == [status |-> "found", at |-> at, left |-> left]
Bad(error, s)   == [s EXCEPT !.status = error]

\* What the name c leads to in the directory where s is.  A link leads where its
\* target does: via[n] says that of a path from a directory, with n links left.
LookUp(held, via, s, c) ==
  LET entry == Append(s.at, c)
      start == IF held[entry].absolute THEN <<>> ELSE s.at
  IN
  CASE c \in {"", "."} -> s
    [] c = ".." -> Found(IF s.at = <<>> THEN <<>> ELSE Front(s.at), s.left)
    [] c \notin {"", ".", ".."} /\ entry \notin Links -> Found(entry, s.left)
    [] OTHER -> IF s.left = 0 THEN Bad("TooManyLinks", s)
                ELSE via[s.left - 1][<<start, held[entry].parts>>]

\* One name on.  Whatever is looked up, the empty name after a last slash too, is
\* looked up in a directory that is there.  So only the last name may be missing.
Onwards(held, via, s, c) ==
  CASE s.status # "found" -> s
    [] s.status = "found" /\ s.at \in Dirs -> LookUp(held, via, s, c)
    [] OTHER -> Bad(IF s.at \in Files THEN "NotADirectory" ELSE "NoEntry", s)

\* One name after the other.
Along(held, via, s, parts) ==
  LET after[i \in 0 .. Len(parts)] ==
        IF i = 0 THEN s ELSE Onwards(held, via, after[i - 1], parts[i])
  IN  after[Len(parts)]

\* Any path from any directory, with any number of links left.
LeadsTo(held) ==
  LET via[left \in 0 .. MaxLinks] ==
        [from \in Seq(STRING) \X Seq(STRING) |->
           Along(held, via, Found(from[1], left), from[2])]
  IN  via

Destination(held) == LeadsTo(held)[MaxLinks][<<<<>>, path>>]

\* Where the walk may end though the path leads nowhere: at a file with a slash
\* after it, or below a directory that is missing.
AfterFile(there) ==
  there.status = "NotADirectory" /\ resolved = there.at /\ resolved \in Files
BelowMissing(there) ==
  /\ there.status = "NoEntry" /\ IsPrefix(there.at, resolved)
  /\ resolved \notin Dirs \cup Files

\* What the walk says of one tree.
Agrees(held) ==
  LET there == Destination(held) IN
  /\ status # "found" => status = there.status
  /\ status = "found" =>
       /\ links = MaxLinks - there.left
       /\ \/ there.status = "found" /\ resolved = there.at
          \/ AfterFile(there)
          \/ BelowMissing(there)

-----------------------------------------------------------------------------
(* Properties *)

\* With the tree at rest, the walk fails only as the kernel does, and finds what
\* the kernel finds, or would create, with as many links.  So two paths to one
\* file get one lock, whatever links and dots they go through.  It is laxer than
\* the kernel in two cases: it drops a slash after a file, where the kernel has
\* ENOTDIR, and goes on below the first missing directory, where the kernel has
\* ENOENT: saveDocument creates the directories.  The walk then ends at that very
\* file, or below that very directory where nothing is.
LeadsToTheFile ==
  status # "walking" /\ trees = {tree} => Agrees(tree)

\* A link that is replaced during the walk is seen as it was or as it is, so
\* the walk, as a whole, happens at one moment; except if it met a link twice.
\* This is what lets DocumentStore resolve a path in one step.
WalkIsOneLook ==
  \/ status = "walking"
  \/ Cardinality(trees) > 2
  \/ links # Cardinality(met)
  \/ \E held \in trees : Agrees(held)

=============================================================================
