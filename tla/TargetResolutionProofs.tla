----------------------- MODULE TargetResolutionProofs -----------------------
(***************************************************************************)
(* The walk of TargetResolution, for every tree of directories, files and  *)
(* links, every path and every limit, while links are replaced: it counts  *)
(* the links it follows and never goes past the limit, and no link is left *)
(* in the path it finds.                                                   *)
(***************************************************************************)
EXTENDS TargetResolution, FiniteSetTheorems, SequenceTheorems, TLAPS

\* No link is on the way to a physical path.
LinkFree(at) == \A n \in 1 .. Len(at) : SubSeq(at, 1, n) \notin Links

\* The types of the walk, and what it has walked is free of links throughout.
WalkInv ==
  /\ TypeOK
  /\ resolved \in Seq(STRING) /\ pending \in Seq(STRING)
  /\ IsFiniteSet(met)
  /\ LinkFree(resolved)

-----------------------------------------------------------------------------
(* Paths *)

\* The root is no link, nor under one.
LEMMA RootIsFree == LinkFree(<<>>)
  BY DEF LinkFree

\* One directory up.
LEMMA FrontIsPath ==
  ASSUME NEW at \in Seq(STRING), at # <<>>
  PROVE  Front(at) \in Seq(STRING) /\ Len(Front(at)) = Len(at) - 1
<1>1. Len(at) \in Nat \ {0} /\ \A i \in 1 .. Len(at) : at[i] \in STRING
  BY EmptySeq, ElementOfSeq
<1> DEFINE n == Len(at) - 1
<1>2. 1 \in Int /\ n \in Int /\ n >= 0 /\ \A i \in 1 .. n : at[i] \in STRING
  BY <1>1
<1> HIDE DEF n
<1>3. /\ SubSeq(at, 1, n) \in Seq(STRING)
      /\ Len(SubSeq(at, 1, n)) = IF 1 <= n THEN n - 1 + 1 ELSE 0
  BY <1>2, SubSeqProperties
<1>4. Len(SubSeq(at, 1, n)) = n
  BY <1>2, <1>3
<1> QED BY <1>3, <1>4 DEF Front, n

\* What is free of links stays so one directory up.
LEMMA FrontIsFree ==
  ASSUME NEW at \in Seq(STRING), at # <<>>, LinkFree(at)
  PROVE  Front(at) \in Seq(STRING) /\ LinkFree(Front(at))
<1>1. Len(at) \in Nat \ {0} /\ \A i \in 1 .. Len(at) : at[i] \in STRING
  BY EmptySeq, ElementOfSeq
<1>2. /\ Front(at) \in Seq(STRING)
      /\ Len(Front(at)) = Len(at) - 1
  BY FrontIsPath
<1>3. ASSUME NEW n \in 1 .. Len(Front(at))
      PROVE  SubSeq(Front(at), 1, n) = SubSeq(at, 1, n)
  <2>1. Len(at) - 1 \in 1 .. Len(at) /\ n \in 1 .. Len(at) - 1
    BY <1>1, <1>2
  <2>2. SubSeq(SubSeq(at, 1, Len(at) - 1), 1, n) = SubSeq(at, 1 + 1 - 1, 1 + n - 1)
    BY <1>1, <2>1, SubSeqOfSubSeq
  <2> QED BY <2>1, <2>2 DEF Front
<1>4. 1 .. Len(Front(at)) \subseteq 1 .. Len(at)
  BY <1>1, <1>2
<1>5. LinkFree(Front(at))
  <2> SUFFICES ASSUME NEW n \in 1 .. Len(Front(at))
               PROVE  SubSeq(Front(at), 1, n) \notin Links
    BY DEF LinkFree
  <2>1. SubSeq(at, 1, n) \notin Links
    BY <1>4 DEF LinkFree
  <2> QED BY <1>3, <2>1
<1> QED BY <1>2, <1>5

\* What is free of links stays so with one more name that is no link.
LEMMA AppendIsFree ==
  ASSUME NEW at \in Seq(STRING), NEW name \in STRING, LinkFree(at),
         Append(at, name) \notin Links
  PROVE  Append(at, name) \in Seq(STRING) /\ LinkFree(Append(at, name))
<1> DEFINE longer == Append(at, name)
<1>1. /\ Len(at) \in Nat
      /\ longer \in Seq(STRING) /\ Len(longer) = Len(at) + 1
      /\ \A i \in 1 .. Len(at) : longer[i] = at[i] /\ at[i] \in STRING
  <2>1. Len(at) \in Nat /\ \A i \in 1 .. Len(at) : at[i] \in STRING
    BY LenProperties, ElementOfSeq
  <2>2. longer \in Seq(STRING) /\ Len(longer) = Len(at) + 1
    BY AppendProperties
  <2>3. ASSUME NEW i \in 1 .. Len(at) PROVE longer[i] = at[i]
    BY <2>1, AppendProperties
  <2> QED BY <2>1, <2>2, <2>3
<1>2. ASSUME NEW n \in 1 .. Len(longer)
      PROVE  SubSeq(longer, 1, n) \notin Links
  <2>1. CASE n = Len(longer)
    BY <1>1, <2>1, SubSeqFull
  <2>2. CASE n # Len(longer)
    <3>1. n \in 1 .. Len(at) /\ \A i \in 1 .. n : i \in 1 .. Len(at)
      BY <1>1, <2>2
    <3>2. SubSeq(longer, 1, n) = SubSeq(at, 1, n)
      <4> HIDE DEF longer
      <4>1. /\ \A i \in 1 .. n : longer[i] \in STRING /\ at[i] \in STRING
            /\ n \in Int /\ 1 \in Int /\ 1 <= n /\ n - 1 + 1 = n
        BY <1>1, <3>1
      <4>2. /\ SubSeq(longer, 1, n) \in Seq(STRING) /\ Len(SubSeq(longer, 1, n)) = n
            /\ \A i \in 1 .. n : SubSeq(longer, 1, n)[i] = longer[1 + i - 1]
        BY <4>1, SubSeqProperties
      <4>3. /\ SubSeq(at, 1, n) \in Seq(STRING) /\ Len(SubSeq(at, 1, n)) = n
            /\ \A i \in 1 .. n : SubSeq(at, 1, n)[i] = at[1 + i - 1]
        BY <4>1, SubSeqProperties
      <4>4. \A i \in 1 .. n : SubSeq(longer, 1, n)[i] = SubSeq(at, 1, n)[i]
        BY <1>1, <3>1, <4>2, <4>3
      <4> QED BY <4>2, <4>3, <4>4, SeqEqual
    <3> QED BY <1>1, <3>1, <3>2 DEF LinkFree
  <2> QED BY <2>1, <2>2
<1> QED BY <1>1, <1>2 DEF LinkFree

-----------------------------------------------------------------------------
(* The invariant *)

LEMMA InitWalk == Init => WalkInv
<1> SUFFICES ASSUME Init PROVE WalkInv
  OBVIOUS
<1>1. TypeOK
  BY FS_EmptySet, TreeAssumption DEF Init, TypeOK, Statuses
<1>2. resolved \in Seq(STRING) /\ pending \in Seq(STRING)
  BY TreeAssumption DEF Init
<1>3. IsFiniteSet(met) /\ LinkFree(resolved)
  BY FS_EmptySet, RootIsFree DEF Init
<1> QED BY <1>1, <1>2, <1>3 DEF WalkInv

\* Every step of the walk, whose parts differ in where they go on.
LEMMA FailWalk ==
  ASSUME WalkInv, NEW error \in Statuses, Fail(error)
  PROVE  WalkInv'
  BY DEF WalkInv, TypeOK, Fail, LinkFree

LEMMA WalkOn ==
  ASSUME WalkInv, NEW at \in Seq(STRING), NEW rest \in Seq(STRING), LinkFree(at),
         Walk(at, rest), UNCHANGED <<links, met>>
  PROVE  WalkInv'
  BY DEF WalkInv, TypeOK, Walk, LinkFree

\* In the walk there is a next component, a name.
LEMMA NextName ==
  ASSUME WalkInv, Walking
  PROVE  Component \in STRING /\ Tail(pending) \in Seq(STRING)
  BY HeadTailProperties DEF WalkInv, Walking, Component

LEMMA DotsWalk == ASSUME WalkInv, Dots PROVE WalkInv'
<1>1. Tail(pending) \in Seq(STRING)
  BY NextName DEF Dots
<1>2. Parent(resolved) \in Seq(STRING) /\ LinkFree(Parent(resolved))
  BY FrontIsFree DEF WalkInv, Parent
<1>3. CASE resolved \in Dirs
  BY <1>1, <1>2, <1>3, WalkOn DEF WalkInv, Dots
<1>4. CASE resolved \notin Dirs
  BY <1>4, FailWalk DEF Dots, Statuses
<1> QED BY <1>3, <1>4

LEMMA PlainWalk == ASSUME WalkInv, Plain PROVE WalkInv'
<1>1. Component \in STRING /\ Tail(pending) \in Seq(STRING)
  BY NextName DEF Plain, Named
<1>2. Candidate \in Seq(STRING) /\ LinkFree(Candidate)
  BY <1>1, AppendIsFree DEF WalkInv, Plain, IsLink, Candidate
<1>3. CASE resolved \in Files
  BY <1>3, FailWalk DEF Plain, Statuses
<1>4. CASE resolved \notin Files
  BY <1>1, <1>2, <1>4, WalkOn DEF Plain
<1> QED BY <1>3, <1>4

LEMMA FollowWalk == ASSUME WalkInv, Follow PROVE WalkInv'
<1>1. CASE Counted(links) > MaxLinks
  BY <1>1, FailWalk DEF Follow, Statuses
<1>2. CASE ~ Counted(links) > MaxLinks
  <2> DEFINE target == tree[Candidate]
  <2>1. /\ links' = links + 1 /\ met' = met \cup {Candidate}
        /\ Walk(StartOf(target, resolved), target.parts \o Tail(pending))
        /\ Candidate \in Links
    BY <1>2 DEF Follow, Counted, IsLink
  <2>2. links' \in 0 .. MaxLinks
    BY <1>2, <2>1, TreeAssumption DEF WalkInv, TypeOK, Counted
  <2>3. /\ IsFiniteSet(met') /\ met' \subseteq Links
        /\ Cardinality(met') <= Cardinality(met) + 1
    <3>1. Cardinality(met) \in Nat
      BY FS_CardinalityType DEF WalkInv
    <3>2. /\ IsFiniteSet(met \cup {Candidate})
          /\ Cardinality(met \cup {Candidate})
               = IF Candidate \in met THEN Cardinality(met) ELSE Cardinality(met) + 1
      BY FS_AddElement DEF WalkInv
    <3>3. Cardinality(met \cup {Candidate}) <= Cardinality(met) + 1
      BY <3>1, <3>2
    <3>4. met \cup {Candidate} \subseteq Links
      BY <2>1 DEF WalkInv, TypeOK
    <3> QED BY <2>1, <3>2, <3>3, <3>4
  <2>4. Cardinality(met') <= links'
    <3>1. Cardinality(met) \in Nat /\ Cardinality(met') \in Nat
      BY <2>3, FS_CardinalityType DEF WalkInv
    <3> QED BY <2>1, <2>3, <3>1 DEF WalkInv, TypeOK
  <2>5. target.parts \in Seq(STRING)
    BY <2>1, TreeAssumption DEF WalkInv, TypeOK
  <2>6. target.parts \o Tail(pending) \in Seq(STRING)
    BY <2>5, NextName, ConcatProperties DEF Follow, Named
  <2>7. /\ StartOf(target, resolved) \in Seq(STRING)
        /\ LinkFree(StartOf(target, resolved))
    BY RootIsFree, EmptySeq DEF WalkInv, StartOf
  <2>8. TypeOK'
    BY <2>1, <2>2, <2>3, <2>4 DEF WalkInv, TypeOK, Walk
  <2>9. (resolved \in Seq(STRING) /\ pending \in Seq(STRING) /\ LinkFree(resolved))'
    BY <2>1, <2>6, <2>7 DEF Walk, LinkFree
  <2> QED BY <2>3, <2>8, <2>9 DEF WalkInv
<1> QED BY <1>1, <1>2

LEMMA StepWalk == WalkInv /\ [Next]_vars => WalkInv'
<1> SUFFICES ASSUME WalkInv, [Next]_vars PROVE WalkInv'
  OBVIOUS
<1>1. CASE SkipEmpty
  <2>1. Tail(pending) \in Seq(STRING)
    BY <1>1, NextName DEF SkipEmpty
  <2> QED BY <1>1, <2>1, WalkOn DEF SkipEmpty, WalkInv
<1>2. CASE Dots
  BY <1>2, DotsWalk
<1>3. CASE Plain
  BY <1>3, PlainWalk
<1>4. CASE Follow
  BY <1>4, FollowWalk
<1>5. CASE Finish
  BY <1>5 DEF Finish, WalkInv, TypeOK, Statuses, LinkFree
<1>6. CASE Relink
  <2>1. PICK l \in Links, target \in Targets : tree' = [tree EXCEPT ![l] = target]
    BY <1>6 DEF Relink
  <2>2. tree' \in [Links -> Targets] /\ tree' \in trees'
    BY <1>6, <2>1 DEF Relink, WalkInv, TypeOK
  <2> QED BY <1>6, <2>2 DEF Relink, walk, WalkInv, TypeOK, LinkFree
<1>7. CASE UNCHANGED vars
  BY <1>7 DEF vars, walk, WalkInv, TypeOK, LinkFree
<1> QED BY <1>1, <1>2, <1>3, <1>4, <1>5, <1>6, <1>7 DEF Next, Step

-----------------------------------------------------------------------------
(* Theorems *)

\* The invariant holds throughout every walk.
THEOREM WalkCorrect == Spec => []WalkInv
  BY InitWalk, StepWalk, PTL DEF Spec

\* resolveTarget never follows more links than its limit, and counts each.
THEOREM LinksAreCounted == Spec => []TypeOK
<1>1. WalkInv => TypeOK
  BY DEF WalkInv
<1> QED BY <1>1, WalkCorrect, PTL

\* What resolveTarget returns leads through no link, whatever links there are
\* and however they change during the walk: the lock, the temporary file and
\* the rename are in the directory of the file itself.
THEOREM NoLinkIsEverLeft == Spec => []NoLinkIsLeft
<1>1. WalkInv => NoLinkIsLeft
  BY DEF WalkInv, NoLinkIsLeft, LinkFree
<1> QED BY <1>1, WalkCorrect, PTL

\* Who walks has one component less to go, if nothing is put before the rest.
LEMMA RestIsShorter ==
  ASSUME WalkInv, Walking
  PROVE  Len(Tail(pending)) < Len(pending)
<1>1. pending \in Seq(STRING) /\ pending # <<>>
  BY DEF WalkInv, Walking
<1>2. Len(pending) \in Nat \ {0} /\ Len(Tail(pending)) = Len(pending) - 1
  BY <1>1, EmptySeq, HeadTailProperties
<1> QED BY <1>2

\* resolveTarget takes no turn that leaves it where it was: what bounds the
\* turns between two links is the path, and what bounds the links is their
\* limit.
THEOREM WalksGetOn == Spec => WalkGetsOn
<1> DEFINE GetsOn == /\ status = "walking" /\ links' <= MaxLinks
                     /\ \/ status' # "walking"
                        \/ links' > links
                        \/ links' = links /\ Len(pending') < Len(pending)
<1>1. WalkInv /\ [Next]_vars => [GetsOn]_walk
  <2> SUFFICES ASSUME WalkInv, [Next]_vars, walk' # walk PROVE GetsOn
    OBVIOUS
  <2>1. /\ links \in Nat /\ links' \in Nat
        /\ links' <= MaxLinks /\ MaxLinks \in Nat
    BY StepWalk, TreeAssumption DEF WalkInv, TypeOK
  <2>2. ASSUME NEW at, Walking, Walk(at, Tail(pending)), links' = links
        PROVE  GetsOn
    BY <2>1, <2>2, RestIsShorter DEF Walk, Walking
  <2>3. ASSUME NEW error \in Statuses \ {"walking"}, status = "walking", Fail(error)
        PROVE  GetsOn
    BY <2>1, <2>3 DEF Fail
  <2>4. CASE SkipEmpty
    BY <2>2, <2>4 DEF SkipEmpty
  <2>5. CASE Dots
    BY <2>2, <2>3, <2>5 DEF Dots, Statuses, Walking
  <2>6. CASE Plain
    BY <2>2, <2>3, <2>6 DEF Plain, Statuses, Named, Walking
  <2>7. CASE Follow
    <3>1. CASE Counted(links) > MaxLinks
      BY <2>3, <2>7, <3>1 DEF Follow, Statuses, Named, Walking
    <3>2. CASE ~ Counted(links) > MaxLinks
      <4>1. links' = links + 1 /\ status = "walking"
        BY <2>7, <3>2 DEF Follow, Counted, Named, Walking
      <4> QED BY <2>1, <4>1
    <3> QED BY <3>1, <3>2
  <2>8. CASE Finish
    BY <2>1, <2>8 DEF Finish
  <2>9. CASE Relink \/ UNCHANGED vars
    BY <2>9 DEF Relink, vars
  <2> QED BY <2>4, <2>5, <2>6, <2>7, <2>8, <2>9 DEF Next, Step
<1> QED BY <1>1, WalkCorrect, PTL DEF Spec, WalkGetsOn
=============================================================================
