------------------------ MODULE PathResolutionProofs ------------------------
(***************************************************************************)
(* The walk of TargetResolution leads where the path does, for every tree, *)
(* path and limit: in the tree there is if nobody replaces a link          *)
(* meanwhile, and in the tree of one moment if somebody does.  Where the   *)
(* path leads nowhere it fails as the kernel does, or strays: it ends at a *)
(* file with a slash after it, or below a directory that is missing.       *)
(***************************************************************************)
EXTENDS PathResolution, TargetResolutionProofs, WellFoundedInduction

Tree  == [Links -> Targets]
Names == Seq(STRING)
From  == Names \X Names

-----------------------------------------------------------------------------
(* Induction                                                                 *)

\* A set of numbers that is not empty has a least element.
LEMMA LeastElement ==
  ASSUME NEW T \in SUBSET Nat, T # {}
  PROVE  \E n \in T : \A m \in T : n <= m
<1>1. PICK n \in T : \A m \in T : ~ (<<m, n>> \in OpToRel(<, Nat))
  BY WFMin, NatLessThanWellFounded, Zenon
<1>2. ASSUME NEW m \in T, m < n PROVE FALSE
  <2>1. <<m, n>> \in OpToRel(<, Nat)
    BY <1>2 DEF OpToRel
  <2> QED BY <1>1, <2>1
<1>3. \A m \in T : m \in Nat /\ n \in Nat /\ ~ (m < n)
  BY <1>2
<1>4. \A m \in T : n <= m
  BY <1>3
<1> QED BY <1>4

\* A set that has 0, and with each number the next, has all.
LEMMA NextByNext ==
  ASSUME NEW S, 0 \in S, \A n \in Nat : n \in S => n + 1 \in S
  PROVE  \A n \in Nat : n \in S
<1> SUFFICES ASSUME Nat \ S # {} PROVE FALSE
  OBVIOUS
<1>1. PICK n \in Nat \ S : \A m \in Nat \ S : n <= m
  BY LeastElement
<1>2. n # 0 /\ n - 1 \in Nat
  BY <1>1
<1>3. n - 1 \in S
  BY <1>1, <1>2
<1> QED BY <1>1, <1>2, <1>3

-----------------------------------------------------------------------------
(* Along                                                                     *)

\* f goes along the first k of some names.
Goes(f, held, via, s, parts, k) ==
  f = [i \in 0 .. k |-> IF i = 0 THEN s ELSE Onwards(held, via, f[i - 1], parts[i])]

\* There is one way to go along, which is Along.
LEMMA OneWay ==
  ASSUME NEW held, NEW via, NEW s, NEW parts, NEW k \in Nat, NEW f, NEW g,
         Goes(f, held, via, s, parts, k), Goes(g, held, via, s, parts, k)
  PROVE  \A i \in 0 .. k : f[i] = g[i]
<1> DEFINE S == {i \in Nat : i <= k => f[i] = g[i]}
<1>1. /\ f[0] = s /\ g[0] = s
      /\ \A i \in Nat : i + 1 <= k =>
           /\ f[i + 1] = Onwards(held, via, f[i], parts[i + 1])
           /\ g[i + 1] = Onwards(held, via, g[i], parts[i + 1])
  <2>1. \A i \in 0 .. k :
          /\ f[i] = IF i = 0 THEN s ELSE Onwards(held, via, f[i - 1], parts[i])
          /\ g[i] = IF i = 0 THEN s ELSE Onwards(held, via, g[i - 1], parts[i])
    BY DEF Goes
  <2> QED BY <2>1
<1>2. 0 \in S
  BY <1>1
<1>3. \A i \in Nat : i \in S => i + 1 \in S
  BY <1>1
<1>4. \A i \in Nat : i \in S
  <2> HIDE DEF S
  <2> QED BY <1>2, <1>3, NextByNext
<1> QED BY <1>4

LEMMA Ways ==
  ASSUME NEW held, NEW via, NEW s, NEW parts \in Names
  PROVE  \A k \in Nat : \E f : Goes(f, held, via, s, parts, k)
<1> DEFINE Some(k) == \E f : Goes(f, held, via, s, parts, k)
           S == {k \in Nat : Some(k)}
<1>1. Some(0)
  <2>1. Goes([i \in 0 .. 0 |-> s], held, via, s, parts, 0)
    BY DEF Goes
  <2> QED BY <2>1
<1>2. ASSUME NEW k \in Nat, Some(k) PROVE Some(k + 1)
  <2>1. PICK f : Goes(f, held, via, s, parts, k)
    BY <1>2
  <2> DEFINE g == [i \in 0 .. k + 1 |-> IF i <= k THEN f[i]
                                       ELSE Onwards(held, via, f[k], parts[k + 1])]
  <2>2. \A i \in 0 .. k :
          f[i] = IF i = 0 THEN s ELSE Onwards(held, via, f[i - 1], parts[i])
    BY <2>1 DEF Goes
  <2>3. \A i \in 0 .. k + 1 :
          g[i] = IF i = 0 THEN s ELSE Onwards(held, via, g[i - 1], parts[i])
    <3> SUFFICES ASSUME NEW i \in 0 .. k + 1
                 PROVE  g[i] = IF i = 0 THEN s ELSE Onwards(held, via, g[i - 1], parts[i])
      OBVIOUS
    <3>1. CASE i <= k
      BY <2>2, <3>1
    <3>2. CASE i = k + 1
      BY <3>2
    <3> QED BY <3>1, <3>2
  <2>4. g = [i \in 0 .. k + 1 |-> g[i]]
    OBVIOUS
  <2>5. Goes(g, held, via, s, parts, k + 1)
    <3> HIDE DEF g
    <3> QED BY <2>3, <2>4 DEF Goes
  <2> QED BY <2>5
<1>3. 0 \in S
  BY <1>1
<1>4. \A k \in Nat : k \in S => k + 1 \in S
  <2> HIDE DEF Some
  <2> QED BY <1>2
<1>5. \A k \in Nat : k \in S
  <2> HIDE DEF S
  <2> QED BY <1>3, <1>4, NextByNext
<1> QED BY <1>5

LEMMA AlongIsTheWay ==
  ASSUME NEW held, NEW via, NEW s, NEW parts \in Names, NEW f,
         Goes(f, held, via, s, parts, Len(parts))
  PROVE  Along(held, via, s, parts) = f[Len(parts)]
<1> DEFINE n == Len(parts)
           g == CHOOSE g : Goes(g, held, via, s, parts, n)
<1>1. n \in Nat
  BY LenProperties
<1>2. Goes(g, held, via, s, parts, n)
  BY <1>1, Ways
<1>3. Along(held, via, s, parts) = g[n]
  BY DEF Along, Goes
<1> HIDE DEF g
<1>4. g[n] = f[n]
  BY <1>1, <1>2, OneWay
<1> QED BY <1>3, <1>4

LEMMA AlongNothing ==
  ASSUME NEW held, NEW via, NEW s
  PROVE  Along(held, via, s, <<>>) = s
<1> DEFINE f == [i \in 0 .. 0 |-> s]
<1>1. Goes(f, held, via, s, <<>>, 0)
  BY DEF Goes
<1>2. <<>> \in Names /\ Len(<<>>) = 0 /\ f[0] = s
  BY EmptySeq DEF Names
<1> HIDE DEF f
<1> QED BY <1>1, <1>2, AlongIsTheWay

\* Along one path and then another.
LEMMA AlongBoth ==
  ASSUME NEW held, NEW via, NEW s, NEW p \in Names, NEW q \in Names
  PROVE  Along(held, via, s, p \o q) = Along(held, via, Along(held, via, s, p), q)
<1> DEFINE m == Len(p)
           n == Len(q)
           t == Along(held, via, s, p)
<1>1. /\ m \in Nat /\ n \in Nat
      /\ p \o q \in Names /\ Len(p \o q) = m + n
      /\ \A i \in 1 .. m + n : (p \o q)[i] = IF i <= m THEN p[i] ELSE q[i - m]
  <2>1. m \in Nat /\ n \in Nat
    BY LenProperties DEF Names
  <2> QED BY <2>1, ConcatProperties DEF Names
<1>2. PICK f : Goes(f, held, via, s, p, m)
  BY <1>1, Ways
<1>3. t = f[m]
  BY <1>2, AlongIsTheWay
<1>4. PICK g : Goes(g, held, via, t, q, n)
  BY <1>1, Ways
<1>5. Along(held, via, t, q) = g[n]
  BY <1>4, AlongIsTheWay
<1> HIDE DEF m, n, t
<1> DEFINE h == [i \in 0 .. m + n |-> IF i <= m THEN f[i] ELSE g[i - m]]
<1>6. /\ \A i \in 0 .. m : f[i] = IF i = 0 THEN s ELSE Onwards(held, via, f[i - 1], p[i])
      /\ \A i \in 0 .. n : g[i] = IF i = 0 THEN t ELSE Onwards(held, via, g[i - 1], q[i])
  BY <1>2, <1>4 DEF Goes
<1>7. g[0] = f[m]
  BY <1>1, <1>3, <1>6
<1>8. ASSUME NEW i \in 0 .. m + n
      PROVE  h[i] = IF i = 0 THEN s ELSE Onwards(held, via, h[i - 1], (p \o q)[i])
  <2>1. CASE i <= m
    BY <1>1, <1>6, <2>1
  <2>2. CASE i = m + 1
    <3> i - m = 1 /\ i - 1 = m /\ ~ i <= m /\ m \in 0 .. m + n /\ i \in 1 .. m + n
      BY <1>1, <2>2
    <3>1. h[i] = g[1] /\ h[i - 1] = f[m] /\ (p \o q)[i] = q[1]
      <4>1. h[i] = g[1]
        OBVIOUS
      <4>2. h[m] = f[m]
        BY <1>1
      <4>3. (p \o q)[i] = q[1]
        BY <1>1
      <4> QED BY <4>1, <4>2, <4>3
    <3>2. g[1] = Onwards(held, via, g[0], q[1])
      BY <1>1, <1>6, <2>2
    <3> HIDE DEF h
    <3> QED BY <1>1, <1>7, <2>2, <3>1, <3>2
  <2>3. CASE i > m + 1
    <3>1. h[i] = g[i - m] /\ h[i - 1] = g[i - m - 1] /\ (p \o q)[i] = q[i - m]
      BY <1>1, <2>3
    <3>2. g[i - m] = Onwards(held, via, g[i - m - 1], q[i - m])
      BY <1>1, <1>6, <2>3
    <3> HIDE DEF h
    <3> QED BY <1>1, <2>3, <3>1, <3>2
  <2> QED BY <1>1, <2>1, <2>2, <2>3
<1>9. h = [i \in 0 .. m + n |-> h[i]]
  OBVIOUS
<1>10. h[m + n] = g[n]
  BY <1>1, <1>7
<1> HIDE DEF h
<1>11. Goes(h, held, via, s, p \o q, Len(p \o q))
  BY <1>1, <1>8, <1>9 DEF Goes
<1> DEFINE r == p \o q
<1>12. Along(held, via, s, p \o q) = h[Len(p \o q)]
  <2>1. r \in Names /\ Goes(h, held, via, s, r, Len(r))
    BY <1>1, <1>11
  <2> HIDE DEF r
  <2>2. Along(held, via, s, r) = h[Len(r)]
    BY <2>1, AlongIsTheWay, Zenon
  <2> QED BY <2>2 DEF r
<1> QED BY <1>1, <1>5, <1>10, <1>12 DEF t

LEMMA OneElement ==
  ASSUME NEW S, NEW c \in S
  PROVE  <<c>> \in Seq(S) /\ Len(<<c>>) = 1 /\ <<c>>[1] = c
OBVIOUS

\* Along a path by its first name.
LEMMA AlongOne ==
  ASSUME NEW held, NEW via, NEW s, NEW parts \in Names, parts # <<>>
  PROVE  Along(held, via, s, parts)
           = Along(held, via, Onwards(held, via, s, Head(parts)), Tail(parts))
<1>1. ASSUME NEW c \in STRING
      PROVE  <<c>> \in Names /\ Along(held, via, s, <<c>>) = Onwards(held, via, s, c)
  <2> DEFINE f == [i \in 0 .. 1 |-> IF i = 0 THEN s ELSE Onwards(held, via, s, c)]
             one == <<c>>
  <2>1. one \in Names /\ Len(one) = 1 /\ one[1] = c
    BY OneElement DEF Names
  <2> HIDE DEF one
  <2>3. \A i \in 0 .. 1 :
          f[i] = IF i = 0 THEN s ELSE Onwards(held, via, f[i - 1], one[i])
    <3> SUFFICES ASSUME NEW i \in 0 .. 1
                 PROVE  f[i] = IF i = 0 THEN s ELSE Onwards(held, via, f[i - 1], one[i])
      OBVIOUS
    <3>1. CASE i = 0
      BY <3>1
    <3>2. CASE i = 1
      <4>1. i # 0 /\ i - 1 = 0
        BY <3>2
      <4>4. one[i] = c
        BY <2>1, <3>2
      <4>2. f[0] = s
        OBVIOUS
      <4>3. f[i - 1] = s /\ f[i] = Onwards(held, via, s, c)
        BY <4>1, <4>2
      <4> HIDE DEF f
      <4> QED BY <4>1, <4>3, <4>4
    <3> QED BY <3>1, <3>2
  <2>4. f = [i \in 0 .. 1 |-> f[i]] /\ f[1] = Onwards(held, via, s, c)
    OBVIOUS
  <2> HIDE DEF f
  <2>5. Goes(f, held, via, s, one, 1)
    BY <2>3, <2>4 DEF Goes
  <2>6. Goes(f, held, via, s, one, Len(one))
    BY <2>1, <2>5
  <2>7. Along(held, via, s, one) = f[Len(one)]
    BY <2>1, <2>6, AlongIsTheWay, Zenon
  <2> QED BY <2>1, <2>4, <2>7 DEF one
<1> DEFINE c == Head(parts)
           rest == Tail(parts)
<1>2. c \in STRING /\ rest \in Names /\ parts = <<c>> \o rest
  BY HeadTailProperties DEF Names
<1> HIDE DEF c, rest
<1> DEFINE one == <<c>>
<1>3. one \in Names /\ Along(held, via, s, one) = Onwards(held, via, s, c)
  BY <1>1, <1>2
<1> HIDE DEF one
<1>4. Along(held, via, s, one \o rest) = Along(held, via, Along(held, via, s, one), rest)
  <2>1. \A p \in Names, q \in Names :
          Along(held, via, s, p \o q) = Along(held, via, Along(held, via, s, p), q)
    BY AlongBoth
  <2>2. one \in Names /\ rest \in Names
    BY <1>2, <1>3
  <2> QED BY <2>1, <2>2
<1> QED BY <1>2, <1>3, <1>4 DEF c, rest, one

\* An error ends the way.
LEMMA AlongNoMore ==
  ASSUME NEW held, NEW via, NEW s, s.status # "found", NEW parts \in Names
  PROVE  Along(held, via, s, parts) = s
<1> DEFINE n == Len(parts)
           f == [i \in 0 .. n |-> s]
<1>1. n \in Nat
  BY LenProperties DEF Names
<1>2. \A c : Onwards(held, via, s, c) = s
  BY DEF Onwards
<1>3. \A i \in 0 .. n :
        f[i] = IF i = 0 THEN s ELSE Onwards(held, via, f[i - 1], parts[i])
  BY <1>1, <1>2
<1>4. f = [i \in 0 .. n |-> f[i]] /\ f[n] = s
  BY <1>1
<1> HIDE DEF f
<1>5. Goes(f, held, via, s, parts, n)
  BY <1>3, <1>4 DEF Goes
<1> QED BY <1>4, <1>5, AlongIsTheWay

-----------------------------------------------------------------------------
(* Prefixes                                                                  *)

LEMMA PrefixOfItself ==
  ASSUME NEW at \in Seq(STRING)
  PROVE  IsPrefix(at, at)
<1>1. Len(at) \in Nat
  BY LenProperties
<1> QED BY <1>1 DEF IsPrefix

\* The start of a path with one more name.
LEMMA StartOfLonger ==
  ASSUME NEW at \in Seq(STRING), NEW name \in STRING, NEW n \in 0 .. Len(at)
  PROVE  SubSeq(Append(at, name), 1, n) = SubSeq(at, 1, n)
<1> DEFINE longer == Append(at, name)
<1>1. /\ Len(at) \in Nat
      /\ \A i \in 1 .. Len(at) : longer[i] = at[i] /\ at[i] \in STRING
  BY LenProperties, ElementOfSeq, AppendProperties
<1>2. /\ n \in Int /\ 1 \in Int /\ (IF 1 <= n THEN n - 1 + 1 ELSE 0) = n
      /\ n - 1 + 1 = n /\ \A i \in 1 .. n : i \in 1 .. Len(at) /\ 1 + i - 1 = i
  BY <1>1
<1> HIDE DEF longer
<1>3. \A i \in 1 .. n : longer[i] \in STRING /\ at[i] \in STRING
  BY <1>1, <1>2
<1>4. /\ SubSeq(longer, 1, n) \in Seq(STRING) /\ Len(SubSeq(longer, 1, n)) = n
      /\ \A i \in 1 .. n : SubSeq(longer, 1, n)[i] = longer[1 + i - 1]
  BY <1>2, <1>3, SubSeqProperties
<1>5. /\ SubSeq(at, 1, n) \in Seq(STRING) /\ Len(SubSeq(at, 1, n)) = n
      /\ \A i \in 1 .. n : SubSeq(at, 1, n)[i] = at[1 + i - 1]
  BY <1>2, <1>3, SubSeqProperties
<1>6. \A i \in 1 .. n : SubSeq(longer, 1, n)[i] = SubSeq(at, 1, n)[i]
  BY <1>1, <1>2, <1>4, <1>5
<1>7. SubSeq(longer, 1, n) = SubSeq(at, 1, n)
  BY <1>4, <1>5, <1>6, SeqEqual
<1> QED BY <1>7 DEF longer

LEMMA FrontOfLonger ==
  ASSUME NEW at \in Seq(STRING), NEW name \in STRING
  PROVE  Append(at, name) # <<>> /\ Front(Append(at, name)) = at
<1> DEFINE longer == Append(at, name)
<1>1. Len(at) \in Nat /\ Len(at) \in 0 .. Len(at)
  BY LenProperties
<1>2. Len(longer) = Len(at) + 1
  BY AppendProperties
<1>3. SubSeq(longer, 1, Len(at)) = at
  BY <1>1, StartOfLonger, SubSeqFull
<1> HIDE DEF longer
<1>4. longer # <<>>
  <2> SUFFICES ASSUME longer = <<>> PROVE FALSE
    OBVIOUS
  <2>1. Len(longer) = 0
    BY EmptySeq
  <2> QED BY <1>1, <1>2, <2>1
<1>5. Len(longer) - 1 = Len(at)
  BY <1>1, <1>2
<1>6. Front(longer) = at
  BY <1>3, <1>5 DEF Front
<1> QED BY <1>4, <1>6 DEF longer

LEMMA PrefixOfLonger ==
  ASSUME NEW top \in Seq(STRING), NEW at \in Seq(STRING), NEW name \in STRING,
         IsPrefix(top, at)
  PROVE  IsPrefix(top, Append(at, name))
<1>1. Len(top) \in Nat /\ Len(at) \in Nat /\ Len(top) <= Len(at)
  BY LenProperties DEF IsPrefix
<1>2. Len(Append(at, name)) = Len(at) + 1 /\ Len(top) <= Len(at) + 1
  BY <1>1, AppendProperties
<1>3. Len(top) \in 0 .. Len(at)
  BY <1>1
<1>4. SubSeq(Append(at, name), 1, Len(top)) = SubSeq(at, 1, Len(top))
  BY <1>3, StartOfLonger
<1> QED BY <1>2, <1>4 DEF IsPrefix

-----------------------------------------------------------------------------
(* Links                                                                     *)

Resolutions == [status : Statuses, at : Names, left : Nat]

\* What via says of fewer than n links is where they lead, with as many left.
Tells(via, n) ==
  \A m \in Nat : m < n =>
    \A from \in From : via[m][from] \in Resolutions /\ via[m][from].left <= m

\* via and other say the same of fewer than n links.
Alike(via, other, n) ==
  \A m \in Nat : m < n => \A from \in From : other[m][from] = via[m][from]

LEMMA OnwardsTells ==
  ASSUME NEW held \in Tree, NEW n \in Nat, NEW via, Tells(via, n),
         NEW s \in Resolutions, s.left <= n, NEW c \in STRING
  PROVE  /\ Onwards(held, via, s, c) \in Resolutions
         /\ Onwards(held, via, s, c).left <= n
         /\ \A other : Alike(via, other, n)
              => Onwards(held, other, s, c) = Onwards(held, via, s, c)
<1> DEFINE entry == Append(s.at, c)
           start == IF held[entry].absolute THEN <<>> ELSE s.at
           from  == <<start, held[entry].parts>>
<1>1. /\ s.status \in Statuses /\ s.at \in Names /\ s.left \in Nat
      /\ s = [status |-> s.status, at |-> s.at, left |-> s.left]
  BY DEF Resolutions
<1>2. entry \in Names
  BY <1>1, AppendProperties DEF Names
<1>3. s.at # <<>> => Front(s.at) \in Names
  BY <1>1, FrontIsPath DEF Names
<1>4. <<>> \in Names
  BY EmptySeq DEF Names
<1>5. \A at \in Names, left \in Nat : Found(at, left) \in Resolutions /\ Found(at, left).left = left
  BY DEF Found, Resolutions, Statuses
<1>6. \A error \in Statuses : Bad(error, s) \in Resolutions /\ Bad(error, s).left = s.left
  BY <1>1 DEF Bad, Resolutions
<1>7. entry \in Links => from \in From
  <2> SUFFICES ASSUME entry \in Links PROVE from \in From
    OBVIOUS
  <2>1. held[entry] \in Targets
    BY DEF Tree
  <2>2. held[entry].parts \in Names
    BY <2>1, TreeAssumption DEF Names
  <2> QED BY <1>1, <1>4, <2>2 DEF From
<1> HIDE DEF entry, from
<1> DEFINE made(v) == Onwards(held, v, s, c)
<1>8. \/ \A v : made(v) = s
      \/ \A v : made(v) = Bad("NotADirectory", s)
      \/ \A v : made(v) = Bad("NoEntry", s)
      \/ \A v : made(v) = Bad("TooManyLinks", s)
      \/ \A v : made(v) = Found(<<>>, s.left)
      \/ s.at # <<>> /\ \A v : made(v) = Found(Front(s.at), s.left)
      \/ \A v : made(v) = Found(entry, s.left)
      \/ entry \in Links /\ s.left # 0 /\ \A v : made(v) = v[s.left - 1][from]
  <2>1. CASE s.status # "found"
    BY <2>1 DEF Onwards
  <2>2. CASE s.status = "found" /\ s.at \notin Dirs
    BY <2>2 DEF Onwards
  <2>3. CASE s.status = "found" /\ s.at \in Dirs
    <3>1. \A v : made(v) = LookUp(held, v, s, c)
      BY <2>3 DEF Onwards
    <3> HIDE DEF made
    <3> QED BY <3>1 DEF LookUp, entry, from
  <2> QED BY <2>1, <2>2, <2>3
<1> HIDE DEF made
<1>9. CASE entry \in Links /\ s.left # 0 /\ \A v : made(v) = v[s.left - 1][from]
  <2>1. s.left - 1 \in Nat /\ s.left - 1 < n
    BY <1>1, <1>9
  <2>2. /\ via[s.left - 1][from] \in Resolutions
        /\ via[s.left - 1][from].left <= s.left - 1
    BY <1>7, <1>9, <2>1 DEF Tells
  <2>3. via[s.left - 1][from].left \in Nat
    BY <2>2 DEF Resolutions
  <2>4. made(via) \in Resolutions /\ made(via).left <= n
    BY <1>1, <1>9, <2>1, <2>2, <2>3
  <2>5. \A other : Alike(via, other, n) => made(other) = made(via)
    BY <1>7, <1>9, <2>1 DEF Alike
  <2> QED BY <2>4, <2>5 DEF made
<1>10. CASE \/ \A v : made(v) = s
            \/ \A v : made(v) = Bad("NotADirectory", s)
            \/ \A v : made(v) = Bad("NoEntry", s)
            \/ \A v : made(v) = Bad("TooManyLinks", s)
            \/ \A v : made(v) = Found(<<>>, s.left)
            \/ s.at # <<>> /\ \A v : made(v) = Found(Front(s.at), s.left)
            \/ \A v : made(v) = Found(entry, s.left)
  <2>1. \A v : made(v) = made(via)
    BY <1>10
  <2>2. {"NotADirectory", "NoEntry", "TooManyLinks"} \subseteq Statuses
    BY DEF Statuses
  <2>3. made(via) \in Resolutions /\ made(via).left <= n
    BY <1>1, <1>2, <1>3, <1>4, <1>5, <1>6, <1>10, <2>2
  <2> QED BY <2>1, <2>3 DEF made
<1> QED BY <1>8, <1>9, <1>10

LEMMA AlongTells ==
  ASSUME NEW held \in Tree, NEW n \in Nat, NEW via, Tells(via, n),
         NEW s \in Resolutions, s.left <= n, NEW parts \in Names
  PROVE  /\ Along(held, via, s, parts) \in Resolutions
         /\ Along(held, via, s, parts).left <= n
         /\ \A other : Alike(via, other, n)
              => Along(held, other, s, parts) = Along(held, via, s, parts)
<1> DEFINE k == Len(parts)
<1>1. k \in Nat /\ \A i \in 1 .. k : parts[i] \in STRING
  BY LenProperties, ElementOfSeq DEF Names
<1>2. PICK f : Goes(f, held, via, s, parts, k)
  BY <1>1, Ways
<1>3. Along(held, via, s, parts) = f[k]
  BY <1>2, AlongIsTheWay
<1> HIDE DEF k
<1>4. f[0] = s /\ \A i \in Nat : i + 1 <= k => f[i + 1] = Onwards(held, via, f[i], parts[i + 1])
  <2>1. \A i \in 0 .. k :
          f[i] = IF i = 0 THEN s ELSE Onwards(held, via, f[i - 1], parts[i])
    BY <1>2 DEF Goes
  <2> QED BY <1>1, <2>1
<1> DEFINE Good(i) == i <= k => f[i] \in Resolutions /\ f[i].left <= n
           S == {i \in Nat : Good(i)}
<1>5. Good(0)
  BY <1>4
<1>6. ASSUME NEW i \in Nat, Good(i) PROVE Good(i + 1)
  <2> SUFFICES ASSUME i + 1 <= k
               PROVE  f[i + 1] \in Resolutions /\ f[i + 1].left <= n
    OBVIOUS
  <2>1. f[i] \in Resolutions /\ f[i].left <= n /\ parts[i + 1] \in STRING
    BY <1>1, <1>6
  <2>2. Onwards(held, via, f[i], parts[i + 1]) \in Resolutions
        /\ Onwards(held, via, f[i], parts[i + 1]).left <= n
    BY <2>1, OnwardsTells
  <2> QED BY <1>4, <2>2
<1>7. 0 \in S /\ \A i \in Nat : i \in S => i + 1 \in S
  <2> HIDE DEF Good
  <2> QED BY <1>5, <1>6
<1>8. \A i \in Nat : i \in S
  <2> HIDE DEF S
  <2> QED BY <1>7, NextByNext
<1>9. \A i \in 0 .. k : f[i] \in Resolutions /\ f[i].left <= n
  BY <1>1, <1>8
<1>10. ASSUME NEW other, Alike(via, other, n)
       PROVE  Along(held, other, s, parts) = f[k]
  <2>1. ASSUME NEW i \in Nat, i + 1 <= k
        PROVE  Onwards(held, other, f[i], parts[i + 1]) = f[i + 1]
    <3>1. f[i] \in Resolutions /\ f[i].left <= n /\ parts[i + 1] \in STRING
      BY <1>1, <1>9, <2>1
    <3>2. Onwards(held, other, f[i], parts[i + 1]) = Onwards(held, via, f[i], parts[i + 1])
      <4> DEFINE t == f[i]
                 c == parts[i + 1]
      <4>1. t \in Resolutions /\ t.left <= n /\ c \in STRING
        BY <3>1
      <4> HIDE DEF t, c
      <4>2. \A o : Alike(via, o, n) => Onwards(held, o, t, c) = Onwards(held, via, t, c)
        BY <4>1, OnwardsTells
      <4>3. Onwards(held, other, t, c) = Onwards(held, via, t, c)
        BY <1>10, <4>2, Zenon
      <4> QED BY <4>3 DEF t, c
    <3> QED BY <1>4, <2>1, <3>2
  <2>2. \A i \in 0 .. k :
          f[i] = IF i = 0 THEN s ELSE Onwards(held, other, f[i - 1], parts[i])
    <3> SUFFICES ASSUME NEW i \in 0 .. k
                 PROVE  f[i] = IF i = 0 THEN s ELSE Onwards(held, other, f[i - 1], parts[i])
      OBVIOUS
    <3>1. CASE i = 0
      BY <1>4, <3>1
    <3>2. CASE i # 0
      <4>1. i - 1 \in Nat /\ (i - 1) + 1 = i /\ (i - 1) + 1 <= k
        BY <1>1, <3>2
      <4> QED BY <2>1, <3>2, <4>1
    <3> QED BY <3>1, <3>2
  <2>3. f = [i \in 0 .. k |-> f[i]]
    BY <1>2 DEF Goes
  <2>4. Goes(f, held, other, s, parts, k)
    BY <2>2, <2>3 DEF Goes
  <2>5. Goes(f, held, other, s, parts, Len(parts))
    BY <2>4 DEF k
  <2> QED BY <2>5, AlongIsTheWay DEF k
<1> QED BY <1>1, <1>3, <1>9, <1>10

\* Where v leads with up to k links left is worked out from v itself.
Leads(v, held, k) ==
  v = [left \in 0 .. k |->
         [from \in From |-> Along(held, v, Found(from[1], left), from[2])]]

LEMMA FoundIsOne ==
  ASSUME NEW from \in From, NEW m \in Nat
  PROVE  /\ Found(from[1], m) \in Resolutions /\ Found(from[1], m).left = m
         /\ from[2] \in Names
  BY DEF From, Found, Resolutions, Statuses

LEMMA LeadsTells ==
  ASSUME NEW held \in Tree, NEW k \in Nat, NEW v, Leads(v, held, k)
  PROVE  Tells(v, k + 1)
<1> DEFINE Good(m) == m <= k + 1 => Tells(v, m)
           S == {m \in Nat : Good(m)}
<1>1. Good(0)
  BY DEF Tells
<1>2. ASSUME NEW m \in Nat, Good(m) PROVE Good(m + 1)
  <2> SUFFICES ASSUME m <= k PROVE Tells(v, m + 1)
    OBVIOUS
  <2>1. Tells(v, m)
    BY <1>2
  <2>2. ASSUME NEW from \in From
        PROVE  v[m][from] \in Resolutions /\ v[m][from].left <= m
    <3> DEFINE s == Found(from[1], m)
               p == from[2]
    <3>1. s \in Resolutions /\ s.left <= m /\ p \in Names
      BY FoundIsOne
    <3>2. v[m][from] = Along(held, v, s, p)
      BY DEF Leads
    <3> HIDE DEF s, p
    <3>3. Along(held, v, s, p) \in Resolutions /\ Along(held, v, s, p).left <= m
      BY <2>1, <3>1, AlongTells
    <3> QED BY <3>2, <3>3
  <2>3. \A i \in Nat : i < m + 1 => i < m \/ i = m
    OBVIOUS
  <2> QED BY <2>1, <2>2, <2>3 DEF Tells
<1>3. 0 \in S /\ \A m \in Nat : m \in S => m + 1 \in S
  <2> HIDE DEF Good
  <2> QED BY <1>1, <1>2
<1>4. \A m \in Nat : m \in S
  <2> HIDE DEF S
  <2> QED BY <1>3, NextByNext
<1>5. k + 1 \in Nat
  OBVIOUS
<1> QED BY <1>4, <1>5

\* Where two ways say the same of fewer links, Along says the same.
LEMMA AlikeAlong ==
  ASSUME NEW held \in Tree, NEW v, NEW w, NEW m \in Nat, Tells(v, m), Alike(v, w, m),
         NEW from \in From
  PROVE  Along(held, w, Found(from[1], m), from[2])
           = Along(held, v, Found(from[1], m), from[2])
<1> DEFINE s == Found(from[1], m)
           p == from[2]
<1>1. s \in Resolutions /\ s.left <= m /\ p \in Names
  BY FoundIsOne
<1> HIDE DEF s, p
<1>2. \A o : Alike(v, o, m) => Along(held, o, s, p) = Along(held, v, s, p)
  BY <1>1, AlongTells
<1>3. Along(held, w, s, p) = Along(held, v, s, p)
  BY <1>2, Zenon
<1> QED BY <1>3 DEF s, p

LEMMA SomethingLeads ==
  ASSUME NEW held \in Tree
  PROVE  \A k \in Nat : \E v : Leads(v, held, k)
<1> DEFINE Some(k) == \E v : Leads(v, held, k)
           S == {k \in Nat : Some(k)}
<1>1. Some(0)
  <2> DEFINE v == [left \in 0 .. 0 |->
                     [from \in From |-> Along(held, {}, Found(from[1], left), from[2])]]
  <2>1. Tells({}, 0) /\ Alike({}, v, 0)
    BY DEF Tells, Alike
  <2>2. \A from \in From : Along(held, v, Found(from[1], 0), from[2])
                             = Along(held, {}, Found(from[1], 0), from[2])
    <3> HIDE DEF v
    <3> QED BY <2>1, AlikeAlong
  <2>3. v = [left \in 0 .. 0 |->
               [from \in From |-> Along(held, v, Found(from[1], left), from[2])]]
    BY <2>2
  <2> HIDE DEF v
  <2> QED BY <2>3 DEF Leads
<1>2. ASSUME NEW k \in Nat, Some(k) PROVE Some(k + 1)
  <2>1. PICK v : Leads(v, held, k)
    BY <1>2
  <2> DEFINE w == [left \in 0 .. k + 1 |->
                     IF left <= k THEN v[left]
                     ELSE [from \in From |-> Along(held, v, Found(from[1], left), from[2])]]
  <2>2. \A left \in 0 .. k :
          v[left] = [from \in From |-> Along(held, v, Found(from[1], left), from[2])]
    BY <2>1 DEF Leads
  <2>3. \A left \in 0 .. k + 1 :
          w[left] = [from \in From |-> Along(held, v, Found(from[1], left), from[2])]
    BY <2>2
  <2>4. \A left \in 0 .. k : w[left] = v[left]
    OBVIOUS
  <2>5. w = [left \in 0 .. k + 1 |-> w[left]]
    OBVIOUS
  <2> HIDE DEF w
  <2>6. ASSUME NEW left \in 0 .. k + 1, NEW from \in From
        PROVE  Along(held, w, Found(from[1], left), from[2])
                 = Along(held, v, Found(from[1], left), from[2])
    <3>1. Tells(v, k + 1)
      BY <2>1, LeadsTells
    <3>2. Tells(v, left) /\ left \in Nat
      BY <3>1 DEF Tells
    <3>3. Alike(v, w, left)
      BY <2>4 DEF Alike
    <3> QED BY <3>2, <3>3, AlikeAlong
  <2>7. \A left \in 0 .. k + 1 :
          w[left] = [from \in From |-> Along(held, w, Found(from[1], left), from[2])]
    BY <2>3, <2>6
  <2>8. w = [left \in 0 .. k + 1 |->
               [from \in From |-> Along(held, w, Found(from[1], left), from[2])]]
    BY <2>5, <2>7
  <2> QED BY <2>8 DEF Leads
<1>3. 0 \in S /\ \A k \in Nat : k \in S => k + 1 \in S
  <2> HIDE DEF Some
  <2> QED BY <1>1, <1>2
<1>4. \A k \in Nat : k \in S
  <2> HIDE DEF S
  <2> QED BY <1>3, NextByNext
<1> QED BY <1>4

\* What a link leads to, LeadsTo knows of every limit up to MaxLinks.
LEMMA LinksLead ==
  ASSUME NEW held \in Tree
  PROVE  /\ Tells(LeadsTo(held), MaxLinks + 1)
         /\ \A m \in 0 .. MaxLinks, from \in From :
              LeadsTo(held)[m][from]
                = Along(held, LeadsTo(held), Found(from[1], m), from[2])
<1> DEFINE v == CHOOSE v : Leads(v, held, MaxLinks)
<1>1. Leads(v, held, MaxLinks)
  BY SomethingLeads, TreeAssumption
<1>2. LeadsTo(held) = v
  BY DEF LeadsTo, Leads, From, Names
<1> HIDE DEF v
<1>3. Tells(v, MaxLinks + 1)
  BY <1>1, LeadsTells, TreeAssumption
<1>4. \A m \in 0 .. MaxLinks, from \in From :
        v[m][from] = Along(held, v, Found(from[1], m), from[2])
  <2>1. \A m \in 0 .. MaxLinks :
          v[m] = [from \in From |-> Along(held, v, Found(from[1], m), from[2])]
    BY <1>1 DEF Leads
  <2> QED BY <2>1
<1> QED BY <1>2, <1>3, <1>4

-----------------------------------------------------------------------------
(* The walk in one tree                                                      *)

\* Where the walk is, with the links it may still follow.
Here == Found(resolved, MaxLinks - links)

\* The path leads nowhere in this tree, which the walk has not noticed.
Strays(held) ==
  /\ links = MaxLinks - Destination(held).left
  /\ AfterFile(Destination(held)) \/ BelowMissing(Destination(held))

\* In this tree, the path leads where the walk goes on to, if anywhere.
Continues(held) ==
  /\ status = "walking" => \/ Destination(held) = Along(held, LeadsTo(held), Here, pending)
                           \/ Strays(held)
  /\ status = "found" => Destination(held) = Here \/ Strays(held)
  /\ status \notin {"walking", "found"} => Destination(held).status = status

LEMMA HereIsOne ==
  ASSUME WalkInv
  PROVE  /\ Here \in Resolutions /\ Here.left = MaxLinks - links /\ Here.at = resolved
         /\ Here.status = "found" /\ MaxLinks - links \in Nat
<1>1. MaxLinks - links \in Nat
  BY TreeAssumption DEF WalkInv, TypeOK
<1> QED BY <1>1 DEF WalkInv, Here, Found, Resolutions, Statuses, Names

LEMMA DestinationIsOne ==
  ASSUME WalkInv, NEW held \in Tree
  PROVE  Destination(held) \in Resolutions
<1> DEFINE from == <<<<>>, path>>
<1>1. path \in Names /\ <<>> \in Names
  BY TreeAssumption, EmptySeq DEF WalkInv, TypeOK, Names
<1>2. from \in From
  BY <1>1 DEF From
<1>3. MaxLinks \in Nat /\ MaxLinks < MaxLinks + 1
  BY TreeAssumption
<1> HIDE DEF from
<1>4. LeadsTo(held)[MaxLinks][from] \in Resolutions
  BY <1>2, <1>3, LinksLead DEF Tells
<1> QED BY <1>4 DEF Destination, from

\* It begins where the path does.
LEMMA InitContinues ==
  ASSUME Init, NEW held \in Tree
  PROVE  Continues(held)
<1> DEFINE from == <<<<>>, path>>
<1>1. path \in Names /\ <<>> \in Names
  BY TreeAssumption, EmptySeq DEF Init, Names
<1>2. from \in From /\ from[1] = <<>> /\ from[2] = path
  BY <1>1 DEF From
<1> HIDE DEF from
<1>3. MaxLinks \in 0 .. MaxLinks /\ MaxLinks - 0 = MaxLinks
  BY TreeAssumption
<1>4. LeadsTo(held)[MaxLinks][from]
        = Along(held, LeadsTo(held), Found(from[1], MaxLinks), from[2])
  BY <1>2, <1>3, LinksLead
<1>5. Destination(held) = Along(held, LeadsTo(held), Found(<<>>, MaxLinks), path)
  BY <1>2, <1>4 DEF Destination, from
<1> QED BY <1>3, <1>5 DEF Init, Continues, Here

\* Nothing is below what is no directory.
LEMMA NothingBelow ==
  ASSUME WalkInv, Walking, resolved \notin Dirs
  PROVE  Candidate \in Names /\ Candidate \notin Dirs \cup Files \cup Links
<1>1. resolved \in Seq(STRING) /\ Component \in STRING
  BY NextName DEF WalkInv
<1>2. Candidate \in Seq(STRING) /\ Candidate # <<>> /\ Front(Candidate) = resolved
  <2>1. Append(resolved, Component) \in Seq(STRING)
    BY <1>1, AppendProperties
  <2>2. Append(resolved, Component) # <<>> /\ Front(Append(resolved, Component)) = resolved
    BY <1>1, FrontOfLonger
  <2> QED BY <2>1, <2>2 DEF Candidate
<1> QED BY <1>2, TreeAssumption DEF Names

\* A walk that looks for more where no directory is has strayed.
LEMMA Astray ==
  ASSUME WalkInv, NEW held \in Tree, Continues(held), Walking, resolved \notin Dirs
  PROVE  Strays(held)
<1> DEFINE via   == LeadsTo(held)
           error == IF resolved \in Files THEN "NotADirectory" ELSE "NoEntry"
           next  == Onwards(held, via, Here, Component)
           rest  == Tail(pending)
<1> SUFFICES ASSUME Destination(held) = Along(held, via, Here, pending) PROVE Strays(held)
  BY DEF Continues, Walking
<1>1. next = Bad(error, Here)
  BY HereIsOne DEF Onwards
<1>2. /\ next.status = error /\ next.at = resolved /\ next.left = MaxLinks - links
      /\ error # "found"
  BY <1>1 DEF Bad, Here, Found
<1>3. pending \in Names /\ pending # <<>> /\ rest \in Names
  BY NextName DEF WalkInv, Walking, Names
<1>4. Along(held, via, Here, pending) = Along(held, via, next, rest)
  BY <1>3, AlongOne DEF Component
<1> HIDE DEF via, error, next, rest
<1>5. Along(held, via, next, rest) = next
  BY <1>2, <1>3, AlongNoMore
<1>6. Destination(held) = next
  BY <1>4, <1>5
<1>7. IsPrefix(resolved, resolved)
  BY PrefixOfItself DEF WalkInv
<1>8. links = MaxLinks - (MaxLinks - links)
  BY TreeAssumption DEF WalkInv, TypeOK
<1> QED BY <1>2, <1>6, <1>7, <1>8 DEF Strays, AfterFile, BelowMissing, error

\* One name on from a directory.
LEMMA OneOn ==
  ASSUME WalkInv, NEW held \in Tree, Continues(held), Walking, resolved \in Dirs
  PROVE  Destination(held)
           = Along(held, LeadsTo(held), LookUp(held, LeadsTo(held), Here, Component),
                   Tail(pending))
<1>1. ~ Strays(held)
  BY TreeAssumption DEF Strays, AfterFile, BelowMissing
<1>2. Destination(held) = Along(held, LeadsTo(held), Here, pending)
  BY <1>1 DEF Continues, Walking
<1>3. Onwards(held, LeadsTo(held), Here, Component)
        = LookUp(held, LeadsTo(held), Here, Component)
  BY HereIsOne DEF Onwards
<1>4. pending \in Names /\ pending # <<>>
  BY DEF WalkInv, Walking, Names
<1>5. Along(held, LeadsTo(held), Here, pending)
        = Along(held, LeadsTo(held), Onwards(held, LeadsTo(held), Here, Component),
                Tail(pending))
  BY <1>4, AlongOne DEF Component
<1> QED BY <1>2, <1>3, <1>5

\* In a walk that goes on, and in one that does not.
LEMMA WalkContinues ==
  ASSUME WalkInv, NEW held \in Tree, NEW at, NEW rest, Walk(at, rest), status = "walking",
         Destination(held) = Along(held, LeadsTo(held), Found(at, MaxLinks - links'), rest)
  PROVE  Continues(held)'
  BY DEF Walk, Continues, Here, Destination

LEMMA StraysOn ==
  ASSUME NEW held, Strays(held), UNCHANGED <<path, resolved, links>>,
         status' \in {"walking", "found"}
  PROVE  Continues(held)'
  BY DEF Strays, AfterFile, BelowMissing, Continues, Destination

LEMMA FailContinues ==
  ASSUME NEW held, NEW error, error \notin {"walking", "found"}, Fail(error),
         Destination(held).status = error
  PROVE  Continues(held)'
  BY DEF Fail, Continues, Destination

LEMMA SkipContinues ==
  ASSUME WalkInv, NEW held \in Tree, Continues(held), SkipEmpty
  PROVE  Continues(held)'
<1>1. /\ Walking /\ Walk(resolved, Tail(pending)) /\ Component = ""
      /\ links' = links /\ status = "walking"
  BY DEF SkipEmpty, Walking
<1>2. CASE resolved \in Dirs
  <2>1. LookUp(held, LeadsTo(held), Here, Component) = Here
    BY <1>1 DEF LookUp
  <2>2. Destination(held) = Along(held, LeadsTo(held), Here, Tail(pending))
    BY <1>1, <1>2, <2>1, OneOn
  <2> QED BY <1>1, <2>2, WalkContinues DEF Here
<1>3. CASE resolved \notin Dirs
  BY <1>1, <1>3, Astray, StraysOn DEF Walk
<1> QED BY <1>2, <1>3

LEMMA DotsContinues ==
  ASSUME WalkInv, NEW held \in Tree, Continues(held), Dots
  PROVE  Continues(held)'
<1> DEFINE at == IF Component = ".." THEN Parent(resolved) ELSE resolved
<1>1. Walking /\ status = "walking" /\ Component \in {".", ".."}
  BY DEF Dots, Walking
<1>2. CASE resolved \in Dirs
  <2>1. LookUp(held, LeadsTo(held), Here, Component) = Found(at, MaxLinks - links)
    <3>1. CASE Component = "."
      BY <3>1 DEF LookUp, Here
    <3>2. CASE Component = ".."
      BY <3>2, HereIsOne DEF LookUp, Parent
    <3> QED BY <1>1, <3>1, <3>2
  <2>2. Walk(at, Tail(pending)) /\ links' = links
    BY <1>2 DEF Dots
  <2> HIDE DEF at
  <2>3. Destination(held)
          = Along(held, LeadsTo(held), Found(at, MaxLinks - links), Tail(pending))
    BY <1>1, <1>2, <2>1, OneOn
  <2> QED BY <1>1, <2>2, <2>3, WalkContinues
<1>3. CASE resolved \notin Dirs
  <2> DEFINE error == IF resolved \in Files THEN "NotADirectory" ELSE "NoEntry"
  <2>1. Fail(error) /\ error \notin {"walking", "found"}
    BY <1>3 DEF Dots
  <2>2. Destination(held).status = error
    BY <1>1, <1>3, Astray DEF Strays, AfterFile, BelowMissing
  <2> HIDE DEF error
  <2> QED BY <2>1, <2>2, FailContinues
<1> QED BY <1>2, <1>3

LEMMA PlainContinues ==
  ASSUME WalkInv, NEW held \in Tree, Continues(held), Plain
  PROVE  Continues(held)'
<1>1. /\ Walking /\ status = "walking" /\ Component \notin {"", ".", ".."}
      /\ Candidate \notin Links
  BY DEF Plain, Named, Walking, IsLink
<1>2. resolved \notin Files => Walk(Candidate, Tail(pending)) /\ links' = links
  BY DEF Plain
<1>3. CASE resolved \in Dirs
  <2>1. LookUp(held, LeadsTo(held), Here, Component) = Found(Candidate, MaxLinks - links)
    BY <1>1, HereIsOne DEF LookUp, Candidate
  <2>2. Destination(held)
          = Along(held, LeadsTo(held), Found(Candidate, MaxLinks - links), Tail(pending))
    BY <1>1, <1>3, <2>1, OneOn
  <2> QED BY <1>1, <1>2, <1>3, <2>2, WalkContinues, TreeAssumption
<1>4. CASE resolved \in Files
  <2>1. Fail("NotADirectory")
    BY <1>4 DEF Plain
  <2>2. Destination(held).status = "NotADirectory"
    BY <1>1, <1>4, Astray, TreeAssumption DEF Strays, AfterFile, BelowMissing
  <2> QED BY <2>1, <2>2, FailContinues
<1>5. CASE resolved \notin Dirs \cup Files
  <2> DEFINE there == Destination(held)
  <2>1. /\ links = MaxLinks - there.left
        /\ there.status = "NoEntry" /\ IsPrefix(there.at, resolved)
    BY <1>1, <1>5, Astray DEF Strays, AfterFile, BelowMissing
  <2>2. Candidate \notin Dirs \cup Files
    BY <1>1, <1>5, NothingBelow
  <2>3. there.at \in Names
    BY DestinationIsOne DEF Resolutions
  <2>4. IsPrefix(there.at, Candidate)
    BY <1>1, <2>1, <2>3, NextName, PrefixOfLonger DEF WalkInv, Candidate, Names
  <2>5. UNCHANGED <<path, links>> /\ resolved' = Candidate /\ status' = "walking"
    BY <1>1, <1>2, <1>5 DEF Walk
  <2>6. Destination(held)' = there
    BY <2>5 DEF Destination
  <2> HIDE DEF there
  <2>7. Strays(held)'
    BY <2>1, <2>2, <2>4, <2>5, <2>6 DEF Strays, BelowMissing
  <2> QED BY <2>5, <2>7 DEF Continues
<1> QED BY <1>3, <1>4, <1>5

\* A link in this tree that holds what the walk reads, if it reads it.
LEMMA FollowContinues ==
  ASSUME WalkInv, NEW held \in Tree, Continues(held), Follow,
         links' # links => held[Candidate] = tree[Candidate]
  PROVE  Continues(held)'
<1> DEFINE via   == LeadsTo(held)
           left  == MaxLinks - links
           start == StartOf(held[Candidate], resolved)
           parts == held[Candidate].parts
           from  == <<start, parts>>
           rest  == Tail(pending)
<1>1. /\ Walking /\ status = "walking" /\ Component \notin {"", ".", ".."}
      /\ Candidate \in Links /\ resolved \in Dirs
  BY NothingBelow DEF Follow, Named, Walking, IsLink
<1>2. links \in Nat /\ MaxLinks \in Nat /\ left \in Nat
  BY HereIsOne, TreeAssumption DEF WalkInv, TypeOK
<1>3. LookUp(held, via, Here, Component)
        = IF left = 0 THEN Bad("TooManyLinks", Here) ELSE via[left - 1][from]
  BY <1>1, HereIsOne DEF LookUp, Candidate, StartOf
<1>4. CASE links + 1 > MaxLinks
  <2>1. Fail("TooManyLinks") /\ left = 0
    BY <1>2, <1>4 DEF Follow, Counted
  <2> DEFINE looped == Bad("TooManyLinks", Here)
  <2>2. looped.status = "TooManyLinks"
    BY DEF Bad, Here, Found
  <2>3. rest \in Names
    BY <1>1, NextName DEF Names
  <2>4. LookUp(held, via, Here, Component) = looped
    BY <1>3, <2>1
  <2> HIDE DEF looped, via, rest
  <2>5. Destination(held) = looped
    <3>1. Destination(held) = Along(held, via, looped, rest)
      BY <1>1, <2>4, OneOn DEF via, rest
    <3>2. Along(held, via, looped, rest) = looped
      BY <2>2, <2>3, AlongNoMore
    <3> QED BY <3>1, <3>2
  <2> QED BY <2>1, <2>2, <2>5, FailContinues
<1>5. CASE ~ links + 1 > MaxLinks
  <2>1. /\ links' = links + 1
        /\ Walk(StartOf(tree[Candidate], resolved), tree[Candidate].parts \o rest)
    BY <1>5 DEF Follow, Counted
  <2>2. Walk(start, parts \o rest) /\ MaxLinks - links' = left - 1
    BY <1>2, <2>1
  <2>3. left # 0 /\ left - 1 \in 0 .. MaxLinks
    BY <1>2, <1>5
  <2>4. from \in From /\ parts \in Names /\ rest \in Names
    <3>1. held[Candidate] \in Targets
      BY <1>1 DEF Tree
    <3>2. parts \in Names
      BY <3>1, TreeAssumption DEF Names
    <3>3. start \in Names
      BY EmptySeq DEF StartOf, WalkInv, Names
    <3>4. rest \in Names
      BY <1>1, NextName DEF Names
    <3> QED BY <3>2, <3>3, <3>4 DEF From
  <2>5. from[1] = start /\ from[2] = parts
    OBVIOUS
  <2> HIDE DEF via, left, start, parts, from, rest
  <2>6. via[left - 1][from] = Along(held, via, Found(start, left - 1), parts)
    BY <2>3, <2>4, <2>5, LinksLead DEF via
  <2>7. Destination(held)
          = Along(held, via, Along(held, via, Found(start, left - 1), parts), rest)
    BY <1>1, <1>3, <2>3, <2>6, OneOn DEF via, rest
  <2>8. Destination(held) = Along(held, via, Found(start, left - 1), parts \o rest)
    BY <2>4, <2>7, AlongBoth
  <2> QED BY <1>1, <2>2, <2>8, WalkContinues DEF via
<1> QED BY <1>4, <1>5

LEMMA FinishContinues ==
  ASSUME WalkInv, NEW held \in Tree, Continues(held), Finish
  PROVE  Continues(held)'
<1>1. status = "walking" /\ pending = <<>> /\ status' = "found"
      /\ UNCHANGED <<path, resolved, links>>
  BY DEF Finish
<1>2. CASE Strays(held)
  BY <1>1, <1>2, StraysOn
<1>3. CASE ~ Strays(held)
  <2>1. Destination(held) = Here
    BY <1>1, <1>3, AlongNothing DEF Continues
  <2> QED BY <1>1, <2>1 DEF Continues, Destination, Here
<1> QED BY <1>2, <1>3

\* Every step of the walk goes on in a tree where what it reads is there.
LEMMA StepContinues ==
  ASSUME WalkInv, NEW held \in Tree, Continues(held), Step,
         links' # links => held[Candidate] = tree[Candidate]
  PROVE  Continues(held)'
  BY SkipContinues, DotsContinues, PlainContinues, FollowContinues, FinishContinues
  DEF Step

-----------------------------------------------------------------------------
(* The invariant                                                             *)

\* Two trees differ in one link at most.
OneLinkApart ==
  \A one, other \in trees, m, n \in Links :
    one[m] # other[m] /\ one[n] # other[n] => m = n

\* The walk goes on in every tree that has, of the links met, what held has.
SeenIn(held) ==
  \A like \in Tree : (\A m \in met : like[m] = held[m]) => Continues(like)

\* At rest, the walk goes on in the tree there is.  After one change, it goes on
\* in one of the two, and in all that look like it on the way so far: what comes
\* later is read when the other tree is there.
LookInv ==
  /\ WalkInv
  /\ IsFiniteSet(trees) /\ trees \subseteq Tree
  /\ trees = {tree} => Continues(tree)
  /\ Cardinality(trees) <= 2 => OneLinkApart
  /\ Cardinality(trees) <= 2 /\ links = Cardinality(met) => \E held \in trees : SeenIn(held)

LEMMA InitLook == Init => LookInv
<1> SUFFICES ASSUME Init PROVE LookInv
  OBVIOUS
<1>1. tree \in Tree /\ trees = {tree}
  BY DEF Init, Tree
<1>2. IsFiniteSet(trees)
  BY <1>1, FS_Singleton
<1>3. OneLinkApart
  BY <1>1 DEF OneLinkApart
<1>4. \A held \in Tree : Continues(held)
  BY InitContinues
<1>5. \E held \in trees : SeenIn(held)
  BY <1>1, <1>4 DEF SeenIn
<1> QED BY <1>1, <1>2, <1>3, <1>4, <1>5, InitWalk DEF LookInv

\* A step of the walk reads one link, if any.
LEMMA StepReads ==
  ASSUME WalkInv, Step
  PROVE  /\ UNCHANGED <<tree, trees, path>>
         /\ links' # links => /\ links' = links + 1 /\ met' = met \cup {Candidate}
                              /\ Candidate \in Links
         /\ links' = links => met' = met
<1>1. CASE Follow
  <2>1. links + 1 # links
    BY DEF WalkInv, TypeOK
  <2> QED BY <1>1, <2>1 DEF Follow, Walk, Fail, Counted, IsLink
<1>2. CASE SkipEmpty \/ Dots \/ Plain \/ Finish
  <2>1. UNCHANGED <<tree, trees, path, links, met>>
    BY <1>2 DEF SkipEmpty, Dots, Plain, Finish, Walk, Fail
  <2> QED BY <2>1
<1> QED BY <1>1, <1>2 DEF Step

\* A step of the walk that met no link twice.
LEMMA StepSeen ==
  ASSUME LookInv, Step, Cardinality(trees) <= 2, links' = Cardinality(met')
  PROVE  \E held \in trees : SeenIn(held)'
<1>1. WalkInv /\ trees \subseteq Tree /\ tree \in trees /\ met \subseteq Links
  BY DEF LookInv, WalkInv, TypeOK
<1>2. /\ IsFiniteSet(met) /\ Cardinality(met) \in Nat /\ Cardinality(met) <= links
      /\ links \in Nat
  BY FS_CardinalityType DEF LookInv, WalkInv, TypeOK
<1>3. CASE links' = links
  <2>1. met' = met /\ links = Cardinality(met)
    BY <1>1, <1>3, StepReads
  <2>2. PICK held \in trees : SeenIn(held)
    BY <2>1 DEF LookInv
  <2>3. ASSUME NEW like \in Tree, \A m \in met : like[m] = held[m]
        PROVE  Continues(like)'
    BY <1>1, <1>3, <2>2, <2>3, StepContinues DEF SeenIn
  <2> QED BY <2>1, <2>2, <2>3 DEF SeenIn
<1>4. CASE links' # links
  <2>1. /\ links' = links + 1 /\ met' = met \cup {Candidate}
        /\ Candidate \in Links
    BY <1>1, <1>4, StepReads
  <2>2. Candidate \notin met /\ links = Cardinality(met)
    <3>1. Cardinality(met \cup {Candidate})
            = IF Candidate \in met THEN Cardinality(met) ELSE Cardinality(met) + 1
      BY <1>2, FS_AddElement
    <3>2. Cardinality(met \cup {Candidate}) = links + 1
      BY <2>1
    <3> QED BY <1>2, <3>1, <3>2
  <2>3. PICK held \in trees : SeenIn(held)
    BY <2>2 DEF LookInv
  <2>4. PICK now \in trees : /\ \A m \in met : now[m] = held[m]
                             /\ now[Candidate] = tree[Candidate]
    <3>1. CASE held[Candidate] = tree[Candidate]
      BY <3>1
    <3>2. CASE held[Candidate] # tree[Candidate]
      <4>1. \A n \in Links : held[n] # tree[n] => Candidate = n
        BY <1>1, <2>1, <3>2 DEF LookInv, OneLinkApart
      <4> QED BY <1>1, <2>2, <4>1
    <3> QED BY <3>1, <3>2
  <2>5. ASSUME NEW like \in Tree, \A m \in met \cup {Candidate} : like[m] = now[m]
        PROVE  Continues(like)'
    <3>1. Continues(like)
      BY <2>3, <2>4, <2>5 DEF SeenIn
    <3>2. like[Candidate] = tree[Candidate]
      BY <2>4, <2>5
    <3> QED BY <1>1, <3>1, <3>2, StepContinues
  <2>6. SeenIn(now)'
    BY <2>1, <2>5 DEF SeenIn
  <2> QED BY <2>6
<1> QED BY <1>3, <1>4

LEMMA StepLook == ASSUME LookInv, Step PROVE LookInv'
<1>1. WalkInv /\ WalkInv' /\ tree \in Tree
  BY StepWalk DEF LookInv, Next, WalkInv, TypeOK, Tree
<1>2. UNCHANGED <<tree, trees>>
  BY <1>1, StepReads
<1>3. ASSUME NEW rest \in Tree, rest = tree, trees = {rest} PROVE Continues(rest)'
  BY <1>1, <1>3, StepContinues DEF LookInv
<1>4. (trees = {tree} => Continues(tree))'
  BY <1>1, <1>2, <1>3 DEF Continues, Strays, AfterFile, BelowMissing, Destination, Here
<1>5. (Cardinality(trees) <= 2 => OneLinkApart)'
  BY <1>2 DEF LookInv, OneLinkApart
<1>6. (Cardinality(trees) <= 2 /\ links = Cardinality(met) => \E held \in trees : SeenIn(held))'
  BY <1>2, StepSeen
<1> QED BY <1>1, <1>2, <1>4, <1>5, <1>6 DEF LookInv

LEMMA RelinkLook == ASSUME LookInv, Relink PROVE LookInv'
<1>1. PICK l \in Links, target \in Targets : tree' = [tree EXCEPT ![l] = target]
  BY DEF Relink
<1>2. /\ trees' = trees \cup {tree'} /\ UNCHANGED walk
      /\ WalkInv /\ tree \in trees /\ tree \in Tree /\ tree' \in Tree
      /\ IsFiniteSet(trees) /\ trees \subseteq Tree
  BY <1>1 DEF Relink, LookInv, WalkInv, TypeOK, Tree
<1>3. WalkInv'
  BY StepWalk DEF LookInv, Next
<1>4. /\ IsFiniteSet(trees') /\ trees' \subseteq Tree
      /\ Cardinality(trees) \in Nat
      /\ Cardinality(trees') = IF tree' \in trees THEN Cardinality(trees)
                               ELSE Cardinality(trees) + 1
  BY <1>2, FS_AddElement, FS_CardinalityType
<1>5. \A held : Continues(held)' = Continues(held)
  BY <1>2 DEF walk, Continues, Strays, AfterFile, BelowMissing, Destination, Here
<1>6. (trees = {tree} => Continues(tree))'
  <2>1. trees' = {tree'} => tree' = tree /\ trees = {tree}
    BY <1>2
  <2>2. tree' = tree => Continues(tree)' = Continues(tree)
    BY <1>2 DEF walk, Continues, Strays, AfterFile, BelowMissing, Destination, Here
  <2> QED BY <1>2, <2>1, <2>2 DEF LookInv
<1>7. ASSUME Cardinality(trees') <= 2
      PROVE  OneLinkApart'
  <2>1. CASE tree' \in trees
    BY <1>2, <1>4, <1>7, <2>1 DEF LookInv, OneLinkApart
  <2>2. CASE tree' \notin trees
    <3>1. Cardinality(trees) = 1
      <4>1. Cardinality(trees) # 0
        BY <1>2, FS_EmptySet
      <4> QED BY <1>4, <1>7, <2>2, <4>1
    <3>2. trees = {tree}
      <4>1. \E t : trees = {t}
        BY <1>2, <3>1, FS_Singleton
      <4> QED BY <1>2, <4>1
    <3>3. \A m \in Links : tree'[m] # tree[m] => m = l
      BY <1>1, <1>2 DEF Tree
    <3> QED BY <1>2, <3>2, <3>3 DEF OneLinkApart
  <2> QED BY <2>1, <2>2
<1>8. ASSUME Cardinality(trees') <= 2, links' = Cardinality(met')
      PROVE  \E held \in trees' : SeenIn(held)'
  <2>1. Cardinality(trees) <= 2 /\ links = Cardinality(met)
    BY <1>2, <1>4, <1>8 DEF walk
  <2>2. PICK held \in trees : SeenIn(held)
    BY <2>1 DEF LookInv
  <2>3. SeenIn(held)'
    BY <1>2, <1>5, <2>2 DEF SeenIn, walk
  <2> QED BY <1>2, <2>3
<1>9. /\ (Cardinality(trees) <= 2 => OneLinkApart)'
      /\ (Cardinality(trees) <= 2 /\ links = Cardinality(met)
            => \E held \in trees : SeenIn(held))'
  BY <1>7, <1>8
<1> QED BY <1>3, <1>4, <1>6, <1>9 DEF LookInv

LEMMA NextLook == LookInv /\ [Next]_vars => LookInv'
<1> SUFFICES ASSUME LookInv, [Next]_vars PROVE LookInv'
  OBVIOUS
<1>1. CASE UNCHANGED vars
  <2>1. WalkInv'
    BY <1>1, StepWalk DEF LookInv
  <2> QED BY <1>1, <2>1 DEF vars, walk, LookInv, OneLinkApart, SeenIn, Continues,
                            Strays, AfterFile, BelowMissing, Destination, Here
<1> QED BY <1>1, StepLook, RelinkLook DEF Next

\* A walk that has ended, in a tree where it went on.
LEMMA ContinuesAgrees ==
  ASSUME WalkInv, NEW held, Continues(held), status # "walking"
  PROVE  Agrees(held)
<1>1. Here.status = "found" /\ Here.at = resolved /\ links = MaxLinks - Here.left
  BY HereIsOne, TreeAssumption DEF WalkInv, TypeOK
<1> QED BY <1>1 DEF Continues, Strays, Agrees

-----------------------------------------------------------------------------
(* Theorems                                                                  *)

THEOREM LookCorrect == Spec => []LookInv
  BY InitLook, NextLook, PTL DEF Spec

\* While nobody replaces a link, resolveTarget fails only with the error that
\* path_resolution(7) has, and finds what that finds, for every tree, path and
\* limit: links into links, dots after links, dangling links and loops.  So all
\* names of a file get one lock.  What it finds where the path leads nowhere is a
\* file with a slash after it, without the slash (document_store.cpp:56), or
\* nothing, below the missing directory (document_store.cpp:76).
THEOREM WalkLeadsToTheFile == Spec => []LeadsToTheFile
<1>1. LookInv => LeadsToTheFile
  BY ContinuesAgrees DEF LookInv, LeadsToTheFile
<1> QED BY <1>1, LookCorrect, PTL

\* When a link is replaced during resolveTarget, the result is still that of one
\* moment, before or after, unless the walk met a link twice: a document is never
\* locked in a place where it was at no time.
THEOREM WalksAreOneLook == Spec => []WalkIsOneLook
<1>1. ASSUME LookInv PROVE WalkIsOneLook
  <2> SUFFICES ASSUME status # "walking", ~ (Cardinality(trees) > 2),
                      links = Cardinality(met)
               PROVE  \E held \in trees : Agrees(held)
    BY DEF WalkIsOneLook
  <2>1. Cardinality(trees) <= 2
    BY <1>1, FS_CardinalityType DEF LookInv
  <2>2. PICK held \in trees : SeenIn(held)
    BY <1>1, <2>1 DEF LookInv
  <2>3. Continues(held)
    BY <1>1, <2>2 DEF SeenIn, LookInv
  <2> QED BY <1>1, <2>3, ContinuesAgrees DEF LookInv
<1> QED BY <1>1, LookCorrect, PTL
=============================================================================
