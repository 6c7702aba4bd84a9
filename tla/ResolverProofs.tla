--------------------------- MODULE ResolverProofs ---------------------------
(***************************************************************************)
(* Lemmas about paths and about where the files of an argument go, for any *)
(* tree of directories.                                                    *)
(***************************************************************************)
EXTENDS Resolver, SequenceTheorems, TLAPS

Path == Seq(STRING)

(* q is p or lies somewhere below it. *)
From(p, q) == Len(p) <= Len(q) /\ \A i \in 1..Len(p) : q[i] = p[i]

-----------------------------------------------------------------------------

\* A path lies below itself, what lies below it lies below what it is below,
\* and of two paths only one is below the other.
LEMMA FromOrder ==
  ASSUME NEW p \in Path, NEW q \in Path, NEW r \in Path
  PROVE  /\ From(p, p) /\ From(<< >>, p)
         /\ From(p, q) /\ From(q, r) => From(p, r)
         /\ From(p, q) /\ Len(p) = Len(q) => p = q
         /\ From(p, r) /\ From(q, r) /\ Len(p) <= Len(q) => From(p, q)
<1>1. Len(p) \in Nat /\ Len(q) \in Nat /\ Len(r) \in Nat
  BY DEF Path
<1>2. From(p, p) /\ From(<< >>, p)
  BY <1>1 DEF From
<1>3. From(p, q) /\ From(q, r) => From(p, r)
  BY <1>1 DEF From
<1>4. From(p, q) /\ Len(p) = Len(q) => p = q
  <2> SUFFICES ASSUME From(p, q), Len(p) = Len(q) PROVE p = q
    OBVIOUS
  <2>1. \A i \in 1..Len(p) : p[i] = q[i]
    BY DEF From
  <2> QED
    BY <2>1, SeqEqual, ZenonT(30) DEF Path
<1>5. From(p, r) /\ From(q, r) /\ Len(p) <= Len(q) => From(p, q)
  BY <1>1 DEF From
<1> QED
  BY <1>2, <1>3, <1>4, <1>5

\* The first names of a path.
LEMMA PrefixFacts ==
  ASSUME NEW p \in Path, NEW n \in 0..Len(p)
  PROVE  /\ SubSeq(p, 1, n) \in Path /\ Len(SubSeq(p, 1, n)) = n
         /\ \A i \in 1..n : SubSeq(p, 1, n)[i] = p[i]
<1> DEFINE s == SubSeq(p, 1, n)
<1>1. n \in Nat /\ \A i \in 1..n : p[i] \in STRING
  BY DEF Path
<1>2. /\ s \in Seq(STRING)
      /\ Len(s) = IF 1 <= n THEN n - 1 + 1 ELSE 0
      /\ \A i \in 1..n - 1 + 1 : s[i] = p[1 + i - 1]
  BY <1>1, SubSeqProperties
<1> HIDE DEF s
<1>3. Len(s) = n
  BY <1>1, <1>2
<1>4. ASSUME NEW i \in 1..n PROVE s[i] = p[i]
  <2>1. i \in 1..n - 1 + 1 /\ 1 + i - 1 = i
    BY <1>1
  <2> QED
    BY <1>2, <2>1
<1> QED
  BY <1>2, <1>3, <1>4 DEF s, Path

\* Path, directory part and name.
LEMMA ParentFacts ==
  ASSUME NEW p \in Path, p # << >>
  PROVE  /\ Parent(p) \in Path /\ Len(Parent(p)) = Len(p) - 1
         /\ From(Parent(p), p) /\ Base(p) \in STRING
         /\ Len(p) \in Nat \ {0}
<1>1. Len(p) \in Nat \ {0} /\ \A i \in 1..Len(p) : p[i] \in STRING
  BY DEF Path
<1> DEFINE n == Len(p) - 1
           s == SubSeq(p, 1, n)
<1>2. n \in 0..Len(p)
  BY <1>1
<1> HIDE DEF n, s
<1>3. /\ s \in Path /\ Len(s) = n /\ \A i \in 1..n : s[i] = p[i]
  BY <1>2, PrefixFacts DEF s
<1>4. Parent(p) = s /\ n = Len(p) - 1 /\ Len(Parent(p)) <= Len(p)
  BY <1>1, <1>3 DEF Parent, s, n
<1> QED
  BY <1>1, <1>3, <1>4 DEF From, Base

\* The paths below the parent of p and not below p, seen from either side.
LEMMA ParentOrder ==
  ASSUME NEW p \in Path, p # << >>, NEW q \in Path
  PROVE  /\ From(q, p) => q = p \/ From(q, Parent(p))
         /\ From(p, q) => From(Parent(p), q)
<1>1. /\ Parent(p) \in Path /\ Len(Parent(p)) = Len(p) - 1
      /\ From(Parent(p), p) /\ Len(p) \in Nat \ {0}
  BY ParentFacts
<1>2. Len(q) \in Nat
  BY DEF Path
<1>3. From(q, p) /\ Len(q) = Len(p) => q = p
  BY FromOrder
<1>4. From(q, p) /\ Len(q) # Len(p) => From(q, Parent(p))
  <2>1. From(q, p) /\ Len(q) # Len(p) => Len(q) <= Len(Parent(p))
    BY <1>1, <1>2 DEF From
  <2> QED
    BY <1>1, <2>1, FromOrder
<1>5. From(p, q) => From(Parent(p), q)
  BY <1>1, FromOrder
<1> QED
  BY <1>3, <1>4, <1>5

\* What lies properly below base.
LEMMA WithinFacts ==
  ASSUME NEW base \in Path, NEW p \in Path
  PROVE  Within(base, p) <=> From(base, p) /\ base # p
<1>1. /\ Len(base) \in Nat /\ Len(p) \in Nat
      /\ \A i \in 1..Len(p) : p[i] \in STRING
  BY DEF Path
<1>2. ASSUME Len(base) <= Len(p)
      PROVE  SubSeq(p, 1, Len(base)) = base <=> From(base, p)
  <2> DEFINE s == SubSeq(p, 1, Len(base))
  <2>1. Len(base) \in 0..Len(p)
    BY <1>1, <1>2
  <2>2. /\ s \in Path /\ Len(s) = Len(base)
        /\ \A i \in 1..Len(base) : s[i] = p[i]
    BY <2>1, PrefixFacts
  <2> HIDE DEF s
  <2>3. s = base => From(base, p)
    BY <1>2, <2>2 DEF From
  <2>4. From(base, p) => From(base, s)
    BY <1>1, <2>2 DEF From
  <2>5. From(base, s) => base = s
    BY <2>2, FromOrder
  <2> QED
    BY <2>3, <2>4, <2>5 DEF s
<1>3. From(base, p) => Len(base) <= Len(p)
  BY DEF From
<1>4. From(base, p) /\ base # p => Len(base) < Len(p)
  BY <1>1, <1>3, FromOrder
<1> QED
  BY <1>1, <1>2, <1>3, <1>4 DEF Within

\* The way from base to a path below it.
LEMMA RelFacts ==
  ASSUME NEW base \in Path, NEW p \in Path, From(base, p)
  PROVE  /\ Rel(base, p) \in Path /\ Len(Rel(base, p)) = Len(p) - Len(base)
         /\ \A i \in 1..Len(p) - Len(base) : Rel(base, p)[i] = p[Len(base) + i]
<1> DEFINE m == Len(base) + 1
           n == Len(p)
<1>1. /\ Len(base) \in Nat /\ n \in Nat /\ Len(base) <= n
      /\ \A i \in 1..n : p[i] \in STRING
  BY DEF Path, From
<1>2. m \in Int /\ n \in Int /\ \A i \in m..n : p[i] \in STRING
  BY <1>1
<1>3. Rel(base, p) = SubSeq(p, m, n)
  BY DEF Rel
<1>4. m = Len(base) + 1
  OBVIOUS
<1> HIDE DEF m, n
<1>5. /\ SubSeq(p, m, n) \in Seq(STRING)
      /\ Len(SubSeq(p, m, n)) = IF m <= n THEN n - m + 1 ELSE 0
      /\ \A i \in 1..n - m + 1 : SubSeq(p, m, n)[i] = p[m + i - 1]
  BY <1>2, SubSeqProperties
<1> QED
  BY <1>1, <1>3, <1>4, <1>5 DEF Path, n

\* A way appended to a path leads below it, and back from there it is the same.
LEMMA ConcatFacts ==
  ASSUME NEW base \in Path, NEW rel \in Path
  PROVE  /\ base \o rel \in Path /\ From(base, base \o rel)
         /\ Rel(base, base \o rel) = rel
         /\ rel # << >> => Within(base, base \o rel)
<1> DEFINE s == base \o rel
<1>1. Len(base) \in Nat /\ Len(rel) \in Nat
  BY DEF Path
<1>2. /\ s \in Path /\ Len(s) = Len(base) + Len(rel)
      /\ \A i \in 1..Len(base) + Len(rel) :
           s[i] = IF i <= Len(base) THEN base[i] ELSE rel[i - Len(base)]
  BY ConcatProperties DEF Path
<1> HIDE DEF s
<1>3. From(base, s)
  BY <1>1, <1>2 DEF From
<1>4. /\ Rel(base, s) \in Path /\ Len(Rel(base, s)) = Len(rel)
      /\ \A i \in 1..Len(rel) : Rel(base, s)[i] = s[Len(base) + i]
  <2>1. /\ Rel(base, s) \in Path /\ Len(Rel(base, s)) = Len(s) - Len(base)
        /\ \A i \in 1..Len(s) - Len(base) : Rel(base, s)[i] = s[Len(base) + i]
    BY <1>2, <1>3, RelFacts
  <2>2. Len(s) - Len(base) = Len(rel)
    BY <1>1, <1>2
  <2> QED
    BY <2>1, <2>2
<1>5. \A i \in 1..Len(rel) : Rel(base, s)[i] = rel[i]
  BY <1>1, <1>2, <1>4
<1>6. Rel(base, s) = rel
  BY <1>4, <1>5, SeqEqual, ZenonT(30) DEF Path
<1>7. rel # << >> => base # s
  BY <1>1, <1>2 DEF Path
<1>8. rel # << >> => Within(base, s)
  BY <1>2, <1>3, <1>7, WithinFacts
<1> QED
  BY <1>2, <1>3, <1>6, <1>8 DEF s

\* Two paths below base that differ, differ in their way from it.
LEMMA RelInjective ==
  ASSUME NEW base \in Path, NEW p \in Path, NEW q \in Path,
         From(base, p), From(base, q), Rel(base, p) = Rel(base, q)
  PROVE  p = q
<1>1. Len(base) \in Nat /\ Len(p) \in Nat /\ Len(q) \in Nat
  BY DEF Path
<1> DEFINE n == Len(p) - Len(base)
           m == Len(q) - Len(base)
<1>2. /\ Len(Rel(base, p)) = n
      /\ \A i \in 1..n : Rel(base, p)[i] = p[Len(base) + i]
  BY RelFacts
<1>3. /\ Len(Rel(base, q)) = m
      /\ \A i \in 1..m : Rel(base, q)[i] = q[Len(base) + i]
  BY RelFacts
<1>4. Len(p) = Len(q)
  BY <1>1, <1>2, <1>3
<1>5. \A i \in 1..Len(base) : p[i] = q[i]
  BY DEF From
<1>6. ASSUME NEW i \in 1..Len(p), i > Len(base)
      PROVE  p[i] = q[i]
  <2> DEFINE k == i - Len(base)
  <2>1. k \in 1..Len(p) - Len(base) /\ i = Len(base) + k
    BY <1>1, <1>6
  <2> HIDE DEF k
  <2>2. k \in 1..n /\ k \in 1..m
    BY <1>4, <2>1
  <2>3. p[Len(base) + k] = q[Len(base) + k]
    BY <1>2, <1>3, <2>2
  <2> QED
    BY <2>1, <2>3
<1>7. \A i \in 1..Len(p) : p[i] = q[i]
  BY <1>1, <1>5, <1>6
<1> QED
  BY <1>4, <1>7, SeqEqual, ZenonT(30) DEF Path

-----------------------------------------------------------------------------

\* An entry of a directory is one step below it.
LEMMA EntriesFacts ==
  ASSUME NEW files, files \subseteq Path, NEW d \in Dirs,
         NEW p \in Entries(files, d)
  PROVE  /\ p \in Path /\ p # << >> /\ Parent(p) = d /\ d \in Path
         /\ From(d, p) /\ Len(p) = Len(d) + 1
         /\ p \in files \cup Dirs
<1>1. /\ p \in Path /\ p # << >> /\ Parent(p) = d /\ d \in Path
      /\ p \in files \cup Dirs
  BY ResolverAssumption DEF Entries, Path
<1>2. Len(d) = Len(p) - 1 /\ From(d, p) /\ Len(p) \in Nat
  BY <1>1, ParentFacts
<1> QED
  BY <1>1, <1>2

\* Between a directory and a file below it lies an entry of the directory.
LEMMA EntryToward ==
  ASSUME NEW files, files \subseteq Path, NEW d \in Dirs, NEW p \in files,
         p # << >>, Parent(p) \in Dirs, From(d, p), d # p
  PROVE  \E e \in Entries(files, d) : From(e, p)
<1> DEFINE n == Len(d) + 1
           e == SubSeq(p, 1, n)
<1>1. /\ p \in Path /\ d \in Path /\ Parent(p) \in Path
      /\ Len(Parent(p)) = Len(p) - 1
      /\ Len(d) \in Nat /\ Len(p) \in Nat
  BY ResolverAssumption, ParentFacts DEF Path
<1>2. Len(d) <= Len(p) /\ Len(d) # Len(p)
  BY <1>1, FromOrder DEF From
<1>3. n \in 1..Len(p)
  BY <1>1, <1>2
<1>4. n = Len(d) + 1
  OBVIOUS
<1> HIDE DEF n, e
<1>5. e \in Path /\ Len(e) = n /\ \A i \in 1..n : e[i] = p[i]
  BY <1>1, <1>3, PrefixFacts DEF e
<1>6. From(e, p)
  BY <1>1, <1>3, <1>5 DEF From
<1>7. e # << >>
  BY <1>3, <1>5
<1>8. Parent(e) = d
  <2>1. /\ Parent(e) \in Path /\ Len(Parent(e)) = Len(d)
        /\ From(Parent(e), e)
    BY <1>1, <1>4, <1>5, <1>7, ParentFacts
  <2>2. From(Parent(e), p)
    BY <1>1, <1>5, <1>6, <2>1, FromOrder
  <2>3. From(Parent(e), d)
    BY <1>1, <2>1, <2>2, FromOrder
  <2> QED
    BY <1>1, <2>1, <2>3, FromOrder
<1>9. e \in files \cup Dirs
  <2>1. CASE n = Len(p)
    BY <1>1, <1>5, <1>6, <2>1, FromOrder
  <2>2. CASE n # Len(p)
    <3> DEFINE q == Parent(p)
               f == SubSeq(q, 1, n)
    <3>1. n \in 1..Len(q) /\ q \in Path /\ From(q, p)
      BY <1>1, <1>3, <2>2, ParentFacts
    <3> HIDE DEF q
    <3>2. f \in Path /\ Len(f) = n /\ \A i \in 1..n : f[i] = q[i]
      BY <3>1, PrefixFacts
    <3> HIDE DEF f
    <3>3. \A i \in 1..n : f[i] = e[i]
      BY <1>1, <1>3, <1>5, <3>1, <3>2 DEF From
    <3>4. f = e
      BY <1>5, <3>2, <3>3, SeqEqual, ZenonT(30) DEF Path
    <3>5. n \in 0..Len(q) /\ q \in Dirs
      BY <3>1 DEF q
    <3> QED
      BY <3>4, <3>5, ResolverAssumption DEF f
  <2> QED
    BY <2>1, <2>2
<1>10. e \in Entries(files, d)
  BY <1>7, <1>8, <1>9 DEF Entries
<1> QED
  BY <1>6, <1>10

\* Append and the name of a path.
LEMMA AppendName ==
  ASSUME NEW d \in Path, NEW n \in STRING
  PROVE  /\ Append(d, n) \in Path /\ Append(d, n) # d
         /\ Base(Append(d, n)) = n
<1> DEFINE e == Append(d, n)
<1>1. /\ e \in Seq(STRING) /\ Len(e) = Len(d) + 1 /\ e[Len(d) + 1] = n
  BY AppendProperties DEF Path
<1>2. Len(d) \in Nat
  BY DEF Path
<1> HIDE DEF e
<1>3. e # d
  BY <1>1, <1>2
<1> QED
  BY <1>1, <1>3 DEF Base, Path, e

\* Two paths in one directory that have one name are one.
LEMMA SameEntry ==
  ASSUME NEW p \in Path, p # << >>, NEW q \in Path, q # << >>,
         Parent(p) = Parent(q), Base(p) = Base(q)
  PROVE  p = q
<1> DEFINE n == Len(p) - 1
<1>1. /\ Len(p) \in Nat \ {0} /\ Len(q) \in Nat \ {0}
      /\ Len(Parent(p)) = Len(p) - 1 /\ Len(Parent(q)) = Len(q) - 1
      /\ From(Parent(p), p) /\ From(Parent(q), q)
  BY ParentFacts
<1>2. Len(p) = Len(q)
  BY <1>1
<1>3. \A i \in 1..Len(p) - 1 : p[i] = q[i]
  BY <1>1, <1>2 DEF From
<1>4. p[Len(p)] = q[Len(p)]
  BY <1>2 DEF Base
<1>5. From(p, q)
  BY <1>1, <1>2, <1>3, <1>4 DEF From
<1> QED
  BY <1>2, <1>5, FromOrder

\* The way to a path below base ends with the name of that path.
LEMMA RelName ==
  ASSUME NEW base \in Path, NEW p \in Path, NEW dst \in Path, Within(base, p)
  PROVE  /\ dst \o Rel(base, p) # dst
         /\ Base(dst \o Rel(base, p)) = Base(p)
<1>1. From(base, p) /\ Len(base) < Len(p)
  BY WithinFacts DEF Within
<1> DEFINE rel == Rel(base, p)
           n == Len(rel)
<1>2. /\ rel \in Path /\ n = Len(p) - Len(base)
      /\ \A i \in 1..Len(p) - Len(base) : rel[i] = p[Len(base) + i]
  BY <1>1, RelFacts
<1> HIDE DEF rel
<1>3. Len(base) \in Nat /\ Len(p) \in Nat /\ Len(dst) \in Nat /\ n \in Nat \ {0}
  BY <1>1, <1>2 DEF Path
<1>4. rel[n] = p[Len(p)]
  <2>1. n \in 1..Len(p) - Len(base) /\ Len(base) + n = Len(p)
    BY <1>2, <1>3
  <2> QED
    BY <1>2, <2>1
<1>5. /\ Len(dst \o rel) = Len(dst) + n
      /\ \A i \in 1..Len(dst) + n :
           (dst \o rel)[i] = IF i <= Len(dst) THEN dst[i] ELSE rel[i - Len(dst)]
  BY <1>2, ConcatProperties DEF Path
<1>6. (dst \o rel)[Len(dst) + n] = rel[n]
  <2>1. /\ Len(dst) + n \in 1..Len(dst) + n /\ ~(Len(dst) + n <= Len(dst))
        /\ Len(dst) + n - Len(dst) = n
    BY <1>3
  <2> QED
    BY <1>5, <2>1
<1>7. dst \o rel # dst
  BY <1>3, <1>5
<1>8. Base(dst \o rel) = Base(p)
  BY <1>4, <1>5, <1>6 DEF Base
<1> QED
  BY <1>7, <1>8 DEF rel

\* A destination is a path; for a file of a directory it is below dst.
LEMMA DestinationFacts ==
  ASSUME NEW p \in Path, NEW spec, NEW dst, dst.path \in Path,
         FromDir(spec) => spec.path \in Path /\ From(spec.path, p)
  PROVE  DestinationOf(p, spec, dst) \in Path
<1>0. Joined(dst.path, p) \in Path
  <2>1. CASE p = << >>
    BY <2>1 DEF Joined
  <2>2. CASE p # << >>
    <3>1. Base(p) \in STRING /\ dst.path \in Seq(STRING)
      BY <2>2, ParentFacts DEF Path
    <3>2. Append(dst.path, Base(p)) \in Seq(STRING)
      BY <3>1, AppendProperties
    <3> QED
      BY <2>2, <3>2 DEF Joined, Path
  <2> QED
    BY <2>1, <2>2
<1>1. FromDir(spec) => DestinationOf(p, spec, dst) \in Path
  <2>1. FromDir(spec) => dst.path \o Rel(spec.path, p) \in Path
    BY RelFacts, ConcatFacts
  <2> QED
    BY <1>0, <2>1 DEF DestinationOf, IsTree
<1> QED
  BY <1>0, <1>1 DEF DestinationOf, IsTree

\* A destination has the name of its source, or is the one that was given.
LEMMA DestinationName ==
  ASSUME NEW p \in Path, p # << >>, NEW spec, NEW dst, dst.path \in Path,
         FromDir(spec) => spec.path \in Path /\ Within(spec.path, p)
  PROVE  /\ IsTree(spec) \/ IntoDir(dst) =>
              /\ DestinationOf(p, spec, dst) # dst.path
              /\ Base(DestinationOf(p, spec, dst)) = Base(p)
         /\ ~(IsTree(spec) \/ IntoDir(dst)) =>
              DestinationOf(p, spec, dst) = dst.path
<1>1. CASE IsTree(spec)
  <2>1. DestinationOf(p, spec, dst) = dst.path \o Rel(spec.path, p)
    BY <1>1 DEF DestinationOf
  <2>2. spec.path \in Path /\ Within(spec.path, p)
    BY <1>1 DEF IsTree
  <2>3. /\ dst.path \o Rel(spec.path, p) # dst.path
        /\ Base(dst.path \o Rel(spec.path, p)) = Base(p)
    BY <2>2, RelName
  <2> QED
    BY <1>1, <2>1, <2>3
<1>2. CASE ~IsTree(spec) /\ IntoDir(dst)
  <2>1. DestinationOf(p, spec, dst) = Append(dst.path, Base(p))
    BY <1>2 DEF DestinationOf, Joined
  <2> QED
    <3>1. Base(p) \in STRING
      BY ParentFacts
    <3>2. /\ Append(dst.path, Base(p)) # dst.path
          /\ Base(Append(dst.path, Base(p))) = Base(p)
      BY <3>1, AppendName
    <3> QED
      BY <1>2, <2>1, <3>2
<1>3. CASE ~(IsTree(spec) \/ IntoDir(dst))
  BY <1>3 DEF DestinationOf
<1> QED
  BY <1>1, <1>2, <1>3

\* Below what is no directory there is nothing.
LEMMA NoneBelow ==
  ASSUME NEW p \in Path, p \notin Dirs, NEW f \in Path, f # << >>,
         Parent(f) \in Dirs, From(p, f)
  PROVE  p = f
<1> SUFFICES ASSUME p # f PROVE FALSE
  OBVIOUS
<1> DEFINE d == Parent(f)
<1>1. d \in Path /\ d \in Dirs /\ From(p, d)
  BY ParentFacts, ParentOrder
<1>2. p # d
  BY <1>1
<1> HIDE DEF d
<1>3. Within(p, d) /\ Len(p) \in Nat /\ Len(d) \in Nat
  BY <1>1, <1>2, WithinFacts DEF Path
<1>4. Len(p) \in 0..Len(d) /\ SubSeq(d, 1, Len(p)) = p
  BY <1>3 DEF Within
<1> QED
  BY <1>1, <1>4, ResolverAssumption

\* Where a file of a directory goes is below dst, as far below as it was.
LEMMA TreeDestination ==
  ASSUME NEW base \in Path, NEW p \in Path, NEW dst \in Path, Within(base, p)
  PROVE  /\ Within(dst, dst \o Rel(base, p))
         /\ Rel(dst, dst \o Rel(base, p)) = Rel(base, p)
<1>1. From(base, p) /\ Len(base) < Len(p) /\ Len(base) \in Nat /\ Len(p) \in Nat
  BY WithinFacts DEF Within, Path
<1>2. Rel(base, p) \in Path /\ Len(Rel(base, p)) = Len(p) - Len(base)
  BY <1>1, RelFacts
<1>3. Rel(base, p) # << >>
  BY <1>1, <1>2
<1> QED
  BY <1>2, <1>3, ConcatFacts

\* So two files of a directory do not go to one place.
LEMMA TreeInjective ==
  ASSUME NEW base \in Path, NEW p \in Path, NEW q \in Path, NEW dst \in Path,
         Within(base, p), Within(base, q),
         dst \o Rel(base, p) = dst \o Rel(base, q)
  PROVE  p = q
<1> DEFINE x == dst \o Rel(base, p)
           y == dst \o Rel(base, q)
<1>1. Rel(dst, x) = Rel(base, p) /\ Rel(dst, y) = Rel(base, q)
  BY TreeDestination
<1>2. x = y
  OBVIOUS
<1> HIDE DEF x, y
<1>3. Rel(base, p) = Rel(base, q)
  BY <1>1, <1>2
<1>4. From(base, p) /\ From(base, q)
  BY WithinFacts
<1> QED
  BY <1>3, <1>4, RelInjective

=============================================================================
