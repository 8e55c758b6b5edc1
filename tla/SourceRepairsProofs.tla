------------------------ MODULE SourceRepairsProofs ------------------------
(***************************************************************************)
(* Proofs about SourceRules and SourceRepairs, for every set of projects,  *)
(* nestings of any depth among them.                                       *)
(***************************************************************************)
EXTENDS SourceRepairs, FiniteSetTheorems, SequenceTheorems, WellFoundedInduction, TLAPS

-----------------------------------------------------------------------------
(* The scan for commits *)

\* A nonempty set of positions of a sequence has a last one.
LEMMA LastPosition ==
  ASSUME NEW n \in Nat, NEW S, S \subseteq 1 .. n, S # {}
  PROVE  \E s \in S : \A i \in S : i <= s
<1> DEFINE T == {n - i : i \in S}
<1>1. T \subseteq Nat
  <2>1. \A i \in S : n - i \in Nat
    OBVIOUS
  <2> QED
    BY <2>1
<1>2. T # {}
  <2>1. PICK i \in S : TRUE
    OBVIOUS
  <2>2. n - i \in T
    OBVIOUS
  <2> QED
    BY <2>2
<1>3. PICK Less : Less = {ss \in Nat \X Nat : ss[1] < ss[2]}
  OBVIOUS
<1>4. IsWellFoundedOn(Less, Nat)
  BY <1>3, NatLessThanWellFounded DEF OpToRel
<1>5. PICK x \in T : \A y \in T : ~(<<y, x>> \in Less)
  <2> HIDE DEF T
  <2> QED
    BY <1>1, <1>2, <1>4, WFMin
<1>6. \A y \in T : ~(y < x)
  <2> HIDE DEF T
  <2> QED
    BY <1>1, <1>3, <1>5
<1>7. PICK s \in S : x = n - s
  OBVIOUS
<1>8. \A i \in S : ~(n - i < n - s)
  BY <1>6, <1>7
<1> QED
  BY <1>8

\* The module or a function is the innermost around a commit, and the scans that
\* start anywhere else do not reach it.
LEMMA OneScanReaches ==
  ASSUME NEW c \in Commit
  PROVE  \E s \in Starts(c.chain) :
            /\ ReachedFrom(s, c.chain)
            /\ \A t \in Starts(c.chain) : ReachedFrom(t, c.chain) => t = s
<1> DEFINE n == Len(c.chain)
           Defs == {i \in 1 .. n : c.chain[i].kind = "def"}
<1>1. n \in Nat /\ DOMAIN c.chain = 1 .. n
  BY DEF Commit
<1>2. Starts(c.chain) = {0} \cup Defs
  BY <1>1 DEF Starts
<1>3. CASE Defs = {}
  <2>1. ReachedFrom(0, c.chain)
    BY <1>1, <1>3 DEF ReachedFrom
  <2> QED
    BY <2>1, <1>2, <1>3
<1>4. CASE Defs # {}
  <2>1. PICK s \in Defs : \A i \in Defs : i <= s
    <3> HIDE DEF n
    <3> QED
      BY <1>1, <1>4, LastPosition
  <2>2. ReachedFrom(s, c.chain)
    BY <1>1, <2>1 DEF ReachedFrom
  <2>3. ASSUME NEW t \in Starts(c.chain), ReachedFrom(t, c.chain)
        PROVE  t = s
    BY <1>1, <1>2, <2>1, <2>3 DEF ReachedFrom
  <2> QED
    BY <1>2, <2>1, <2>2, <2>3
<1> QED
  BY <1>3, <1>4

\* A scan that reaches a commit has open what contains the commit.
LEMMA OpenMeansEnclosed ==
  ASSUME NEW c \in Commit, NEW s \in Starts(c.chain), ReachedFrom(s, c.chain)
  PROVE  c.receiver \in OpenFrom(s, c.chain) <=> \E i \in DOMAIN c.chain : Encloses(i, c)
<1> DEFINE n == Len(c.chain)
<1>1. n \in Nat /\ DOMAIN c.chain = 1 .. n
  BY DEF Commit
<1>2. s \in Nat /\ (s # 0 => s \in DOMAIN c.chain /\ c.chain[s].kind = "def")
  BY <1>1 DEF Starts
<1>3. \A i \in DOMAIN c.chain : i > s => c.chain[i].kind # "def"
  BY DEF ReachedFrom
<1>4. c.receiver \in OpenFrom(s, c.chain) <=>
        \E i \in DOMAIN c.chain :
          i > s /\ c.chain[i].kind = "with" /\ c.receiver \in c.chain[i].opens
  BY DEF OpenFrom
<1>5. ASSUME NEW i \in DOMAIN c.chain, c.chain[i].kind = "with"
      PROVE  i > s <=> \A j \in DOMAIN c.chain : j > i => c.chain[j].kind # "def"
  <2>1. ASSUME i > s, NEW j \in DOMAIN c.chain, j > i
        PROVE  c.chain[j].kind # "def"
    BY <1>1, <1>2, <1>3, <2>1
  <2>2. ASSUME i <= s
        PROVE  ~ \A j \in DOMAIN c.chain : j > i => c.chain[j].kind # "def"
    BY <1>1, <1>2, <1>5, <2>2
  <2> QED
    BY <1>1, <1>2, <2>1, <2>2
<1> QED
  BY <1>4, <1>5 DEF Encloses

\* One scan reports a commit that nothing contains, and none any other.
LEMMA ReportsOnce ==
  ASSUME NEW c \in Commit
  PROVE  Cardinality(ScansThatReport(c)) =
           IF \E i \in DOMAIN c.chain : Encloses(i, c) THEN 0 ELSE 1
<1>1. PICK s \in Starts(c.chain) :
        /\ ReachedFrom(s, c.chain)
        /\ \A t \in Starts(c.chain) : ReachedFrom(t, c.chain) => t = s
  BY OneScanReaches
<1>2. ScansThatReport(c) = IF c.receiver \in OpenFrom(s, c.chain) THEN {} ELSE {s}
  BY <1>1 DEF ScansThatReport
<1>3. c.receiver \in OpenFrom(s, c.chain) <=> \E i \in DOMAIN c.chain : Encloses(i, c)
  BY <1>1, OpenMeansEnclosed
<1> QED
  BY <1>2, <1>3, FS_EmptySet, FS_Singleton

-----------------------------------------------------------------------------
(* Paths *)

IsSeq(s) == \E S : s \in Seq(S)

LEMMA SeqIsPath ==
  ASSUME NEW S, NEW s \in Seq(S), s # <<>>
  PROVE  IsPath(s)
<1>1. \A i \in 1 .. Len(s) : s[i] \in Range(s)
  BY DEF Range
<1>2. s = [i \in 1 .. Len(s) |-> s[i]] /\ Len(s) \in Nat
  OBVIOUS
<1>3. s \in [1 .. Len(s) -> Range(s)]
  BY <1>1, <1>2
<1> QED
  BY <1>2, <1>3 DEF IsPath

LEMMA PathIsSeq ==
  ASSUME NEW p, IsPath(p)
  PROVE  IsSeq(p) /\ Len(p) \in Nat /\ Len(p) > 0 /\ Len(p) \in DOMAIN p
<1>1. PICK S : S = Range(p)
  OBVIOUS
<1>2. p \in Seq(S) /\ p # <<>>
  BY <1>1 DEF IsPath
<1> QED
  BY <1>2 DEF IsSeq

LEMMA PrefixIs ==
  ASSUME NEW S, NEW s \in Seq(S), NEW t \in Seq(S)
  PROVE  /\ IsPrefix(s, t) <=> Len(s) <= Len(t) /\ \A i \in 1 .. Len(s) : s[i] = t[i]
         /\ IsStrictPrefix(s, t) <=> Len(s) < Len(t) /\ \A i \in 1 .. Len(s) : s[i] = t[i]
<1>1. SubSeq(s, 1, Len(s)) = s
  BY SubSeqFull
<1>2. Len(s) \in Nat /\ Len(t) \in Nat /\ 1 \in Int /\ Len(s) \in Int
  OBVIOUS
<1>3. IsPrefix(s, t) <=> Len(s) <= Len(t) /\ \A i \in 1 .. Len(s) : s[i] = t[i]
  <2> SUFFICES ASSUME Len(s) <= Len(t)
               PROVE  s = SubSeq(t, 1, Len(s)) <=> \A i \in 1 .. Len(s) : s[i] = t[i]
    BY <1>1 DEF IsPrefix
  <2>3. \A i \in 1 .. Len(s) : t[i] \in S
    BY <1>2
  <2> DEFINE u == SubSeq(t, 1, Len(s))
  <2>4. /\ u \in Seq(S)
        /\ Len(u) = Len(s)
        /\ \A i \in 1 .. Len(s) - 1 + 1 : u[i] = t[1 + i - 1]
    <3>1. Len(u) = IF 1 <= Len(s) THEN Len(s) - 1 + 1 ELSE 0
      BY <1>2, <2>3, SubSeqProperties
    <3> QED
      BY <1>2, <2>3, <3>1, SubSeqProperties
  <2>5. \A i \in 1 .. Len(s) : u[i] = t[i]
    BY <1>2, <2>4
  <2> HIDE DEF u
  <2> QED
    BY <2>4, <2>5, SeqEqual
<1>4. s = t <=> Len(s) = Len(t) /\ \A i \in 1 .. Len(s) : s[i] = t[i]
  BY SeqEqual
<1> QED
  BY <1>2, <1>3, <1>4 DEF IsStrictPrefix

\* Two sequences have their elements in one set.
LEMMA Compare ==
  ASSUME NEW s, NEW t, IsSeq(s), IsSeq(t)
  PROVE  /\ IsPrefix(s, t) <=> Len(s) <= Len(t) /\ \A i \in 1 .. Len(s) : s[i] = t[i]
         /\ IsStrictPrefix(s, t) <=> Len(s) < Len(t) /\ \A i \in 1 .. Len(s) : s[i] = t[i]
<1>1. PICK S : s \in Seq(S)
  BY DEF IsSeq
<1>2. PICK T : t \in Seq(T)
  BY DEF IsSeq
<1>3. s \in Seq(S \cup T) /\ t \in Seq(S \cup T)
  BY <1>1, <1>2
<1> QED
  BY <1>3, PrefixIs

LEMMA PathOfOne ==
  ASSUME NEW a
  PROVE  IsPath(<<a>>) /\ Len(<<a>>) = 1 /\ <<a>>[1] = a
<1>1. <<a>> \in Seq({a}) /\ <<a>> # <<>>
  OBVIOUS
<1> QED
  BY <1>1, SeqIsPath

LEMMA PathOfTwo ==
  ASSUME NEW a, NEW b
  PROVE  IsPath(<<a, b>>) /\ Len(<<a, b>>) = 2 /\ <<a, b>>[1] = a /\ <<a, b>>[2] = b
<1>1. <<a, b>> \in Seq({a, b}) /\ <<a, b>> # <<>>
  OBVIOUS
<1> QED
  BY <1>1, SeqIsPath

LEMMA PathOfThree ==
  ASSUME NEW a, NEW b, NEW c
  PROVE  /\ IsPath(<<a, b, c>>) /\ Len(<<a, b, c>>) = 3
         /\ <<a, b, c>>[1] = a /\ <<a, b, c>>[2] = b /\ <<a, b, c>>[3] = c
<1>1. <<a, b, c>> \in Seq({a, b, c}) /\ <<a, b, c>> # <<>>
  OBVIOUS
<1> QED
  BY <1>1, SeqIsPath

LEMMA Ranges == 1 .. 1 = {1} /\ 1 .. 2 = {1, 2} /\ 1 .. 3 = {1, 2, 3}
OBVIOUS

\* A file below a directory.
LEMMA BelowOne ==
  ASSUME NEW p, IsPath(p), NEW a
  PROVE  /\ IsStrictPrefix(<<a>>, p) <=> Len(p) > 1 /\ p[1] = a
         /\ IsPrefix(<<a>>, p) <=> p[1] = a
BY PathOfOne, PathIsSeq, Compare, Ranges

LEMMA BelowTwo ==
  ASSUME NEW p, IsPath(p), NEW a, NEW b
  PROVE  IsStrictPrefix(<<a, b>>, p) <=> Len(p) > 2 /\ p[1] = a /\ p[2] = b
<1>1. /\ IsSeq(<<a, b>>) /\ Len(<<a, b>>) = 2 /\ <<a, b>>[1] = a /\ <<a, b>>[2] = b
  BY PathOfTwo, PathIsSeq
<1>2. IsStrictPrefix(<<a, b>>, p) <=>
        2 < Len(p) /\ \A i \in 1 .. 2 : <<a, b>>[i] = p[i]
  BY <1>1, PathIsSeq, Compare
<1> QED
  BY <1>1, <1>2, PathIsSeq, Ranges

LEMMA BelowThree ==
  ASSUME NEW p, IsPath(p), NEW a, NEW b, NEW c
  PROVE  IsStrictPrefix(<<a, b, c>>, p) <=> Len(p) > 3 /\ p[1] = a /\ p[2] = b /\ p[3] = c
<1>1. /\ IsSeq(<<a, b, c>>) /\ Len(<<a, b, c>>) = 3
      /\ <<a, b, c>>[1] = a /\ <<a, b, c>>[2] = b /\ <<a, b, c>>[3] = c
  BY PathOfThree, PathIsSeq
<1>2. IsStrictPrefix(<<a, b, c>>, p) <=>
        3 < Len(p) /\ \A i \in 1 .. 3 : <<a, b, c>>[i] = p[i]
  BY <1>1, PathIsSeq, Compare
<1> QED
  BY <1>1, <1>2, PathIsSeq, Ranges

\* What lies below a directory lies within it.
LEMMA BelowIsWithin ==
  ASSUME NEW d, NEW p, IsSeq(d), IsSeq(p), IsStrictPrefix(d, p)
  PROVE  Within(p, d)
BY DEF IsStrictPrefix, Within

LEMMA WithinItself == ASSUME NEW p, IsPath(p) PROVE Within(p, p)
BY PathIsSeq, Compare DEF Within

\* A file directly in a directory has its name after the directory's.
LEMMA FrontIs ==
  ASSUME NEW p, IsPath(p)
  PROVE  /\ IsSeq(Front(p)) /\ Len(Front(p)) = Len(p) - 1
         /\ \A i \in 1 .. Len(p) - 1 : Front(p)[i] = p[i]
<1>1. PICK S : p \in Seq(S)
  BY PathIsSeq DEF IsSeq
<1>2. Len(p) \in Nat /\ Len(p) > 0 /\ 1 \in Int /\ Len(p) - 1 \in Int
  BY PathIsSeq
<1>3. \A i \in 1 .. Len(p) - 1 : p[i] \in S
  BY <1>1, <1>2
<1> DEFINE n == Len(p) - 1
           u == SubSeq(p, 1, n)
<1>4. n \in Nat /\ \A i \in 1 .. n : p[i] \in S
  BY <1>2, <1>3
<1> HIDE DEF n
<1>5. /\ u \in Seq(S)
      /\ Len(u) = IF 1 <= n THEN n - 1 + 1 ELSE 0
      /\ \A i \in 1 .. n - 1 + 1 : u[i] = p[1 + i - 1]
  BY <1>2, <1>4, SubSeqProperties
<1>6. u \in Seq(S) /\ Len(u) = n /\ \A i \in 1 .. n : u[i] = p[i]
  BY <1>4, <1>5
<1> HIDE DEF u
<1>7. IsSeq(u) /\ Len(u) = n /\ \A i \in 1 .. n : u[i] = p[i]
  BY <1>6 DEF IsSeq
<1> QED
  BY <1>7 DEF u, n, Front

\* A path with one more name.
LEMMA Appending ==
  ASSUME NEW d, IsSeq(d), NEW a
  PROVE  /\ IsPath(Append(d, a)) /\ Len(Append(d, a)) = Len(d) + 1 /\ Last(Append(d, a)) = a
         /\ \A i \in 1 .. Len(d) : Append(d, a)[i] = d[i]
<1>1. PICK S : d \in Seq(S)
  BY DEF IsSeq
<1>2. PICK T : T = S \cup {a}
  OBVIOUS
<1>3. d \in Seq(T) /\ a \in T
  BY <1>1, <1>2
<1>4. /\ Append(d, a) \in Seq(T) /\ Append(d, a) # <<>>
      /\ Len(Append(d, a)) = Len(d) + 1 /\ Append(d, a)[Len(d) + 1] = a
      /\ \A i \in 1 .. Len(d) : Append(d, a)[i] = d[i]
  BY <1>3, AppendProperties
<1> QED
  BY <1>4, SeqIsPath DEF Last

LEMMA Joining ==
  ASSUME NEW d, IsSeq(d), NEW e, IsSeq(e)
  PROVE  /\ IsSeq(d \o e) /\ Len(d \o e) = Len(d) + Len(e)
         /\ \A i \in 1 .. Len(d) : (d \o e)[i] = d[i]
         /\ Len(e) > 0 => IsPath(d \o e)
<1>1. PICK S : d \in Seq(S)
  BY DEF IsSeq
<1>2. PICK T : e \in Seq(T)
  BY DEF IsSeq
<1>3. d \in Seq(S \cup T) /\ e \in Seq(S \cup T)
  BY <1>1, <1>2
<1>4. /\ d \o e \in Seq(S \cup T)
      /\ Len(d \o e) = Len(d) + Len(e)
      /\ \A i \in 1 .. Len(d) + Len(e) :
           (d \o e)[i] = IF i <= Len(d) THEN d[i] ELSE e[i - Len(d)]
  BY <1>3, ConcatProperties
<1>5. \A i \in 1 .. Len(d) : (d \o e)[i] = d[i]
  BY <1>3, <1>4
<1>6. Len(e) > 0 => d \o e # <<>>
  BY <1>3, <1>4
<1>7. Len(e) > 0 => IsPath(d \o e)
  BY <1>4, <1>6, SeqIsPath
<1> QED
  BY <1>4, <1>5, <1>7 DEF IsSeq

LEMMA Slicing ==
  ASSUME NEW d, IsSeq(d), NEW i \in Nat \ {0}
  PROVE  IsSeq(SubSeq(d, i, Len(d))) /\ Len(SubSeq(d, i, Len(d))) =
           IF i <= Len(d) THEN Len(d) - i + 1 ELSE 0
<1>1. PICK S : d \in Seq(S)
  BY DEF IsSeq
<1>2. \A j \in i .. Len(d) : d[j] \in S
  BY <1>1
<1>3. i \in Int /\ Len(d) \in Int
  BY <1>1
<1> QED
  BY <1>2, <1>3, SubSeqProperties DEF IsSeq

\* The directories of a module, of which a path has the first two names.
LEMMA ModuleOfIs ==
  ASSUME NEW p
  PROVE  ModuleOf(p) = <<p[1], p[2]>>
<1>1. PICK S : S = {p[1], p[2]}
  OBVIOUS
<1>2. \A i \in 1 .. 2 : p[i] \in S
  BY <1>1, Ranges
<1>3. /\ SubSeq(p, 1, 2) \in Seq(S) /\ Len(SubSeq(p, 1, 2)) = 2
      /\ \A i \in 1 .. 2 - 1 + 1 : SubSeq(p, 1, 2)[i] = p[1 + i - 1]
  BY <1>2, SubSeqProperties
<1>4. <<p[1], p[2]>> \in Seq(S)
  BY <1>1
<1>5. \A i \in 1 .. 2 : SubSeq(p, 1, 2)[i] = <<p[1], p[2]>>[i]
  BY <1>3, Ranges
<1> QED
  BY <1>3, <1>4, <1>5, SeqEqual DEF ModuleOf

LEMMA AppendToTwo ==
  ASSUME NEW a, NEW b, NEW c
  PROVE  Append(<<a, b>>, c) = <<a, b, c>>
<1>1. PICK S : S = {a, b, c}
  OBVIOUS
<1>2. <<a, b>> \in Seq(S) /\ c \in S /\ <<a, b, c>> \in Seq(S)
  BY <1>1
<1>3. /\ Append(<<a, b>>, c) \in Seq(S) /\ Len(Append(<<a, b>>, c)) = 3
      /\ \A i \in 1 .. 3 : Append(<<a, b>>, c)[i] = <<a, b, c>>[i]
  BY <1>2, AppendProperties
<1> QED
  BY <1>2, <1>3, SeqEqual

LEMMA AppendToThree ==
  ASSUME NEW a, NEW b, NEW c, NEW d
  PROVE  Append(<<a, b, c>>, d) = <<a, b, c, d>>
<1>1. PICK S : S = {a, b, c, d}
  OBVIOUS
<1>2. <<a, b, c>> \in Seq(S) /\ d \in S /\ <<a, b, c, d>> \in Seq(S)
  BY <1>1
<1>3. /\ Append(<<a, b, c>>, d) \in Seq(S) /\ Len(Append(<<a, b, c>>, d)) = 4
      /\ \A i \in 1 .. 4 : Append(<<a, b, c>>, d)[i] = <<a, b, c, d>>[i]
  BY <1>2, AppendProperties
<1> QED
  BY <1>2, <1>3, SeqEqual

LEMMA AppendToFour ==
  ASSUME NEW a, NEW b, NEW c, NEW d, NEW e
  PROVE  Append(<<a, b, c, d>>, e) = <<a, b, c, d, e>>
<1>1. PICK S : S = {a, b, c, d, e}
  OBVIOUS
<1>2. <<a, b, c, d>> \in Seq(S) /\ e \in S /\ <<a, b, c, d, e>> \in Seq(S)
  BY <1>1
<1>3. /\ Append(<<a, b, c, d>>, e) \in Seq(S) /\ Len(Append(<<a, b, c, d>>, e)) = 5
      /\ \A i \in 1 .. 5 : Append(<<a, b, c, d>>, e)[i] = <<a, b, c, d, e>>[i]
  BY <1>2, AppendProperties
<1> QED
  BY <1>2, <1>3, SeqEqual

\* Joining names is appending them.
LEMMA JoinOne ==
  ASSUME NEW S, NEW s \in Seq(S), NEW a
  PROVE  s \o <<a>> = Append(s, a)
<1>1. PICK T : T = S \cup {a}
  OBVIOUS
<1> QED
  BY <1>1, AppendIsConcat

LEMMA JoinTwo ==
  ASSUME NEW S, NEW s \in Seq(S), NEW a, NEW b
  PROVE  s \o <<a, b>> = Append(Append(s, a), b)
<1>1. PICK T : T = S \cup {a, b}
  OBVIOUS
<1>2. s \in Seq(T) /\ a \in T /\ b \in T /\ <<a>> \in Seq(T) /\ <<b>> \in Seq(T)
  BY <1>1
<1>3. <<a, b>> \in Seq(T) /\ <<a>> \o <<b>> \in Seq(T) /\ Len(<<a>> \o <<b>>) = 2
      /\ \A i \in 1 .. 2 : (<<a>> \o <<b>>)[i] = <<a, b>>[i]
  BY <1>2, ConcatProperties
<1>4. <<a>> \o <<b>> = <<a, b>>
  BY <1>3, SeqEqual
<1>5. s \o (<<a>> \o <<b>>) = (s \o <<a>>) \o <<b>>
  BY <1>2, ConcatAssociative
<1>6. s \o <<a>> = Append(s, a) /\ Append(s, a) \in Seq(T)
  BY <1>2, AppendIsConcat, AppendProperties
<1> QED
  BY <1>2, <1>4, <1>5, <1>6, AppendIsConcat

LEMMA DirsOfModule ==
  ASSUME NEW c, NEW n
  PROVE  /\ DomainDir(<<c, n>>) = <<c, n, "domain">>
         /\ ModelDir(<<c, n>>) = <<c, n, "domain", "model">>
         /\ \A a : Append(<<c, n>>, a) = <<c, n, a>>
         /\ \A a : Append(ModelDir(<<c, n>>), a) = <<c, n, "domain", "model", a>>
         /\ \A a : Append(DomainDir(<<c, n>>), a) = <<c, n, "domain", a>>
         /\ \A a, b : <<c, n>> \o <<a, b>> = <<c, n, a, b>>
         /\ \A a, b : DomainDir(<<c, n>>) \o <<a, b>> = <<c, n, "domain", a, b>>
<1>1. PICK S, T : <<c, n>> \in Seq(S) /\ <<c, n, "domain">> \in Seq(T)
  BY PathOfTwo, PathOfThree, PathIsSeq DEF IsSeq
<1>2. DomainDir(<<c, n>>) = <<c, n, "domain">>
  BY <1>1, JoinOne, AppendToTwo DEF DomainDir
<1>3. ASSUME NEW a, NEW b PROVE <<c, n>> \o <<a, b>> = <<c, n, a, b>>
  <2>1. <<c, n>> \o <<a, b>> = Append(Append(<<c, n>>, a), b)
    BY <1>1, JoinTwo
  <2>2. Append(<<c, n>>, a) = <<c, n, a>>
    BY AppendToTwo
  <2>3. Append(<<c, n, a>>, b) = <<c, n, a, b>>
    BY AppendToThree
  <2> QED
    BY <2>1, <2>2, <2>3, Zenon
<1>4. ModelDir(<<c, n>>) = <<c, n, "domain", "model">>
  BY <1>3 DEF ModelDir
<1>5. ASSUME NEW a, NEW b PROVE <<c, n, "domain">> \o <<a, b>> = <<c, n, "domain", a, b>>
  <2>1. <<c, n, "domain">> \o <<a, b>> = Append(Append(<<c, n, "domain">>, a), b)
    BY <1>1, JoinTwo
  <2>2. Append(<<c, n, "domain">>, a) = <<c, n, "domain", a>>
    BY AppendToThree
  <2>3. Append(<<c, n, "domain", a>>, b) = <<c, n, "domain", a, b>>
    BY AppendToFour
  <2> QED
    BY <2>1, <2>2, <2>3, Zenon
<1>6. \A a : Append(<<c, n>>, a) = <<c, n, a>>
  BY AppendToTwo
<1>7. \A a : Append(<<c, n, "domain">>, a) = <<c, n, "domain", a>>
  BY AppendToThree
<1>8. \A a : Append(<<c, n, "domain", "model">>, a) = <<c, n, "domain", "model", a>>
  BY AppendToFour
<1> QED
  BY <1>2, <1>3, <1>4, <1>5, <1>6, <1>7, <1>8

-----------------------------------------------------------------------------
(* Files *)

LEMMA FieldNames ==
  ASSUME NEW path
  PROVE  DOMAIN Blank(path) = {"path", "marks", "classes", "queries", "commits", "uses"}
BY DEF Blank

\* A file has the fields of a file.
LEMMA HasFields ==
  ASSUME NEW f, IsFile(f)
  PROVE  /\ DOMAIN f = DOMAIN Blank(<<>>)
         /\ "path" \in DOMAIN f /\ "marks" \in DOMAIN f /\ "classes" \in DOMAIN f
         /\ "queries" \in DOMAIN f /\ "commits" \in DOMAIN f /\ "uses" \in DOMAIN f
BY FieldNames DEF IsFile

LEMMA BlankIsFile ==
  ASSUME NEW path, IsPath(path)
  PROVE  IsFile(Blank(path)) /\ Blank(path).path = path /\ Blank(path).marks = {}
<1>1. DOMAIN Blank(path) = DOMAIN Blank(<<>>)
  BY FieldNames
<1>2. HasCommits(Blank(path))
  BY DEF Blank, HasCommits
<1>3. Blank(path).path = path /\ Blank(path).marks = {}
  BY DEF Blank
<1> QED
  BY <1>1, <1>2, <1>3 DEF IsFile

\* A file with another path.
LEMMA Elsewhere ==
  ASSUME NEW f, IsFile(f), NEW path, IsPath(path)
  PROVE  LET g == [f EXCEPT !.path = path]
         IN  IsFile(g) /\ g.path = path /\ g.marks = f.marks
BY HasFields DEF IsFile, HasCommits

\* A file with other text that is no less sound.
LEMMA Rewritten ==
  ASSUME NEW f, IsFile(f), NEW v
  PROVE  /\ v \subseteq f.marks =>
              LET g == [f EXCEPT !.marks = v]
              IN  IsFile(g) /\ g.path = f.path /\ g.marks = v
         /\ LET g == [f EXCEPT !.queries = v]
            IN  IsFile(g) /\ g.path = f.path /\ g.marks = f.marks
         /\ LET g == [f EXCEPT !.classes = v]
            IN  IsFile(g) /\ g.path = f.path /\ g.marks = f.marks
         /\ LET g == [f EXCEPT !.uses = v]
            IN  IsFile(g) /\ g.path = f.path /\ g.marks = f.marks
         /\ v \subseteq Commit =>
              LET g == [f EXCEPT !.commits = v]
              IN  IsFile(g) /\ g.path = f.path /\ g.marks = f.marks
BY HasFields DEF IsFile, HasCommits

\* A file is at every path written to, with what is marked in the files there, and
\* at every path kept.
LEMMA MergedIs ==
  ASSUME NEW old, NEW new
  PROVE  /\ \A h \in Merged(old, new) :
              /\ \E f \in old \cup new : f.path = h.path
              /\ \A rule \in h.marks :
                   \E f \in old \cup new : f.path = h.path /\ rule \in f.marks
         /\ \A f \in old \cup new : \E h \in Merged(old, new) : h.path = f.path
<1> DEFINE paths == {f.path : f \in new}
           same(path) == {f \in old \cup new : f.path = path}
           merge(path) == [path |-> path,
                           marks |-> UNION {f.marks : f \in same(path)},
                           classes |-> UNION {f.classes : f \in same(path)},
                           queries |-> UNION {f.queries : f \in same(path)},
                           commits |-> UNION {f.commits : f \in same(path)},
                           uses |-> UNION {f.uses : f \in same(path)}]
<1>1. Merged(old, new) = {f \in old : f.path \notin paths} \cup {merge(path) : path \in paths}
  BY DEF Merged
<1>2. \A path : merge(path).path = path /\ merge(path).marks = UNION {f.marks : f \in same(path)}
  OBVIOUS
<1> HIDE DEF merge
<1>3. ASSUME NEW h \in Merged(old, new)
      PROVE  /\ \E f \in old \cup new : f.path = h.path
             /\ \A rule \in h.marks :
                  \E f \in old \cup new : f.path = h.path /\ rule \in f.marks
  BY <1>1, <1>2
<1>4. ASSUME NEW f \in old \cup new
      PROVE  \E h \in Merged(old, new) : h.path = f.path
  BY <1>1, <1>2
<1> QED
  BY <1>3, <1>4

LEMMA MergedFiles ==
  ASSUME NEW old, NEW new, \A f \in old \cup new : IsFile(f),
         \A f, g \in old : f.path = g.path => f = g
  PROVE  AreFiles(Merged(old, new))
<1> DEFINE paths == {f.path : f \in new}
           same(path) == {f \in old \cup new : f.path = path}
           merge(path) == [path |-> path,
                           marks |-> UNION {f.marks : f \in same(path)},
                           classes |-> UNION {f.classes : f \in same(path)},
                           queries |-> UNION {f.queries : f \in same(path)},
                           commits |-> UNION {f.commits : f \in same(path)},
                           uses |-> UNION {f.uses : f \in same(path)}]
<1>1. Merged(old, new) = {f \in old : f.path \notin paths} \cup {merge(path) : path \in paths}
  BY DEF Merged
<1>2. \A path : merge(path).path = path
  OBVIOUS
<1>3. ASSUME NEW path \in paths PROVE IsFile(merge(path))
  <2>1. DOMAIN merge(path) = DOMAIN Blank(<<>>)
    BY FieldNames
  <2>2. IsPath(path)
    BY DEF IsFile
  <2>3. \A f \in same(path) : f.marks \subseteq Rules \cup {"service", "mutates"}
    BY DEF IsFile
  <2>4. \A f \in same(path) : f.commits \subseteq Commit
    BY DEF IsFile, HasCommits
  <2>5. merge(path).marks \subseteq Rules \cup {"service", "mutates"}
    BY <2>3
  <2>6. HasCommits(merge(path))
    BY <2>4 DEF HasCommits
  <2> HIDE DEF merge
  <2> QED
    BY <1>2, <2>1, <2>2, <2>5, <2>6 DEF IsFile
<1> HIDE DEF merge
<1>4. \A h \in Merged(old, new) : IsFile(h)
  BY <1>1, <1>3
<1>5. \A g, h \in Merged(old, new) : g.path = h.path => g = h
  BY <1>1, <1>2
<1> QED
  BY <1>4, <1>5 DEF AreFiles

\* Who imports what moved imports it where it is.
LEMMA RenamedFiles ==
  ASSUME NEW files, AreFiles(files), NEW moves
  PROVE  AreFiles({[f EXCEPT !.uses = Renamed(@, moves)] : f \in files})
<1> DEFINE renamed(f) == [f EXCEPT !.uses = Renamed(@, moves)]
<1>1. \A f \in files : IsFile(renamed(f)) /\ renamed(f).path = f.path
  BY Rewritten DEF AreFiles
<1> HIDE DEF renamed
<1>2. AreFiles({renamed(f) : f \in files})
  BY <1>1 DEF AreFiles
<1> QED
  BY <1>2 DEF renamed

Typed == AreFiles(sources) /\ AreFiles(tests)

LEMMA EditKeepsTypes ==
  ASSUME Typed, NEW gone, NEW new, NEW moves, \A f \in new : IsFile(f),
         Edit(gone, new, moves)
  PROVE  Typed'
<1> DEFINE merged == Merged(sources \ gone, new)
<1>1. AreFiles(merged)
  <2>1. \A f \in (sources \ gone) \cup new : IsFile(f)
    BY DEF Typed, AreFiles
  <2>2. \A f, g \in sources \ gone : f.path = g.path => f = g
    BY DEF Typed, AreFiles
  <2> QED
    BY <2>1, <2>2, MergedFiles
<1> HIDE DEF merged
<1>2. /\ sources' = {[f EXCEPT !.uses = Renamed(@, moves)] : f \in merged}
      /\ tests' = {[t EXCEPT !.uses = Renamed(@, moves)] : t \in tests}
  BY DEF Edit, merged
<1>3. AreFiles({[f EXCEPT !.uses = Renamed(@, moves)] : f \in merged})
  BY <1>1, RenamedFiles
<1>4. AreFiles({[t EXCEPT !.uses = Renamed(@, moves)] : t \in tests})
  BY RenamedFiles DEF Typed
<1> QED
  BY <1>2, <1>3, <1>4, Zenon DEF Typed

-----------------------------------------------------------------------------
(* Findings *)

LEMMA MarkedIs ==
  ASSUME NEW rules, NEW files, NEW rule, NEW place
  PROVE  <<rule, place>> \in Marked(rules, files) <=>
           rule \in rules /\ \E f \in files : rule \in f.marks /\ place = f.path
BY DEF Marked

LEMMA IterModulesIs ==
  ASSUME NEW m
  PROVE  m \in IterModules <=> \E c \in Contexts : \E n \in Modules(c) : m = <<c, n>>
BY DEF IterModules

LEMMA NamesAre ==
  /\ \A c \in Contexts : c \notin NonContextDirs
  /\ \A c : \A n \in Modules(c) : n \notin Reserved
BY DEF Contexts, Modules

\* The findings of a module.
FoundIn(m, rule, place) ==
  \/ rule \in Inward /\ \E f \in Under(DomainDir(m)) : place = f.path
  \/ /\ rule \in {"ARCH-053", "ARCH-030", "ARCH-033"}
     /\ \E f \in ApplicationFiles(m) : place = f.path
  \/ /\ rule \in {"ARCH-018", "ARCH-019", "ARCH-041"}
     /\ \E f \in AggregateFiles(m) : place = f.path
  \/ /\ rule \in {"ARCH-023", "ARCH-031", "ARCH-041", "ARCH-051"}
     /\ \E stem \in {"events", "value_objects", "ports"} :
        \E f \in ModelFile(m, stem) : place = f.path
  \/ rule = "ARCH-049" /\ place = ModelDir(m)
  \/ rule = "ARCH-048" /\ place = Append(m, "infrastructure") /\ IsDir(place)
  \/ /\ rule = "ARCH-054"
     /\ \/ \E f \in sources : place = f.path /\ place = Append(DomainDir(m), "services")
        \/ \E f \in Services(m) : place = f.path

LEMMA FoundInModule ==
  ASSUME NEW m, NEW rule, NEW place, <<rule, place>> \in ModuleFindings(m)
  PROVE  FoundIn(m, rule, place)
<1>1. CASE <<rule, place>> \in BannedSymbols(Under(DomainDir(m)), ApplicationFiles(m))
  BY <1>1, MarkedIs DEF BannedSymbols, FoundIn, Inward
<1>2. CASE <<rule, place>> \in DomainEvents(m) \cup ValueObjects(m)
  BY <1>2, MarkedIs DEF DomainEvents, ValueObjects, FoundIn
<1>3. CASE <<rule, place>> \in AggregateEncapsulation(m) \cup ServiceSize(m)
  BY <1>3, MarkedIs DEF AggregateEncapsulation, ServiceSize, FoundIn
<1>4. CASE <<rule, place>> \in PromotionThresholds(m)
  BY <1>4, MarkedIs DEF PromotionThresholds, FoundIn
<1>5. CASE <<rule, place>> \in UnitOfWorkCommit(m)
  BY <1>5 DEF UnitOfWorkCommit, FoundIn
<1>6. CASE <<rule, place>> \in OneAggregatePerModule(m)
  BY <1>6 DEF OneAggregatePerModule, FoundIn
<1>7. CASE <<rule, place>> \in NoLegacyAdaptersLayer(m)
  BY <1>7 DEF NoLegacyAdaptersLayer, FoundIn
<1>8. CASE <<rule, place>> \in RepositoriesAreNotQueries(m)
  BY <1>8 DEF RepositoriesAreNotQueries, FoundIn
<1>9. CASE <<rule, place>> \in DomainServicesLocation(m)
  <2>1. CASE Append(DomainDir(m), "services") \in Paths
    BY <1>9, <2>1 DEF DomainServicesLocation, FoundIn, Paths
  <2>2. CASE Append(DomainDir(m), "services") \notin Paths
    BY <1>9, <2>2 DEF DomainServicesLocation, FoundIn
  <2> QED
    BY <2>1, <2>2
<1> QED
  BY <1>1, <1>2, <1>3, <1>4, <1>5, <1>6, <1>7, <1>8, <1>9 DEF ModuleFindings

\* The findings outside of modules.
FoundOutside(rule, place) ==
  \/ rule \in Inward \cup {"ARCH-047"} /\ \E f \in CommonsFiles : place = f.path
  \/ rule = "ARCH-048" /\ IsDir(place) /\ \E c \in Contexts : place = <<c, "application">>
  \/ rule = "ARCH-055" /\ place \in PackagesWithoutInit \cup InitFilesOfPortions
  \/ /\ rule = "ARCH-056"
     /\ \E c \in Contexts : \E f \in Under(<<c, "entrypoints">>) :
          place = f.path /\ Cardinality(Touched(c, f)) > 1
  \/ rule = "ARCH-059" /\ \E f \in Under(<<"bootstrap">>) : place = f.path
  \/ rule \in {"ARCH-040", "ARCH-058"} /\ \E t \in tests : place = t.path

LEMMA Found ==
  ASSUME NEW rule, NEW place, <<rule, place>> \in Findings
  PROVE  (\E m \in IterModules : FoundIn(m, rule, place)) \/ FoundOutside(rule, place)
<1>1. CASE \E m \in IterModules : <<rule, place>> \in ModuleFindings(m)
  BY <1>1, FoundInModule
<1>2. CASE <<rule, place>> \in BannedSymbols(CommonsFiles, {})
  BY <1>2, MarkedIs DEF BannedSymbols, FoundOutside, Inward
<1>3. CASE <<rule, place>> \in CommonsIsLimited
  BY <1>3 DEF CommonsIsLimited, FoundOutside
<1>4. CASE <<rule, place>> \in NoContextApplication
  BY <1>4 DEF NoContextApplication, FoundOutside
<1>5. CASE <<rule, place>> \in InitFilesPresent
  BY <1>5 DEF InitFilesPresent, FoundOutside
<1>6. CASE <<rule, place>> \in EntrypointSingleAggregate
  <2> DEFINE wide(c) == {g \in Under(<<c, "entrypoints">>) :
                           Stem(g) # "__init__" /\ Cardinality(Touched(c, g)) > 1}
  <2>1. EntrypointSingleAggregate = UNION {{<<"ARCH-056", f.path>> : f \in wide(c)} : c \in Contexts}
    BY DEF EntrypointSingleAggregate
  <2>2. PICK c \in Contexts : \E f \in wide(c) : <<rule, place>> = <<"ARCH-056", f.path>>
    BY <1>6, <2>1
  <2> QED
    BY <2>2 DEF FoundOutside
<1>7. CASE <<rule, place>> \in BootstrapNoAdapters
  BY <1>7, MarkedIs DEF BootstrapNoAdapters, FoundOutside
<1>8. CASE <<rule, place>> \in TestNaming \cup TestMirrorsSource
  BY <1>8, MarkedIs DEF TestNaming, TestMirrorsSource, ScannedTests, FoundOutside
<1> DEFINE ofModules == UNION {ModuleFindings(m) : m \in IterModules}
<1>9. <<rule, place>> \in ofModules
        \cup BannedSymbols(CommonsFiles, {}) \cup CommonsIsLimited
        \cup NoContextApplication \cup InitFilesPresent
        \cup EntrypointSingleAggregate \cup BootstrapNoAdapters
        \cup TestNaming \cup TestMirrorsSource
  BY DEF Findings
<1>10. <<rule, place>> \in ofModules => \E m \in IterModules : <<rule, place>> \in ModuleFindings(m)
  OBVIOUS
<1> HIDE DEF ofModules
<1> QED
  BY <1>1, <1>2, <1>3, <1>4, <1>5, <1>6, <1>7, <1>8, <1>9, <1>10

-----------------------------------------------------------------------------
(* Where files are *)

LEMMA SourceIs ==
  ASSUME Typed, NEW f \in sources
  PROVE  IsFile(f) /\ IsPath(f.path) /\ Len(f.path) \in Nat /\ Len(f.path) > 0
BY PathIsSeq DEF Typed, AreFiles, IsFile

LEMMA TestIs ==
  ASSUME Typed, NEW t \in tests
  PROVE  IsFile(t) /\ IsPath(t.path)
BY DEF Typed, AreFiles, IsFile

LEMMA BelowLayer ==
  ASSUME Typed, NEW f \in sources, NEW c, NEW n, NEW layer
  PROVE  f \in Under(<<c, n, layer>>) <=>
           Len(f.path) > 3 /\ f.path[1] = c /\ f.path[2] = n /\ f.path[3] = layer
BY SourceIs, BelowThree DEF Under

\* A path that is a sequence of five names, and one directly in a directory of four.
LEMMA PathOfFive ==
  ASSUME NEW p, IsPath(p), NEW a, NEW b, NEW c, NEW d, NEW e
  PROVE  p = <<a, b, c, d, e>> <=>
           Len(p) = 5 /\ p[1] = a /\ p[2] = b /\ p[3] = c /\ p[4] = d /\ p[5] = e
<1>1. PICK S : p \in Seq(S)
  BY PathIsSeq DEF IsSeq
<1>2. PICK T : T = S \cup {a, b, c, d, e}
  OBVIOUS
<1> DEFINE q == <<a, b, c, d, e>>
<1>3. p \in Seq(T) /\ q \in Seq(T)
  BY <1>1, <1>2
<1>4. Len(q) = 5 /\ q[1] = a /\ q[2] = b /\ q[3] = c /\ q[4] = d /\ q[5] = e
  OBVIOUS
<1> HIDE DEF q
<1>5. ASSUME Len(p) = 5, p[1] = a, p[2] = b, p[3] = c, p[4] = d, p[5] = e
      PROVE  p = q
  <2>1. \A i \in 1 .. 5 : p[i] = q[i]
    BY <1>4, <1>5
  <2> QED
    BY <1>3, <1>4, <1>5, <2>1, SeqEqual
<1>6. p = q <=> Len(p) = 5 /\ p[1] = a /\ p[2] = b /\ p[3] = c /\ p[4] = d /\ p[5] = e
  BY <1>4, <1>5
<1> QED
  BY <1>6 DEF q

LEMMA DirectlyInFour ==
  ASSUME NEW p, IsPath(p), NEW a, NEW b, NEW c, NEW d
  PROVE  Front(p) = <<a, b, c, d>> <=>
           Len(p) = 5 /\ p[1] = a /\ p[2] = b /\ p[3] = c /\ p[4] = d
<1>1. PICK S : Front(p) \in Seq(S)
  BY FrontIs DEF IsSeq
<1>2. PICK T : T = S \cup {a, b, c, d}
  OBVIOUS
<1> DEFINE q == <<a, b, c, d>>
<1>3. Front(p) \in Seq(T) /\ q \in Seq(T)
  BY <1>1, <1>2
<1>4. Len(q) = 4 /\ q[1] = a /\ q[2] = b /\ q[3] = c /\ q[4] = d
  OBVIOUS
<1>5. Len(Front(p)) = Len(p) - 1 /\ Len(p) \in Nat /\ \A i \in 1 .. Len(p) - 1 : Front(p)[i] = p[i]
  BY FrontIs, PathIsSeq
<1> HIDE DEF q
<1>6. ASSUME Len(p) = 5, p[1] = a, p[2] = b, p[3] = c, p[4] = d
      PROVE  Front(p) = q
  <2>1. \A i \in 1 .. 4 : Front(p)[i] = q[i]
    BY <1>4, <1>5, <1>6
  <2> QED
    BY <1>3, <1>4, <1>5, <1>6, <2>1, SeqEqual
<1>7. ASSUME Front(p) = q
      PROVE  Len(p) = 5 /\ p[1] = a /\ p[2] = b /\ p[3] = c /\ p[4] = d
  <2>1. Len(p) = 5
    <3>1. Len(Front(p)) = 4
      BY <1>4, <1>7, Zenon
    <3>2. PICK k \in Nat : k = Len(p)
      BY <1>5
    <3>3. k - 1 = 4
      BY <1>5, <3>1, <3>2, Zenon
    <3>4. k = 5
      BY <3>3
    <3> QED
      BY <3>2, <3>4, Zenon
  <2>2. \A i \in 1 .. 4 : Front(p)[i] = p[i]
    BY <1>5, <2>1
  <2>3. q[1] = p[1] /\ q[2] = p[2] /\ q[3] = p[3] /\ q[4] = p[4]
    BY <1>7, <2>2
  <2> QED
    BY <1>4, <2>1, <2>3
<1>8. Front(p) = q <=> Len(p) = 5 /\ p[1] = a /\ p[2] = b /\ p[3] = c /\ p[4] = d
  BY <1>6, <1>7
<1> QED
  BY <1>8 DEF q

LEMMA InModelDir ==
  ASSUME Typed, NEW f \in sources, NEW c, NEW n
  PROVE  /\ f \in DirectlyIn(ModelDir(<<c, n>>)) <=>
              /\ Len(f.path) = 5 /\ f.path[1] = c /\ f.path[2] = n
              /\ f.path[3] = "domain" /\ f.path[4] = "model"
         /\ \A stem : f \in ModelFile(<<c, n>>, stem) <=>
              f \in DirectlyIn(ModelDir(<<c, n>>)) /\ Last(f.path) = stem
<1>1. ModelDir(<<c, n>>) = <<c, n, "domain", "model">>
  BY DirsOfModule
<1>2. f \in DirectlyIn(ModelDir(<<c, n>>)) <=>
        /\ Len(f.path) = 5 /\ f.path[1] = c /\ f.path[2] = n
        /\ f.path[3] = "domain" /\ f.path[4] = "model"
  BY <1>1, SourceIs, DirectlyInFour DEF DirectlyIn
<1>3. ASSUME NEW stem
      PROVE  f \in ModelFile(<<c, n>>, stem) <=>
               f \in DirectlyIn(ModelDir(<<c, n>>)) /\ Last(f.path) = stem
  <2>1. f \in ModelFile(<<c, n>>, stem) <=> f.path = <<c, n, "domain", "model", stem>>
    BY DirsOfModule DEF ModelFile
  <2>2. f.path = <<c, n, "domain", "model", stem>> <=>
          /\ Len(f.path) = 5 /\ f.path[1] = c /\ f.path[2] = n
          /\ f.path[3] = "domain" /\ f.path[4] = "model" /\ f.path[5] = stem
    <3>1. IsPath(f.path)
      BY SourceIs
    <3>2. PICK domain, model : domain = "domain" /\ model = "model"
      OBVIOUS
    <3>3. f.path = <<c, n, domain, model, stem>> <=>
            /\ Len(f.path) = 5 /\ f.path[1] = c /\ f.path[2] = n
            /\ f.path[3] = domain /\ f.path[4] = model /\ f.path[5] = stem
      BY <3>1, PathOfFive
    <3> QED
      BY <3>2, <3>3
  <2> QED
    BY <1>2, <2>1, <2>2 DEF Last
<1> QED
  BY <1>2, <1>3

\* Where the domain services are.
LEMMA InServices ==
  ASSUME Typed, NEW f \in sources, NEW c, NEW n
  PROVE  /\ f \in Services(<<c, n>>) =>
              /\ Len(f.path) = 5 /\ f.path[1] = c /\ f.path[2] = n
              /\ f.path[3] = "domain" /\ f.path[4] = "services"
         /\ f.path = Append(DomainDir(<<c, n>>), "services") =>
              /\ Len(f.path) = 4 /\ f.path[1] = c /\ f.path[2] = n
              /\ f.path[3] = "domain" /\ f.path[4] = "services"
<1>1. Append(DomainDir(<<c, n>>), "services") = <<c, n, "domain", "services">>
  BY DirsOfModule
<1>2. /\ Len(<<c, n, "domain", "services">>) = 4
      /\ <<c, n, "domain", "services">>[1] = c /\ <<c, n, "domain", "services">>[2] = n
      /\ <<c, n, "domain", "services">>[3] = "domain"
      /\ <<c, n, "domain", "services">>[4] = "services"
  OBVIOUS
<1>3. Front(f.path) = <<c, n, "domain", "services">> <=>
        /\ Len(f.path) = 5 /\ f.path[1] = c /\ f.path[2] = n
        /\ f.path[3] = "domain" /\ f.path[4] = "services"
  <2>1. IsPath(f.path)
    BY SourceIs
  <2>2. PICK domain, services : domain = "domain" /\ services = "services"
    OBVIOUS
  <2>3. Front(f.path) = <<c, n, domain, services>> <=>
          /\ Len(f.path) = 5 /\ f.path[1] = c /\ f.path[2] = n
          /\ f.path[3] = domain /\ f.path[4] = services
    BY <2>1, DirectlyInFour
  <2> QED
    BY <2>2, <2>3
<1>4. f \in Services(<<c, n>>) => Front(f.path) = <<c, n, "domain", "services">>
  BY <1>1 DEF Services, DirectlyIn
<1> QED
  BY <1>1, <1>2, <1>3, <1>4

-----------------------------------------------------------------------------
(* Contexts and modules *)

LEMMA InSubdirs ==
  ASSUME Typed, NEW f \in sources
  PROVE  /\ Len(f.path) > 1 => f.path[1] \in Subdirs(<<>>)
         /\ Len(f.path) > 2 => f.path[2] \in Subdirs(<<f.path[1]>>)
<1>1. f.path \in Paths /\ IsPath(f.path) /\ Len(f.path) \in Nat
  BY SourceIs DEF Paths
<1>2. IsSeq(<<>>) /\ Len(<<>>) = 0
  BY DEF IsSeq
<1>3. IsPrefix(<<>>, f.path)
  BY <1>1, <1>2, PathIsSeq, Compare
<1>4. IsPrefix(<<f.path[1]>>, f.path) /\ Len(<<f.path[1]>>) = 1
  BY <1>1, BelowOne, PathOfOne
<1>5. Len(f.path) > 1 => f.path[0 + 1] \in Subdirs(<<>>)
  BY <1>1, <1>2, <1>3 DEF Subdirs
<1>6. Len(f.path) > 2 => f.path[1 + 1] \in Subdirs(<<f.path[1]>>)
  BY <1>1, <1>4 DEF Subdirs
<1> QED
  BY <1>5, <1>6

LEMMA HoldsFile ==
  ASSUME NEW f \in sources, NEW dir, IsStrictPrefix(dir, f.path)
  PROVE  IsDir(dir)
BY DEF IsDir, Paths

\* What makes a context and a module.
LEMMA ContextFound ==
  ASSUME Typed, NEW f \in sources
  PROVE  /\ MakesContext(f.path) => f.path[1] \in Contexts
         /\ InModule(f.path, Layers) => f.path[2] \in Modules(f.path[1])
<1> DEFINE c == f.path[1]
           n == f.path[2]
<1>1. IsPath(f.path) /\ Len(f.path) \in Nat
  BY SourceIs
<1>2. InModule(f.path, Layers) => n \in Modules(c)
  <2> SUFFICES ASSUME InModule(f.path, Layers) PROVE n \in Modules(c)
    OBVIOUS
  <2>1. n \in Subdirs(<<c>>) \ Reserved /\ f.path[3] \in Layers
    BY <1>1, InSubdirs DEF InModule
  <2>2. IsDir(<<c, n, f.path[3]>>)
    BY <1>1, BelowThree, HoldsFile DEF InModule
  <2>3. HasModuleLayer(<<c, n>>)
    BY <2>1, <2>2, AppendToTwo DEF HasModuleLayer
  <2> QED
    BY <2>1, <2>3 DEF Modules
<1>3. InModule(f.path, Layers) => c \in Contexts
  <2> SUFFICES ASSUME InModule(f.path, Layers) PROVE c \in Contexts
    OBVIOUS
  <2>1. n \in Subdirs(<<c>>) \ Reserved /\ HasModuleLayer(<<c, n>>)
    BY <1>2 DEF Modules
  <2>2. Len(f.path) > 1 /\ c \notin NonContextDirs
    BY <1>1 DEF InModule
  <2>3. c \in Subdirs(<<>>)
    BY <2>2, InSubdirs, Zenon
  <2> QED
    BY <2>1, <2>2, <2>3 DEF Contexts
<1>4. InContext(f.path, {"entrypoints"}) => c \in Contexts
  <2> SUFFICES ASSUME InContext(f.path, {"entrypoints"}) PROVE c \in Contexts
    OBVIOUS
  <2>1. Len(f.path) > 1 /\ c \notin NonContextDirs
    BY <1>1 DEF InContext
  <2>3. c \in Subdirs(<<>>)
    BY <2>1, InSubdirs, Zenon
  <2>2. IsDir(<<c, "entrypoints">>)
    BY <1>1, BelowTwo, HoldsFile DEF InContext
  <2> QED
    BY <2>1, <2>2, <2>3 DEF Contexts
<1> QED
  BY <1>2, <1>3, <1>4 DEF MakesContext

LEMMA FoundContext ==
  ASSUME Typed, NEW c, IsContext(c, sources)
  PROVE  c \in Contexts
BY ContextFound DEF IsContext

LEMMA FoundModule ==
  ASSUME Typed, NEW c, NEW n, IsModule(c, n, sources)
  PROVE  <<c, n>> \in IterModules
<1>1. PICK f \in sources : InModule(f.path, Layers) /\ f.path[1] = c /\ f.path[2] = n
  BY DEF IsModule
<1>2. c \in Contexts /\ n \in Modules(c)
  BY <1>1, ContextFound DEF MakesContext
<1> QED
  BY <1>2, IterModulesIs

-----------------------------------------------------------------------------
(* What a finding is about *)

\* The places that are files.
LEMMA AtFile ==
  ASSUME Typed, NEW f \in sources \cup tests, NEW place, place = f.path
  PROVE  IsSeq(place) /\ \E g \in sources \cup tests : Within(g.path, place)
<1>1. IsPath(place)
  BY SourceIs, TestIs
<1>2. IsSeq(place) /\ Within(place, place)
  BY <1>1, PathIsSeq, WithinItself
<1> QED
  BY <1>2

\* And those that are directories.
LEMMA AtDirectory ==
  ASSUME Typed, NEW place, IsSeq(place), IsDir(place)
  PROVE  \E g \in sources \cup tests : Within(g.path, place)
<1>1. PICK f \in sources : IsStrictPrefix(place, f.path)
  BY DEF IsDir, Paths
<1> QED
  BY <1>1 DEF IsStrictPrefix, Within

LEMMA AtPackage ==
  ASSUME Typed, NEW place \in PackagesWithoutInit
  PROVE  IsSeq(place) /\ \E g \in sources \cup tests : Within(g.path, place)
<1>1. PICK f \in sources : \E k \in 1 .. Len(f.path) - 1 : place = SubSeq(f.path, 1, k)
  BY DEF PackagesWithoutInit, Paths
<1>0. PICK n \in 1 .. Len(f.path) - 1 : place = SubSeq(f.path, 1, n)
  BY <1>1
<1>2. Len(f.path) \in Nat /\ IsSeq(f.path)
  BY SourceIs, PathIsSeq
<1>3. PICK S : f.path \in Seq(S)
  BY <1>2 DEF IsSeq
<1>4. n \in Nat /\ 1 <= n /\ n <= Len(f.path)
  BY <1>2
<1>5. \A i \in 1 .. n : f.path[i] \in S
  BY <1>3, <1>4
<1>6. place \in Seq(S) /\ Len(place) = IF 1 <= n THEN n - 1 + 1 ELSE 0
  BY <1>0, <1>4, <1>5, SubSeqProperties
<1>7. Len(place) = n
  BY <1>4, <1>6
<1>8. SubSeq(place, 1, Len(place)) = place
  BY <1>6, SubSeqFull
<1>9. IsPrefix(place, f.path)
  BY <1>0, <1>4, <1>7, <1>8 DEF IsPrefix
<1>10. Within(f.path, place)
  BY <1>9 DEF Within
<1> QED
  BY <1>6, <1>10 DEF IsSeq

LEMMA PlaceInModule ==
  ASSUME Typed, NEW m \in IterModules, NEW rule, NEW place, FoundIn(m, rule, place)
  PROVE  /\ IsSeq(place)
         /\ rule # "ARCH-049" => \E g \in sources \cup tests : Within(g.path, place)
<1>1. PICK c, n : m = <<c, n>>
  BY IterModulesIs
<1>2. CASE \E f \in sources \cup tests : place = f.path
  BY <1>2, AtFile
<1>3. CASE rule = "ARCH-049" /\ place = ModelDir(m)
  <2>1. ModelDir(m) = Append(<<c, n, "domain">>, "model")
    BY <1>1, DirsOfModule, AppendToThree
  <2> QED
    BY <1>3, <2>1, PathOfThree, PathIsSeq, Appending
<1>4. CASE place = Append(m, "infrastructure") /\ IsDir(place)
  <2>1. IsSeq(place)
    BY <1>1, <1>4, PathOfTwo, PathIsSeq, Appending
  <2> QED
    BY <1>4, <2>1, AtDirectory
<1> QED
  BY <1>2, <1>3, <1>4
  DEF FoundIn, Under, ApplicationFiles, AggregateFiles, ModelFile, DirectlyIn, Services

LEMMA PlaceIs ==
  ASSUME Typed, NEW rule, NEW place, <<rule, place>> \in Findings
  PROVE  /\ IsSeq(place)
         /\ rule # "ARCH-049" => \E g \in sources \cup tests : Within(g.path, place)
<1>1. CASE \E m \in IterModules : FoundIn(m, rule, place)
  BY <1>1, PlaceInModule
<1>2. CASE \E f \in sources \cup tests : place = f.path
  BY <1>2, AtFile
<1>3. CASE IsDir(place) /\ \E c \in Contexts : place = <<c, "application">>
  <2>1. IsSeq(place)
    BY <1>3, PathOfTwo, PathIsSeq
  <2> QED
    BY <1>3, <2>1, AtDirectory
<1>4. CASE place \in PackagesWithoutInit
  BY <1>4, AtPackage
<1>5. CASE FoundOutside(rule, place)
  <2>1. InitFilesOfPortions \subseteq Paths
    BY DEF InitFilesOfPortions
  <2> QED
    BY <1>2, <1>3, <1>4, <1>5, <2>1 DEF FoundOutside, CommonsFiles, Under, Paths
<1> QED
  BY <1>1, <1>5, Found

-----------------------------------------------------------------------------
(* Edits that keep the layout *)

\* What an edit leaves and writes.
LEMMA EditIs ==
  ASSUME Typed, NEW gone, NEW new, NEW moves, \A f \in new : IsFile(f),
         Edit(gone, new, moves)
  PROVE  /\ \A h \in sources' :
              /\ \E f \in (sources \ gone) \cup new : f.path = h.path
              /\ \A rule \in h.marks :
                   \E f \in (sources \ gone) \cup new : f.path = h.path /\ rule \in f.marks
         /\ \A f \in (sources \ gone) \cup new : \E h \in sources' : h.path = f.path
<1> DEFINE renamed(f) == [f EXCEPT !.uses = Renamed(@, moves)]
           merged == Merged(sources \ gone, new)
<1>1. sources' = {renamed(f) : f \in merged}
  BY DEF Edit
<1>2. \A f \in merged : IsFile(f)
  <2>1. \A f \in (sources \ gone) \cup new : IsFile(f)
    BY SourceIs
  <2>2. \A f, g \in sources \ gone : f.path = g.path => f = g
    BY DEF Typed, AreFiles
  <2> QED
    BY <2>1, <2>2, MergedFiles DEF AreFiles
<1>3. \A f \in merged : renamed(f).path = f.path /\ renamed(f).marks = f.marks
  BY <1>2, Rewritten
<1>4. /\ \A h \in merged :
           /\ \E f \in (sources \ gone) \cup new : f.path = h.path
           /\ \A rule \in h.marks :
                \E f \in (sources \ gone) \cup new : f.path = h.path /\ rule \in f.marks
      /\ \A f \in (sources \ gone) \cup new : \E h \in merged : h.path = f.path
  BY MergedIs
<1> HIDE DEF renamed, merged
<1> QED
  BY <1>1, <1>3, <1>4

\* The place of an aggregate may not have a name that contexts use.
WellNamed(path) == InModel(path) => Last(path) \notin Reserved \cup {"application"}

\* Contexts and modules stay; what is written is of the kind of what is there.
KeepsLayout(gone, new) ==
  LET after == (sources \ gone) \cup new
  IN  /\ \A f \in gone :
           /\ MakesContext(f.path) => IsContext(f.path[1], after)
           /\ InModule(f.path, Layers) /\ f.path[2] # "application" =>
                IsModule(f.path[1], f.path[2], after)
      /\ \A g \in new :
           /\ IsFile(g) /\ WellNamed(g.path)
           /\ \A rule \in g.marks \cap Rules : Fits(rule, g.path, sources)

\* More contexts and modules make more fit.
LEMMA FitsMore ==
  ASSUME NEW files, NEW more,
         \A c : IsContext(c, files) => IsContext(c, more),
         \A c, n : n # "application" /\ IsModule(c, n, files) => IsModule(c, n, more),
         NEW rule, NEW path, Fits(rule, path, files)
  PROVE  Fits(rule, path, more)
BY DEF Fits

Sorted == Typed /\ LaidOut(sources)

LEMMA EditKeepsSorted ==
  ASSUME Sorted, NEW gone, NEW new, NEW moves, KeepsLayout(gone, new),
         Edit(gone, new, moves)
  PROVE  Sorted'
<1> DEFINE after == (sources \ gone) \cup new
<1>1. \A g \in new : IsFile(g) /\ WellNamed(g.path)
  BY DEF KeepsLayout
<1>2. Typed'
  BY <1>1, EditKeepsTypes DEF Sorted
<1>3. /\ \A h \in sources' :
           /\ \E f \in after : f.path = h.path
           /\ \A rule \in h.marks : \E f \in after : f.path = h.path /\ rule \in f.marks
      /\ \A f \in after : \E h \in sources' : h.path = f.path
  BY <1>1, EditIs DEF Sorted
<1>4. ASSUME NEW c, IsContext(c, sources)
      PROVE  IsContext(c, after)
  <2>1. PICK f \in sources : MakesContext(f.path) /\ f.path[1] = c
    BY <1>4 DEF IsContext
  <2> QED
    BY <2>1 DEF KeepsLayout, IsContext
<1>5. ASSUME NEW c, NEW n, n # "application", IsModule(c, n, sources)
      PROVE  IsModule(c, n, after)
  <2>1. PICK f \in sources : InModule(f.path, Layers) /\ f.path[1] = c /\ f.path[2] = n
    BY <1>5 DEF IsModule
  <2> QED
    BY <1>5, <2>1 DEF KeepsLayout, IsModule
<1>6. /\ \A c : IsContext(c, after) => IsContext(c, sources')
      /\ \A c, n : IsModule(c, n, after) => IsModule(c, n, sources')
  BY <1>3 DEF IsContext, IsModule
<1>7. \A f \in after : \A rule \in f.marks \cap Rules : Fits(rule, f.path, sources)
  BY DEF KeepsLayout, Sorted, LaidOut
<1>8. \A rule, path : Fits(rule, path, sources) => Fits(rule, path, sources')
  BY <1>4, <1>5, <1>6, FitsMore
<1>9. \A f \in after : WellNamed(f.path)
  BY <1>1 DEF Sorted, LaidOut, WellNamed
<1>10. \E f \in sources' : MakesContext(f.path)
  <2>1. PICK f \in sources : MakesContext(f.path)
    BY DEF Sorted, LaidOut
  <2>2. IsContext(f.path[1], sources')
    BY <1>4, <1>6, <2>1 DEF IsContext
  <2> QED
    BY <2>2 DEF IsContext
<1>11. \A h \in sources' : WellNamed(h.path)
  BY <1>3, <1>9
<1>12. \A h \in sources' : \A rule \in h.marks \cap Rules : Fits(rule, h.path, sources')
  BY <1>3, <1>7, <1>8
<1>13. LaidOut(sources')
  BY <1>10, <1>11, <1>12 DEF LaidOut, WellNamed
<1> QED
  BY <1>2, <1>13 DEF Sorted

\* What a file is about once some of its text is gone.
LEMMA LessOfFile ==
  ASSUME Sorted, NEW f \in sources, NEW g, IsFile(g), g.path = f.path, g.marks \subseteq f.marks,
         NEW others,
         \A h \in others : /\ IsFile(h) /\ WellNamed(h.path)
                           /\ \A rule \in h.marks \cap Rules : Fits(rule, h.path, sources)
  PROVE  KeepsLayout({f}, {g} \cup others)
<1> DEFINE new == {g} \cup others
           after == (sources \ {f}) \cup new
<1>1. g \in after
  OBVIOUS
<1>2. /\ MakesContext(f.path) => IsContext(f.path[1], after)
      /\ InModule(f.path, Layers) => IsModule(f.path[1], f.path[2], after)
  BY <1>1 DEF IsContext, IsModule
<1>3. WellNamed(g.path) /\ \A rule \in g.marks \cap Rules : Fits(rule, g.path, sources)
  BY DEF Sorted, LaidOut, WellNamed
<1>4. \A h \in new : /\ IsFile(h) /\ WellNamed(h.path)
                     /\ \A rule \in h.marks \cap Rules : Fits(rule, h.path, sources)
  BY <1>3
<1> HIDE DEF new
<1> QED
  BY <1>2, <1>4 DEF KeepsLayout, new

\* Nothing is marked in a new file.
LEMMA BlankFits ==
  ASSUME NEW path, IsPath(path), WellNamed(path), NEW g, IsFile(g), g.path = path, g.marks = {}
  PROVE  /\ IsFile(g) /\ WellNamed(g.path)
         /\ \A rule \in g.marks \cap Rules : Fits(rule, g.path, sources)
OBVIOUS

\* Files that move: each to where there is as much of a context and a module, its
\* lines to where they fit.
LEMMA MoveKeepsSorted ==
  ASSUME Sorted, NEW moves, Move(moves),
         LET gone == {f \in sources : f.path \in DOMAIN moves}
             after == (sources \ gone)
                      \cup UNION {{[f EXCEPT !.path = p] : p \in moves[f.path]} : f \in gone}
         IN  \A f \in gone :
               /\ MakesContext(f.path) => IsContext(f.path[1], after)
               /\ InModule(f.path, Layers) /\ f.path[2] # "application" =>
                    IsModule(f.path[1], f.path[2], after)
               /\ \A p \in moves[f.path] :
                    /\ IsPath(p) /\ WellNamed(p)
                    /\ \A rule \in f.marks \cap Rules : Fits(rule, p, sources)
  PROVE  Sorted'
<1> DEFINE gone == {f \in sources : f.path \in DOMAIN moves}
           new == UNION {{[f EXCEPT !.path = p] : p \in moves[f.path]} : f \in gone}
<1>1. ASSUME NEW g \in new
      PROVE  /\ IsFile(g) /\ WellNamed(g.path)
             /\ \A rule \in g.marks \cap Rules : Fits(rule, g.path, sources)
  <2>1. PICK f \in gone : \E q \in moves[f.path] : g = [f EXCEPT !.path = q]
    BY <1>1
  <2>2. PICK p \in moves[f.path] : g = [f EXCEPT !.path = p]
    BY <2>1
  <2>3. IsFile(f) /\ IsPath(p)
    BY SourceIs DEF Sorted
  <2>4. IsFile(g) /\ g.path = p /\ g.marks = f.marks
    BY <2>2, <2>3, Elsewhere
  <2> QED
    BY <2>4
<1>2. KeepsLayout(gone, new)
  BY <1>1 DEF KeepsLayout
<1>3. Edit(gone, new, moves)
  BY DEF Move
<1> QED
  BY <1>2, <1>3, EditKeepsSorted

LEMMA FileMoves ==
  ASSUME Sorted, NEW f \in sources, NEW to, MoveFile(f.path, to), IsPath(to), WellNamed(to),
         \A rule \in f.marks \cap Rules : Fits(rule, to, sources),
         LET after == (sources \ {f}) \cup {[f EXCEPT !.path = to]}
         IN  /\ MakesContext(f.path) => IsContext(f.path[1], after)
             /\ InModule(f.path, Layers) /\ f.path[2] # "application" =>
                  IsModule(f.path[1], f.path[2], after)
  PROVE  Sorted'
<1> DEFINE moves == [p \in {f.path} |-> {to}]
           gone == {h \in sources : h.path \in DOMAIN moves}
           new == UNION {{[h EXCEPT !.path = p] : p \in moves[h.path]} : h \in gone}
<1>1. DOMAIN moves = {f.path} /\ moves[f.path] = {to}
  OBVIOUS
<1>2. Move(moves)
  BY DEF MoveFile
<1>3. gone = {f}
  BY <1>1 DEF Sorted, Typed, AreFiles
<1>4. new = {[f EXCEPT !.path = to]}
  BY <1>1, <1>3
<1> HIDE DEF moves
<1>5. \A h \in gone :
        /\ MakesContext(h.path) => IsContext(h.path[1], (sources \ gone) \cup new)
        /\ InModule(h.path, Layers) /\ h.path[2] # "application" =>
             IsModule(h.path[1], h.path[2], (sources \ gone) \cup new)
        /\ \A p \in moves[h.path] :
             /\ IsPath(p) /\ WellNamed(p)
             /\ \A rule \in h.marks \cap Rules : Fits(rule, p, sources)
  <2> HIDE DEF gone, new
  <2> QED
    BY <1>1, <1>3, <1>4
<1> QED
  BY <1>2, <1>5, MoveKeepsSorted


\* A file that loses some of its text.
LEMMA RewriteKeepsSorted ==
  ASSUME Sorted, NEW f \in sources, NEW g, IsFile(g), g.path = f.path, g.marks \subseteq f.marks,
         Rewrite(f, g)
  PROVE  Sorted'
<1>1. KeepsLayout({f}, {g} \cup {})
  BY LessOfFile
<1>2. KeepsLayout({f}, {g})
  BY <1>1
<1> QED
  BY <1>2, EditKeepsSorted DEF Rewrite

LEMMA TestsKeepSorted ==
  ASSUME Sorted, UNCHANGED sources, AreFiles(tests')
  PROVE  Sorted'
BY DEF Sorted, Typed, LaidOut

\* A directory that moves into a module.
LEMMA DirectoryMoves ==
  ASSUME Sorted, NEW from, NEW to, MoveDirectory(from, to),
         \A f \in Under(from) :
           LET p == to \o SubSeq(f.path, Len(from) + 1, Len(f.path))
           IN  /\ IsPath(p) /\ WellNamed(p) /\ MakesContext(p) /\ p[1] = f.path[1]
               /\ InModule(f.path, Layers) => f.path[2] = "application"
               /\ \A rule \in f.marks \cap Rules : Fits(rule, p, sources)
  PROVE  Sorted'
<1> DEFINE target(p) == to \o SubSeq(p, Len(from) + 1, Len(p))
           moves == [p \in {f.path : f \in Under(from)} |-> {target(p)}]
           gone == {f \in sources : f.path \in DOMAIN moves}
           new == UNION {{[f EXCEPT !.path = p] : p \in moves[f.path]} : f \in gone}
<1>1. Move(moves)
  BY DEF MoveDirectory
<1>2. \A f \in gone : f \in Under(from)
  BY DEF Under
<1>3. \A f \in gone : moves[f.path] = {target(f.path)}
  OBVIOUS
<1>4. \A f \in gone :
        /\ IsPath(target(f.path)) /\ WellNamed(target(f.path)) /\ MakesContext(target(f.path))
        /\ target(f.path)[1] = f.path[1]
        /\ InModule(f.path, Layers) => f.path[2] = "application"
        /\ \A rule \in f.marks \cap Rules : Fits(rule, target(f.path), sources)
  BY <1>2
<1> HIDE DEF target, moves
<1>5. ASSUME NEW f \in gone
      PROVE  IsContext(f.path[1], (sources \ gone) \cup new)
  <2>1. [f EXCEPT !.path = target(f.path)] \in new
    BY <1>3
  <2>2. [f EXCEPT !.path = target(f.path)].path = target(f.path)
    BY <1>4, SourceIs, Elsewhere DEF Sorted
  <2> HIDE DEF new, gone
  <2> QED
    BY <1>4, <1>5, <2>1, <2>2 DEF IsContext
<1>6. \A f \in gone :
        /\ MakesContext(f.path) => IsContext(f.path[1], (sources \ gone) \cup new)
        /\ InModule(f.path, Layers) /\ f.path[2] # "application" =>
             IsModule(f.path[1], f.path[2], (sources \ gone) \cup new)
        /\ \A p \in moves[f.path] :
             /\ IsPath(p) /\ WellNamed(p)
             /\ \A rule \in f.marks \cap Rules : Fits(rule, p, sources)
  <2> HIDE DEF new, gone
  <2> QED
    BY <1>3, <1>4, <1>5
<1> QED
  BY <1>1, <1>6, MoveKeepsSorted

\* Paths of a module.
LEMMA PathOfFour ==
  ASSUME NEW a, NEW b, NEW c, NEW d
  PROVE  /\ IsPath(<<a, b, c, d>>) /\ Len(<<a, b, c, d>>) = 4
         /\ <<a, b, c, d>>[1] = a /\ <<a, b, c, d>>[2] = b /\ <<a, b, c, d>>[3] = c
<1>1. <<a, b, c, d>> \in Seq({a, b, c, d}) /\ <<a, b, c, d>> # <<>>
  OBVIOUS
<1> QED
  BY <1>1, SeqIsPath

LEMMA NamesOfFive ==
  ASSUME NEW a, NEW b, NEW c, NEW d, NEW e
  PROVE  LET p == <<a, b, c, d, e>>
         IN  /\ IsPath(p) /\ Len(p) = 5 /\ Last(p) = e
             /\ p[1] = a /\ p[2] = b /\ p[3] = c /\ p[4] = d
<1>1. <<a, b, c, d, e>> \in Seq({a, b, c, d, e}) /\ <<a, b, c, d, e>> # <<>>
  OBVIOUS
<1>2. Len(<<a, b, c, d, e>>) = 5 /\ <<a, b, c, d, e>>[5] = e
  OBVIOUS
<1>3. /\ <<a, b, c, d, e>>[1] = a /\ <<a, b, c, d, e>>[2] = b
      /\ <<a, b, c, d, e>>[3] = c /\ <<a, b, c, d, e>>[4] = d
  OBVIOUS
<1>4. Last(<<a, b, c, d, e>>) = e
  BY <1>2 DEF Last
<1> QED
  BY <1>1, <1>2, <1>3, <1>4, SeqIsPath

LEMMA FileOfLayer ==
  ASSUME NEW c, c \notin NonContextDirs, NEW n, n \notin Reserved, NEW layer, NEW x
  PROVE  LET p == <<c, n, layer, x>>
         IN  /\ IsPath(p) /\ WellNamed(p) /\ p[1] = c /\ p[2] = n
             /\ \A dirs : layer \in dirs => InModule(p, dirs)
             /\ layer \in Layers => MakesContext(p)
<1> DEFINE p == <<c, n, layer, x>>
<1>1. IsPath(p) /\ Len(p) = 4 /\ p[1] = c /\ p[2] = n /\ p[3] = layer
  BY PathOfFour
<1> HIDE DEF p
<1>2. \A dirs : layer \in dirs => InModule(p, dirs)
  BY <1>1 DEF InModule
<1>3. WellNamed(p)
  BY <1>1 DEF WellNamed, InModel
<1>4. /\ IsPath(p) /\ WellNamed(p) /\ p[1] = c /\ p[2] = n
      /\ \A dirs : layer \in dirs => InModule(p, dirs)
      /\ layer \in Layers => MakesContext(p)
  BY <1>1, <1>2, <1>3 DEF MakesContext
<1> QED
  BY <1>4 DEF p

LEMMA FileOfApplication ==
  ASSUME NEW c, c \notin NonContextDirs, NEW n, n \notin Reserved, NEW x
  PROVE  LET p == <<c, n, "application", x>>
         IN  /\ IsPath(p) /\ WellNamed(p) /\ p[1] = c /\ p[2] = n
             /\ InModule(p, {"application"}) /\ InModule(p, Layers) /\ MakesContext(p)
<1> DEFINE p == <<c, n, "application", x>>
<1>1. PICK layer : layer = "application"
  OBVIOUS
<1> DEFINE q == <<c, n, layer, x>>
<1>2. /\ IsPath(q) /\ WellNamed(q) /\ q[1] = c /\ q[2] = n
      /\ \A dirs : layer \in dirs => InModule(q, dirs)
      /\ layer \in Layers => MakesContext(q)
  BY FileOfLayer
<1>3. layer \in {"application"} /\ layer \in Layers
  BY <1>1 DEF Layers
<1>4. p = q
  BY <1>1
<1> HIDE DEF q
<1>5. /\ IsPath(p) /\ WellNamed(p) /\ p[1] = c /\ p[2] = n
      /\ InModule(p, {"application"}) /\ InModule(p, Layers) /\ MakesContext(p)
  BY <1>2, <1>3, <1>4, Zenon
<1> QED
  BY <1>5

LEMMA FileOfAdapters ==
  ASSUME NEW c, c \notin NonContextDirs, NEW n, n \notin Reserved, NEW x
  PROVE  LET p == <<c, n, "adapters", x>>
         IN  /\ IsPath(p) /\ WellNamed(p) /\ p[1] = c /\ p[2] = n
             /\ InModule(p, {"adapters"}) /\ InModule(p, Layers) /\ MakesContext(p)
<1> DEFINE p == <<c, n, "adapters", x>>
<1>1. PICK layer : layer = "adapters"
  OBVIOUS
<1> DEFINE q == <<c, n, layer, x>>
<1>2. /\ IsPath(q) /\ WellNamed(q) /\ q[1] = c /\ q[2] = n
      /\ \A dirs : layer \in dirs => InModule(q, dirs)
      /\ layer \in Layers => MakesContext(q)
  BY FileOfLayer
<1>3. layer \in {"adapters"} /\ layer \in Layers
  BY <1>1 DEF Layers
<1>4. p = q
  BY <1>1
<1> HIDE DEF q
<1>5. /\ IsPath(p) /\ WellNamed(p) /\ p[1] = c /\ p[2] = n
      /\ InModule(p, {"adapters"}) /\ InModule(p, Layers) /\ MakesContext(p)
  BY <1>2, <1>3, <1>4, Zenon
<1> QED
  BY <1>5

LEMMA FileOfModel ==
  ASSUME NEW c, NEW n, NEW x, x \notin Reserved \cup {"application"}
  PROVE  LET p == <<c, n, "domain", "model", x>>
         IN  /\ IsPath(p) /\ WellNamed(p) /\ Last(p) = x /\ p[1] = c /\ p[2] = n
             /\ c \notin NonContextDirs /\ n \notin Reserved =>
                  InModel(p) /\ InModule(p, Layers) /\ MakesContext(p)
<1> DEFINE p == <<c, n, "domain", "model", x>>
<1>0. PICK domain, model : domain = "domain" /\ model = "model"
  OBVIOUS
<1> DEFINE q == <<c, n, domain, model, x>>
<1>a. /\ IsPath(q) /\ Len(q) = 5 /\ Last(q) = x /\ q[1] = c /\ q[2] = n
      /\ q[3] = domain /\ q[4] = model
  BY NamesOfFive
<1>b. p = q
  BY <1>0
<1> HIDE DEF q
<1>1. /\ IsPath(p) /\ Len(p) = 5 /\ Last(p) = x /\ p[1] = c /\ p[2] = n
      /\ p[3] = domain /\ p[4] = model
  BY <1>a, <1>b, Zenon
<1> HIDE DEF p
<1>2. c \notin NonContextDirs /\ n \notin Reserved =>
        InModel(p) /\ InModule(p, Layers) /\ MakesContext(p)
  BY <1>0, <1>1 DEF InModel, InModule, MakesContext, Layers
<1>3. WellNamed(p)
  BY <1>1 DEF WellNamed
<1> QED
  BY <1>1, <1>2, <1>3 DEF p

LEMMA FileOfServices ==
  ASSUME NEW c, c \notin NonContextDirs, NEW n, n \notin Reserved, NEW x
  PROVE  LET p == <<c, n, "domain", "services", x>>
         IN  /\ IsPath(p) /\ WellNamed(p) /\ p[1] = c /\ p[2] = n
             /\ InModule(p, Layers) /\ MakesContext(p)
<1> DEFINE p == <<c, n, "domain", "services", x>>
<1>0. PICK domain, services : domain = "domain" /\ services = "services"
  OBVIOUS
<1>1. /\ IsPath(p) /\ Len(p) = 5 /\ p[1] = c /\ p[2] = n /\ p[3] = domain /\ p[4] = services
  BY <1>0, NamesOfFive, Zenon
<1> HIDE DEF p
<1>2. InModule(p, Layers) /\ MakesContext(p)
  BY <1>0, <1>1 DEF InModule, MakesContext, Layers
<1>3. WellNamed(p)
  BY <1>0, <1>1 DEF WellNamed, InModel
<1> QED
  BY <1>1, <1>2, <1>3 DEF p

\* Where the rule on a line may tell where the line is.
LEMMA FitsInCommons ==
  ASSUME NEW rule, NEW path, NEW files, Fits(rule, path, files), path[1] = "commons"
  PROVE  rule \in Inward
BY DEF Fits, InContext, InModule, InModel, MakesContext, NonContextDirs

LEMMA FitsInContext ==
  ASSUME NEW rule, NEW path, NEW files, Fits(rule, path, files), Len(path) \in Nat,
         path[1] \notin NonContextDirs
  PROVE  \/ rule \in Inward
         \/ rule = "ARCH-030" /\ InModule(path, {"application"})
         \/ /\ rule = "ARCH-030" /\ path[2] = "application"
            /\ Len(path) > 3 => path[3] \notin {"domain", "adapters", "infrastructure"}
         \/ InModel(path)
BY DEF Fits, InContext, NonContextDirs

\* The names of a module.
LEMMA ModuleNames ==
  ASSUME NEW m \in IterModules
  PROVE  \E c, n : m = <<c, n>> /\ c \in Contexts /\ c \notin NonContextDirs /\ n \notin Reserved
BY IterModulesIs, NamesAre

-----------------------------------------------------------------------------
(* Repairs keep the layout *)

LEMMA RewriteLineKeeps ==
  ASSUME Sorted, NEW rule, NEW place, RewriteLine(rule, place)
  PROVE  Sorted'
<1>1. CASE \E f \in sources : Rewrite(f, [f EXCEPT !.marks = @ \ {rule}])
  <2>1. PICK f \in sources : Rewrite(f, [f EXCEPT !.marks = f.marks \ {rule}])
    BY <1>1
  <2>2. f.marks \ {rule} \subseteq f.marks /\ IsFile(f)
    BY SourceIs DEF Sorted
  <2> QED
    BY <2>1, <2>2, Rewritten, RewriteKeepsSorted
<1>2. CASE /\ UNCHANGED sources
           /\ \E t \in tests : tests' = (tests \ {t}) \cup {[t EXCEPT !.marks = @ \ {rule}]}
  <2>1. PICK t \in tests : tests' = (tests \ {t}) \cup {[t EXCEPT !.marks = t.marks \ {rule}]}
    BY <1>2
  <2> DEFINE u == [t EXCEPT !.marks = t.marks \ {rule}]
  <2>2. IsFile(u) /\ u.path = t.path
    BY TestIs, Rewritten DEF Sorted
  <2> HIDE DEF u
  <2>3. AreFiles((tests \ {t}) \cup {u})
    BY <2>2 DEF Sorted, Typed, AreFiles
  <2> QED
    BY <1>2, <2>1, <2>3, TestsKeepSorted DEF u
<1> QED
  BY <1>1, <1>2 DEF RewriteLine, FilesAt

\* Where an adapter is taken out of: a module's domain, or commons.
LEMMA TakeOutAdapterKeeps ==
  ASSUME Sorted, NEW rule, NEW place, <<rule, place>> \in Findings, TakeOutAdapter(rule, place)
  PROVE  Sorted'
<1> DEFINE dir == IF place[1] = "commons" THEN CommonsAdapters
                  ELSE Append(ModuleOf(place), "adapters")
           path == Append(dir, Last(place))
           adapter == [Blank(path) EXCEPT !.marks = {rule}]
<1>1. rule \in {"ARCH-003", "ARCH-028"} /\ rule \in Rules /\ rule \in Inward
  BY DEF TakeOutAdapter, Rules, Inward
<1>2. PICK f \in sources :
        f.path = place /\ Edit({f}, {[f EXCEPT !.marks = f.marks \ {rule}], adapter}, Unmoved)
  BY DEF TakeOutAdapter, FilesAt
<1>3. IsPath(path) /\ WellNamed(path) /\ Fits(rule, path, sources)
  <2>1. CASE \E m \in IterModules : \E g \in Under(DomainDir(m)) : place = g.path
    <3>1. PICK m \in IterModules : \E g \in Under(DomainDir(m)) : place = g.path
      BY <2>1
    <3>2. PICK c, n : m = <<c, n>> /\ c \notin NonContextDirs /\ n \notin Reserved
      BY ModuleNames
    <3>3. place[1] = c /\ place[2] = n
      BY <3>1, <3>2, DirsOfModule, BelowLayer DEF Under, Sorted
    <3>4. dir = <<c, n, "adapters">>
      BY <3>2, <3>3, ModuleOfIs, AppendToTwo DEF NonContextDirs
    <3>5. path = <<c, n, "adapters", Last(place)>>
      BY <3>4, AppendToThree, Zenon
    <3>6. PICK x : x = Last(place)
      OBVIOUS
    <3> HIDE DEF path
    <3>7. IsPath(path) /\ WellNamed(path) /\ MakesContext(path)
      BY <3>2, <3>5, <3>6, FileOfAdapters, Zenon
    <3> QED
      BY <1>1, <3>7 DEF Fits
  <2>2. CASE place[1] = "commons"
    <3>1. path = <<"commons", "adapters", Last(place)>>
      <4>1. path = Append(<<"commons", "adapters">>, Last(place))
        BY <2>2 DEF CommonsAdapters
      <4> QED
        BY <4>1, AppendToTwo, Zenon
    <3>2. IsPath(path) /\ Len(path) = 3 /\ path[1] = "commons"
      <4>1. PICK a, b : a = "commons" /\ b = "adapters"
        OBVIOUS
      <4>2. path = <<a, b, Last(place)>>
        BY <3>1, <4>1, Zenon
      <4> HIDE DEF path
      <4>3. IsPath(path) /\ Len(path) = 3 /\ path[1] = a
        BY <4>2, PathOfThree
      <4> QED
        BY <4>1, <4>3
    <3> HIDE DEF path
    <3> QED
      BY <1>1, <3>2 DEF Fits, WellNamed, InModel, NonContextDirs
  <2>3. (\E m \in IterModules : FoundIn(m, rule, place)) \/ FoundOutside(rule, place)
    BY Found
  <2>4. CASE \E m \in IterModules : FoundIn(m, rule, place)
    BY <1>1, <2>1, <2>4 DEF FoundIn, Inward
  <2>5. CASE FoundOutside(rule, place)
    <3>1. PICK g \in CommonsFiles : place = g.path
      BY <1>1, <2>5 DEF FoundOutside, Inward
    <3>2. g.path[1] = "commons"
      BY <3>1, SourceIs, BelowOne DEF CommonsFiles, Under, CommonsDir, Sorted
    <3> QED
      BY <2>2, <3>1, <3>2
  <2> QED
    BY <2>3, <2>4, <2>5
<1> HIDE DEF path
<1>4. IsFile(adapter) /\ adapter.path = path /\ adapter.marks = {rule}
  <2>1. IsFile(Blank(path)) /\ Blank(path).path = path
    BY <1>3, BlankIsFile
  <2> QED
    BY <1>1, <2>1, HasFields DEF IsFile, HasCommits
<1> HIDE DEF adapter
<1>5. \A h \in {adapter} : /\ IsFile(h) /\ WellNamed(h.path)
                           /\ \A r \in h.marks \cap Rules : Fits(r, h.path, sources)
  BY <1>3, <1>4
<1> DEFINE g == [f EXCEPT !.marks = f.marks \ {rule}]
<1>6. IsFile(g) /\ g.path = f.path /\ g.marks \subseteq f.marks
  BY SourceIs, Rewritten DEF Sorted
<1> HIDE DEF g
<1>7. KeepsLayout({f}, {g} \cup {adapter})
  BY <1>5, <1>6, LessOfFile
<1>8. {g} \cup {adapter} = {g, adapter}
  OBVIOUS
<1> QED
  BY <1>2, <1>7, <1>8, EditKeepsSorted DEF g

\* The block around a commit is one more frame.
LEMMA OpenedIsCommit ==
  ASSUME NEW c \in Commit
  PROVE  [chain |-> Append(c.chain, UowBlock), receiver |-> "uow"] \in Commit
<1>1. UowBlock \in Frame
  BY ProjectsAssumption DEF UowBlock, Frame
<1>2. c.chain \in Seq(Frame)
  BY DEF Commit
<1>3. Append(c.chain, UowBlock) \in Seq(Frame)
  BY <1>1, <1>2
<1> QED
  BY <1>3, ProjectsAssumption DEF Commit

LEMMA OpenUnitOfWorkKeeps ==
  ASSUME Sorted, NEW rule, NEW place, OpenUnitOfWork(rule, place)
  PROVE  Sorted'
<1> DEFINE repaired(c) == IF ScansThatReport(c) = {} THEN c
                          ELSE [chain |-> Append(c.chain, UowBlock), receiver |-> "uow"]
<1>1. PICK f \in sources : Rewrite(f, [f EXCEPT !.commits = {repaired(c) : c \in f.commits}])
  BY DEF OpenUnitOfWork, FilesAt
<1>2. IsFile(f)
  BY SourceIs DEF Sorted
<1>3. \A c \in f.commits : repaired(c) \in Commit
  BY <1>2, OpenedIsCommit DEF IsFile, HasCommits
<1>4. {repaired(c) : c \in f.commits} \subseteq Commit
  BY <1>3
<1> HIDE DEF repaired
<1>5. PICK v : v = {repaired(c) : c \in f.commits}
  OBVIOUS
<1>6. LET g == [f EXCEPT !.commits = v]
      IN  IsFile(g) /\ g.path = f.path /\ g.marks = f.marks
  <2>1. v \subseteq Commit
    BY <1>4, <1>5
  <2> QED
    BY <1>2, <2>1, Rewritten
<1>7. Rewrite(f, [f EXCEPT !.commits = v])
  BY <1>1, <1>5
<1> QED
  BY <1>6, <1>7, RewriteKeepsSorted

\* What is found in the model of a module.
LEMMA InModelOfModule ==
  ASSUME Sorted, NEW f \in sources, NEW m \in IterModules, f \in DirectlyIn(ModelDir(m))
  PROVE  /\ m = <<f.path[1], f.path[2]>> /\ m = ModuleOf(f.path)
         /\ f.path[1] \notin NonContextDirs /\ f.path[2] \notin Reserved
         /\ InModel(f.path) /\ Last(f.path) \notin Reserved \cup {"application"}
<1>1. PICK c, n : m = <<c, n>> /\ c \notin NonContextDirs /\ n \notin Reserved
  BY ModuleNames
<1>2. /\ Len(f.path) = 5 /\ f.path[1] = c /\ f.path[2] = n
      /\ f.path[3] = "domain" /\ f.path[4] = "model"
  BY <1>1, InModelDir DEF Sorted
<1>3. InModel(f.path)
  BY <1>1, <1>2 DEF InModel, InModule
<1>4. Last(f.path) \notin Reserved \cup {"application"}
  BY <1>3 DEF Sorted, LaidOut
<1> QED
  BY <1>1, <1>2, <1>3, <1>4, ModuleOfIs

LEMMA ModelFileIsThere ==
  ASSUME Typed, NEW m \in IterModules, NEW stem
  PROVE  ModelFile(m, stem) \subseteq DirectlyIn(ModelDir(m))
<1>1. PICK c, n : m = <<c, n>>
  BY ModuleNames
<1>2. \A f \in ModelFile(m, stem) : f \in sources
  BY DEF ModelFile
<1> QED
  BY <1>1, <1>2, InModelDir

LEMMA SplitAggregateKeeps ==
  ASSUME Sorted, NEW rule, NEW place, <<rule, place>> \in Findings, SplitAggregate(rule, place)
  PROVE  Sorted'
<1> DEFINE twin == place[2] \o "_part"
           path == Append(ModelDir(<<place[1], twin>>), Last(place))
           part == [Blank(path) EXCEPT !.classes = {twin}]
<1>1. rule = "ARCH-041"
  BY DEF SplitAggregate
<1>2. PICK f \in sources :
        f.path = place /\ Edit({f}, {[f EXCEPT !.marks = f.marks \ {rule}], part}, Unmoved)
  BY DEF SplitAggregate, FilesAt
<1>3. Last(place) \notin Reserved \cup {"application"}
  <2>1. (\E m \in IterModules : FoundIn(m, rule, place)) \/ FoundOutside(rule, place)
    BY Found
  <2>2. PICK m \in IterModules : FoundIn(m, rule, place)
    BY <1>1, <2>1 DEF FoundOutside, Inward
  <2>3. \E g \in DirectlyIn(ModelDir(m)) : place = g.path
    <3>1. CASE \E g \in AggregateFiles(m) : place = g.path
      BY <3>1 DEF AggregateFiles
    <3>2. CASE \E stem : \E g \in ModelFile(m, stem) : place = g.path
      BY <3>2, ModelFileIsThere DEF Sorted
    <3> QED
      BY <1>1, <2>2, <3>1, <3>2 DEF FoundIn, Inward
  <2>4. \A g \in DirectlyIn(ModelDir(m)) : g \in sources
    BY DEF DirectlyIn
  <2> QED
    BY <2>3, <2>4, InModelOfModule
<1>4. IsPath(path) /\ WellNamed(path)
  <2>1. PICK n : n = twin
    OBVIOUS
  <2>2. path = <<place[1], n, "domain", "model", Last(place)>>
    BY <2>1, DirsOfModule
  <2>3. PICK c, x : c = place[1] /\ x = Last(place)
    OBVIOUS
  <2>4. path = <<c, n, "domain", "model", x>> /\ x \notin Reserved \cup {"application"}
    BY <1>3, <2>2, <2>3
  <2> HIDE DEF path
  <2> QED
    BY <2>4, FileOfModel, Zenon
<1> HIDE DEF path
<1>5. IsFile(part) /\ part.path = path /\ part.marks = {}
  <2>1. IsFile(Blank(path)) /\ Blank(path).path = path /\ Blank(path).marks = {}
    BY <1>4, BlankIsFile
  <2>2. PICK v : v = {twin}
    OBVIOUS
  <2>3. LET g == [Blank(path) EXCEPT !.classes = v]
        IN  IsFile(g) /\ g.path = Blank(path).path /\ g.marks = Blank(path).marks
    BY <2>1, Rewritten
  <2> QED
    BY <2>1, <2>2, <2>3
<1> HIDE DEF part
<1>6. \A h \in {part} : /\ IsFile(h) /\ WellNamed(h.path)
                        /\ \A r \in h.marks \cap Rules : Fits(r, h.path, sources)
  BY <1>4, <1>5
<1> DEFINE g == [f EXCEPT !.marks = f.marks \ {rule}]
<1>7. IsFile(g) /\ g.path = f.path /\ g.marks \subseteq f.marks
  BY SourceIs, Rewritten DEF Sorted
<1> HIDE DEF g
<1>8. KeepsLayout({f}, {g} \cup {part})
  BY <1>6, <1>7, LessOfFile
<1>9. {g} \cup {part} = {g, part}
  OBVIOUS
<1> QED
  BY <1>2, <1>8, <1>9, EditKeepsSorted DEF g

LEMMA MoveToFinderKeeps ==
  ASSUME Sorted, NEW rule, NEW place, <<rule, place>> \in Findings, MoveToFinder(rule, place)
  PROVE  Sorted'
<1> DEFINE m == ModuleOf(place)
           name == m[2] \o "_finder"
           port == Blank(m \o <<"application", name>>)
           adapter == Blank(m \o <<"adapters", name>>)
<1>1. rule = "ARCH-051"
  BY DEF MoveToFinder
<1>2. PICK f \in sources :
        /\ f.path = place
        /\ Edit({f}, {[f EXCEPT !.queries = {e \in f.queries : e = AggregateClassName(m)}],
                      port, adapter}, Unmoved)
  BY DEF MoveToFinder, FilesAt
<1>3. m = <<place[1], place[2]>> /\ place[1] \notin NonContextDirs /\ place[2] \notin Reserved
  <2>1. (\E k \in IterModules : FoundIn(k, rule, place)) \/ FoundOutside(rule, place)
    BY Found
  <2>2. PICK k \in IterModules : FoundIn(k, rule, place)
    BY <1>1, <2>1 DEF FoundOutside, Inward
  <2>3. \E stem : \E g \in ModelFile(k, stem) : place = g.path
    BY <1>1, <2>2 DEF FoundIn, Inward
  <2>4. \E g \in DirectlyIn(ModelDir(k)) : place = g.path
    BY <2>3, ModelFileIsThere DEF Sorted
  <2>5. \A g \in DirectlyIn(ModelDir(k)) : g \in sources
    BY DEF DirectlyIn
  <2> QED
    BY <2>4, <2>5, InModelOfModule
<1>4. PICK c, n, x : c = place[1] /\ n = place[2] /\ x = name
  OBVIOUS
<1>5. m \o <<"application", name>> = <<c, n, "application", x>>
      /\ m \o <<"adapters", name>> = <<c, n, "adapters", x>>
  <2>1. PICK a, b : a = "application" /\ b = "adapters"
    OBVIOUS
  <2>2. <<c, n>> \o <<a, x>> = <<c, n, a, x>> /\ <<c, n>> \o <<b, x>> = <<c, n, b, x>>
    BY DirsOfModule
  <2>3. m = <<c, n>>
    BY <1>3, <1>4
  <2> HIDE DEF m, name
  <2> QED
    BY <1>4, <2>1, <2>2, <2>3, Zenon
<1>6. \A h \in {port, adapter} : /\ IsFile(h) /\ WellNamed(h.path)
                                 /\ \A r \in h.marks \cap Rules : Fits(r, h.path, sources)
  <2>1. IsPath(<<c, n, "application", x>>) /\ WellNamed(<<c, n, "application", x>>)
    BY <1>3, <1>4, FileOfApplication
  <2>2. IsPath(<<c, n, "adapters", x>>) /\ WellNamed(<<c, n, "adapters", x>>)
    BY <1>3, <1>4, FileOfAdapters
  <2>3. PICK p, q : p = <<c, n, "application", x>> /\ q = <<c, n, "adapters", x>>
    OBVIOUS
  <2>4. port = Blank(p) /\ adapter = Blank(q)
    BY <1>5, <2>3
  <2> HIDE DEF port, adapter
  <2> QED
    BY <2>1, <2>2, <2>3, <2>4, BlankIsFile
<1> HIDE DEF port, adapter
<1> DEFINE g == [f EXCEPT !.queries = {e \in f.queries : e = AggregateClassName(m)}]
<1>7. IsFile(g) /\ g.path = f.path /\ g.marks \subseteq f.marks
  <2>1. PICK v : v = {e \in f.queries : e = AggregateClassName(m)}
    OBVIOUS
  <2>2. LET h == [f EXCEPT !.queries = v]
        IN  IsFile(h) /\ h.path = f.path /\ h.marks = f.marks
    BY SourceIs, Rewritten DEF Sorted
  <2> QED
    BY <2>1, <2>2
<1> HIDE DEF g
<1>8. KeepsLayout({f}, {g} \cup {port, adapter})
  BY <1>6, <1>7, LessOfFile
<1>9. {g} \cup {port, adapter} = {g, port, adapter}
  OBVIOUS
<1> QED
  BY <1>2, <1>8, <1>9, EditKeepsSorted DEF g

\* A file of commons that leaves for where what it breaks is of no less account.
LEMMA ClearCommonsKeeps ==
  ASSUME Sorted, NEW rule, NEW place, <<rule, place>> \in Findings, ClearCommons(rule, place)
  PROVE  Sorted'
<1>1. rule = "ARCH-047"
  BY DEF ClearCommons
<1>2. place[1] = "commons"
  <2>1. (\E m \in IterModules : FoundIn(m, rule, place)) \/ FoundOutside(rule, place)
    BY Found
  <2>2. PICK g \in CommonsFiles : place = g.path
    BY <1>1, <2>1 DEF FoundOutside, FoundIn, Inward
  <2> QED
    BY <2>2, SourceIs, BelowOne DEF CommonsFiles, Under, CommonsDir, Sorted
<1>3. CASE \E f \in FilesAt(place) : Rewrite(f, [f EXCEPT !.marks = @ \ {"mutates"}])
  <2>1. PICK f \in sources : Rewrite(f, [f EXCEPT !.marks = f.marks \ {"mutates"}])
    BY <1>3 DEF FilesAt
  <2>2. f.marks \ {"mutates"} \subseteq f.marks /\ IsFile(f)
    BY SourceIs DEF Sorted
  <2> QED
    BY <2>1, <2>2, Rewritten, RewriteKeepsSorted
<1>4. ASSUME NEW f \in sources, f.path = place, NEW home, MoveFile(place, home),
             \/ home = Append(CommonsDir, "services")
             \/ \E m \in IterModules : home = DomainDir(m) \o <<"services", Last(place)>>
             \/ \E m \in IterModules : home = m \o <<"application", Last(place)>>
      PROVE  Sorted'
  <2>1. \A r \in f.marks \cap Rules : r \in Inward
    BY <1>2, <1>4, FitsInCommons DEF Sorted, LaidOut
  <2>2. PICK x : x = Last(place)
    OBVIOUS
  <2>3. IsPath(home) /\ WellNamed(home) /\ \A r \in Inward : Fits(r, home, sources)
    <3>1. CASE home = Append(CommonsDir, "services")
      <4>1. PICK a, b : a = "commons" /\ b = "services"
        OBVIOUS
      <4>2. home = Append(<<a>>, b) /\ IsSeq(<<a>>) /\ Len(<<a>>) = 1 /\ <<a>>[1] = a
        BY <3>1, <4>1, PathOfOne, PathIsSeq DEF CommonsDir
      <4>3. IsPath(home) /\ Len(home) = 2 /\ home[1] = "commons"
        BY <4>1, <4>2, Appending
      <4> QED
        BY <4>3 DEF Fits, WellNamed, InModel, NonContextDirs
    <3>2. ASSUME NEW m \in IterModules, home = DomainDir(m) \o <<"services", x>>
          PROVE  IsPath(home) /\ WellNamed(home) /\ MakesContext(home)
      <4>1. PICK c, n : m = <<c, n>> /\ c \notin NonContextDirs /\ n \notin Reserved
        BY ModuleNames
      <4>2. PICK s : s = "services"
        OBVIOUS
      <4>3. DomainDir(<<c, n>>) \o <<s, x>> = <<c, n, "domain", s, x>>
        BY DirsOfModule
      <4>4. home = <<c, n, "domain", "services", x>>
        BY <3>2, <4>1, <4>2, <4>3, Zenon
      <4> QED
        BY <4>1, <4>4, FileOfServices
    <3>3. ASSUME NEW m \in IterModules, home = m \o <<"application", x>>
          PROVE  IsPath(home) /\ WellNamed(home) /\ MakesContext(home)
      <4>1. PICK c, n : m = <<c, n>> /\ c \notin NonContextDirs /\ n \notin Reserved
        BY ModuleNames
      <4>2. PICK s : s = "application"
        OBVIOUS
      <4>3. <<c, n>> \o <<s, x>> = <<c, n, s, x>>
        BY DirsOfModule
      <4>4. home = <<c, n, "application", x>>
        BY <3>3, <4>1, <4>2, <4>3, Zenon
      <4> QED
        BY <4>1, <4>4, FileOfApplication
    <3>4. CASE IsPath(home) /\ WellNamed(home) /\ MakesContext(home)
      BY <3>4 DEF Fits
    <3> QED
      BY <1>4, <2>2, <3>1, <3>2, <3>3, <3>4
  <2>4. ~MakesContext(f.path) /\ ~InModule(f.path, Layers)
    BY <1>2, <1>4 DEF MakesContext, InContext, InModule, NonContextDirs
  <2> QED
    BY <1>4, <2>1, <2>3, <2>4, FileMoves
<1>5. CASE \E f \in FilesAt(place) : \E home : MoveFile(place, home) /\
             \/ home = Append(CommonsDir, "services")
             \/ \E m \in IterModules : home = DomainDir(m) \o <<"services", Last(place)>>
             \/ \E m \in IterModules : home = m \o <<"application", Last(place)>>
  BY <1>4, <1>5 DEF FilesAt
<1> QED
  BY <1>3, <1>5 DEF ClearCommons

\* The part of a path below a directory, below another.
LEMMA Moved ==
  ASSUME NEW from, NEW to, NEW p, IsSeq(from), IsSeq(to), IsSeq(p), Len(from) < Len(p)
  PROVE  LET q == to \o SubSeq(p, Len(from) + 1, Len(p))
         IN  /\ IsPath(q) /\ Len(q) = Len(to) + (Len(p) - Len(from))
             /\ \A i \in 1 .. Len(to) : q[i] = to[i]
<1> DEFINE q == to \o SubSeq(p, Len(from) + 1, Len(p))
<1>1. PICK j \in Nat \ {0} : j = Len(from) + 1
  BY DEF IsSeq
<1>2. PICK e : e = SubSeq(p, j, Len(p))
  OBVIOUS
<1>3. Len(from) \in Nat /\ Len(p) \in Nat /\ Len(to) \in Nat
  BY DEF IsSeq
<1>4. IsSeq(e) /\ Len(e) = Len(p) - Len(from)
  BY <1>1, <1>2, <1>3, Slicing
<1>5. q = to \o e
  BY <1>1, <1>2
<1>6. Len(e) > 0 /\ Len(e) = Len(p) - Len(from)
  BY <1>3, <1>4
<1>7. /\ IsPath(to \o e) /\ Len(to \o e) = Len(to) + Len(e)
      /\ \A i \in 1 .. Len(to) : (to \o e)[i] = to[i]
  BY <1>4, <1>6, Joining
<1> QED
  BY <1>5, <1>6, <1>7

LEMMA MoveLayerKeeps ==
  ASSUME Sorted, NEW rule, NEW place, <<rule, place>> \in Findings, MoveLayer(rule, place)
  PROVE  Sorted'
<1>1. rule = "ARCH-048"
  BY DEF MoveLayer
<1>2. \/ \E c \in Contexts : place = <<c, "application">>
      \/ \E m \in IterModules : place = Append(m, "infrastructure")
  <2>1. (\E m \in IterModules : FoundIn(m, rule, place)) \/ FoundOutside(rule, place)
    BY Found
  <2> QED
    BY <1>1, <2>1 DEF FoundOutside, FoundIn, Inward
<1>3. CASE \E c \in Contexts : place = <<c, "application">>
  <2>1. PICK c \in Contexts : place = <<c, "application">>
    BY <1>3
  <2>2. PICK a : a = "application"
    OBVIOUS
  <2>3. /\ place = <<c, a>> /\ IsSeq(place) /\ Len(place) = 2 /\ place[1] = c
        /\ c \notin NonContextDirs /\ Last(place) = "application"
    <3>1. place = <<c, a>>
      BY <2>1, <2>2
    <3>2. IsSeq(place) /\ Len(place) = 2 /\ place[1] = c /\ place[2] = a
      BY <3>1, PathOfTwo, PathIsSeq
    <3> QED
      BY <2>2, <3>1, <3>2, NamesAre DEF Last
  <2>4. PICK n \in Modules(c) : MoveDirectory(place, <<c, n, "application">>)
    BY <2>3 DEF MoveLayer
  <2>5. n \notin Reserved
    BY NamesAre
  <2> DEFINE to == <<c, n, a>>
  <2>6. IsSeq(to) /\ Len(to) = 3 /\ to[1] = c /\ to[2] = n /\ to[3] = a
    BY PathOfThree, PathIsSeq
  <2>7. MoveDirectory(place, to)
    BY <2>2, <2>4
  <2> HIDE DEF to
  <2>8. ASSUME NEW f \in Under(place), NEW p,
               p = to \o SubSeq(f.path, Len(place) + 1, Len(f.path))
        PROVE  /\ IsPath(p) /\ WellNamed(p) /\ MakesContext(p) /\ p[1] = f.path[1]
               /\ InModule(f.path, Layers) => f.path[2] = "application"
               /\ \A r \in f.marks \cap Rules : Fits(r, p, sources)
    <3>1. f \in sources /\ IsPath(f.path) /\ Len(f.path) \in Nat
      BY SourceIs DEF Under, Sorted
    <3>2. Len(f.path) > 2 /\ f.path[1] = c /\ f.path[2] = a
      BY <2>3, <3>1, BelowTwo DEF Under
    <3>3. IsPath(p) /\ Len(p) = 3 + (Len(f.path) - 2) /\ \A i \in 1 .. 3 : p[i] = to[i]
      <4>1. IsSeq(place) /\ IsSeq(to) /\ IsSeq(f.path) /\ Len(place) < Len(f.path)
        BY <2>3, <2>6, <3>1, <3>2, PathIsSeq
      <4>2. /\ IsPath(p) /\ Len(p) = Len(to) + (Len(f.path) - Len(place))
            /\ \A i \in 1 .. Len(to) : p[i] = to[i]
        <5>1. PICK u, d, e : u = f.path /\ d = place /\ e = to
          OBVIOUS
        <5>2. IsSeq(d) /\ IsSeq(e) /\ IsSeq(u) /\ Len(d) < Len(u)
          BY <4>1, <5>1
        <5>3. p = e \o SubSeq(u, Len(d) + 1, Len(u))
          BY <2>8, <5>1
        <5>4. /\ IsPath(p) /\ Len(p) = Len(e) + (Len(u) - Len(d))
              /\ \A i \in 1 .. Len(e) : p[i] = e[i]
          BY <5>2, <5>3, Moved
        <5> QED
          BY <5>1, <5>4
      <4> QED
        BY <2>3, <2>6, <4>2
    <3>4. Len(p) > 3 /\ p[1] = c /\ p[2] = n /\ p[3] = "application"
      BY <2>2, <2>6, <3>1, <3>2, <3>3
    <3>5. InModule(p, {"application"}) /\ MakesContext(p) /\ WellNamed(p)
      BY <2>3, <2>5, <3>4 DEF InModule, MakesContext, WellNamed, InModel, Layers
    <3>6. ASSUME NEW r \in f.marks \cap Rules
          PROVE  Fits(r, p, sources)
      <4>1. Fits(r, f.path, sources)
        BY <3>1 DEF Sorted, LaidOut
      <4>2. r \in Inward \/ r = "ARCH-030" \/ InModel(f.path)
        BY <2>3, <3>1, <3>2, <4>1, FitsInContext
      <4>3. CASE r \in Inward \/ r = "ARCH-030"
        BY <3>5, <4>3 DEF Fits
      <4>4. CASE InModel(f.path) /\ r \notin Inward /\ r # "ARCH-030"
        BY <2>2, <2>3, <3>2, <4>1, <4>4 DEF Fits, NonContextDirs
      <4> QED
        BY <4>2, <4>3, <4>4
    <3> QED
      BY <2>2, <3>2, <3>3, <3>4, <3>5, <3>6
  <2> QED
    BY <2>7, <2>8, DirectoryMoves
<1>4. CASE \E m \in IterModules : place = Append(m, "infrastructure")
  <2>1. PICK m \in IterModules : place = Append(m, "infrastructure")
    BY <1>4
  <2>2. PICK c, n : m = <<c, n>> /\ c \notin NonContextDirs /\ n \notin Reserved
    BY ModuleNames
  <2>3. PICK a, b : a = "infrastructure" /\ b = "adapters"
    OBVIOUS
  <2>4. /\ place = <<c, n, a>> /\ IsSeq(place) /\ Len(place) = 3
        /\ place[1] = c /\ place[2] = n /\ place[3] = a
    <3>1. place = <<c, n, a>>
      BY <2>1, <2>2, <2>3, AppendToTwo, Zenon
    <3> QED
      BY <3>1, PathOfThree, PathIsSeq
  <2> DEFINE to == <<c, n, b>>
  <2>5. IsSeq(to) /\ Len(to) = 3 /\ to[1] = c /\ to[2] = n /\ to[3] = b
    BY PathOfThree, PathIsSeq
  <2>6. MoveDirectory(place, to)
    <3>1. Last(place) = "infrastructure"
      BY <2>3, <2>4 DEF Last
    <3>2. MoveDirectory(place, Append(ModuleOf(place), "adapters"))
      BY <3>1 DEF MoveLayer
    <3>3. ModuleOf(place) = <<c, n>>
      BY <2>4, ModuleOfIs
    <3>4. Append(ModuleOf(place), "adapters") = to
      BY <2>3, <3>3, AppendToTwo, Zenon
    <3> QED
      BY <3>2, <3>4
  <2> HIDE DEF to
  <2>7. ASSUME NEW f \in Under(place), NEW p,
               p = to \o SubSeq(f.path, Len(place) + 1, Len(f.path))
        PROVE  /\ IsPath(p) /\ WellNamed(p) /\ MakesContext(p) /\ p[1] = f.path[1]
               /\ InModule(f.path, Layers) => f.path[2] = "application"
               /\ \A r \in f.marks \cap Rules : Fits(r, p, sources)
    <3>1. f \in sources /\ IsPath(f.path) /\ Len(f.path) \in Nat
      BY SourceIs DEF Under, Sorted
    <3>2. Len(f.path) > 3 /\ f.path[1] = c /\ f.path[2] = n /\ f.path[3] = a
      BY <2>4, <3>1, BelowThree DEF Under
    <3>3. IsPath(p) /\ Len(p) = 3 + (Len(f.path) - 3) /\ \A i \in 1 .. 3 : p[i] = to[i]
      <4>1. IsSeq(place) /\ IsSeq(to) /\ IsSeq(f.path) /\ Len(place) < Len(f.path)
        BY <2>4, <2>5, <3>1, <3>2, PathIsSeq
      <4>2. /\ IsPath(p) /\ Len(p) = Len(to) + (Len(f.path) - Len(place))
            /\ \A i \in 1 .. Len(to) : p[i] = to[i]
        <5>1. PICK u, d, e : u = f.path /\ d = place /\ e = to
          OBVIOUS
        <5>2. IsSeq(d) /\ IsSeq(e) /\ IsSeq(u) /\ Len(d) < Len(u)
          BY <4>1, <5>1
        <5>3. p = e \o SubSeq(u, Len(d) + 1, Len(u))
          BY <2>7, <5>1
        <5>4. /\ IsPath(p) /\ Len(p) = Len(e) + (Len(u) - Len(d))
              /\ \A i \in 1 .. Len(e) : p[i] = e[i]
          BY <5>2, <5>3, Moved
        <5> QED
          BY <5>1, <5>4
      <4> QED
        BY <2>4, <2>5, <4>2
    <3>4. Len(p) > 3 /\ p[1] = c /\ p[2] = n /\ p[3] = "adapters"
      BY <2>3, <2>5, <3>1, <3>2, <3>3
    <3>5. MakesContext(p) /\ WellNamed(p)
      BY <2>2, <3>4 DEF InModule, MakesContext, WellNamed, InModel, Layers
    <3>6. ~InModule(f.path, Layers) /\ ~InModule(f.path, {"application"}) /\ ~InModel(f.path)
      BY <2>3, <3>2 DEF InModule, InModel, Layers
    <3>7. ASSUME NEW r \in f.marks \cap Rules
          PROVE  Fits(r, p, sources)
      <4>1. Fits(r, f.path, sources)
        BY <3>1 DEF Sorted, LaidOut
      <4>2. r \in Inward
        BY <2>2, <2>3, <3>1, <3>2, <3>6, <4>1, FitsInContext
      <4> QED
        BY <3>5, <4>2 DEF Fits
    <3> QED
      BY <3>2, <3>3, <3>4, <3>5, <3>6, <3>7
  <2> QED
    BY <2>6, <2>7, DirectoryMoves
<1> QED
  BY <1>2, <1>3, <1>4

\* A line in a domain, and one of an aggregate.
LEMMA FitsInDomain ==
  ASSUME Sorted, NEW f \in sources, NEW r \in f.marks \cap Rules,
         Len(f.path) > 3, f.path[1] \notin NonContextDirs, f.path[3] = "domain"
  PROVE  r \in Inward \/ InModel(f.path)
<1>1. Fits(r, f.path, sources) /\ Len(f.path) \in Nat
  BY SourceIs DEF Sorted, LaidOut
<1> QED
  BY <1>1, FitsInContext DEF InModule

LEMMA FitsInAggregate ==
  ASSUME Sorted, NEW f \in sources, NEW r \in f.marks \cap Rules, InModel(f.path),
         Last(f.path) \notin ReservedModelFiles
  PROVE  \/ r \in Inward
         \/ r \in {"ARCH-018", "ARCH-019", "ARCH-041"} /\ f.path[2] # "application"
<1>1. Fits(r, f.path, sources) /\ Len(f.path) \in Nat
  BY SourceIs DEF Sorted, LaidOut
<1>2. Len(f.path) > 3 /\ f.path[1] \notin NonContextDirs /\ f.path[3] = "domain"
  BY <1>1 DEF InModel, InModule
<1>3. PICK p : p = f.path
  OBVIOUS
<1>4. /\ Fits(r, p, sources) /\ Len(p) > 3 /\ p[1] \notin NonContextDirs
      /\ p[3] = "domain" /\ Last(p) \notin ReservedModelFiles
  BY <1>1, <1>2, <1>3
<1>5. r \in Inward \/ (r \in {"ARCH-018", "ARCH-019", "ARCH-041"} /\ p[2] # "application")
  BY <1>4 DEF Fits, InModule, InContext, NonContextDirs, ReservedModelFiles
<1> QED
  BY <1>3, <1>5

\* An aggregate that moves into a module of that name or another.
LEMMA AggregateMoves ==
  ASSUME Sorted, NEW f \in sources, InModel(f.path), Last(f.path) \notin ReservedModelFiles,
         NEW n, n \notin Reserved, n = "application" => f.path[2] = "application",
         MoveFile(f.path, Append(ModelDir(<<f.path[1], n>>), "aggregate")),
         \/ n = f.path[2]
         \/ \E g \in sources \ {f} : /\ InModule(g.path, Layers)
                                     /\ g.path[1] = f.path[1] /\ g.path[2] = f.path[2]
  PROVE  Sorted'
<1> DEFINE c == f.path[1]
           to == <<c, n, "domain", "model", "aggregate">>
           after == (sources \ {f}) \cup {[f EXCEPT !.path = to]}
<1>1. Append(ModelDir(<<c, n>>), "aggregate") = to
  BY DirsOfModule
<1>2. c \notin NonContextDirs
  BY DEF InModel, InModule
<1>3. /\ IsPath(to) /\ WellNamed(to) /\ Last(to) = "aggregate" /\ to[1] = c /\ to[2] = n
      /\ InModel(to) /\ InModule(to, Layers) /\ MakesContext(to)
  <2>1. PICK k : k = c
    OBVIOUS
  <2>2. PICK x : x = "aggregate"
    OBVIOUS
  <2>3. x \notin Reserved \cup {"application"}
    BY <2>2 DEF Reserved
  <2>4. to = <<k, n, "domain", "model", x>> /\ k \notin NonContextDirs
    BY <1>2, <2>1, <2>2
  <2> DEFINE p == <<k, n, "domain", "model", x>>
  <2>6. /\ IsPath(p) /\ WellNamed(p) /\ Last(p) = x /\ p[1] = k /\ p[2] = n
        /\ InModel(p) /\ InModule(p, Layers) /\ MakesContext(p)
    BY <2>3, <2>4, FileOfModel
  <2>7. to = p
    BY <2>4
  <2> HIDE DEF to, p
  <2>5. /\ IsPath(to) /\ WellNamed(to) /\ Last(to) = x /\ to[1] = k /\ to[2] = n
        /\ InModel(to) /\ InModule(to, Layers) /\ MakesContext(to)
    BY <2>6, <2>7, Zenon
  <2> QED
    BY <2>1, <2>2, <2>5
<1> HIDE DEF to
<1>4. ASSUME NEW r \in f.marks \cap Rules
      PROVE  Fits(r, to, sources)
  <2>1. CASE r \in Inward
    BY <1>3, <2>1 DEF Fits
  <2>2. CASE r \in {"ARCH-018", "ARCH-019", "ARCH-041"} /\ f.path[2] # "application"
    <3>1. to[2] # "application"
      BY <1>3, <2>2
    <3> QED
      BY <1>3, <2>2, <3>1 DEF Fits, ReservedModelFiles
  <2> QED
    BY <2>1, <2>2, FitsInAggregate
<1>5. [f EXCEPT !.path = to].path = to
  BY <1>3, SourceIs, Elsewhere DEF Sorted
<1>6. IsContext(c, after)
  BY <1>3, <1>5 DEF IsContext
<1>7. IsModule(c, f.path[2], after)
  <2>1. CASE n = f.path[2]
    BY <1>3, <1>5, <2>1 DEF IsModule
  <2>2. CASE \E g \in sources \ {f} : /\ InModule(g.path, Layers)
                                      /\ g.path[1] = c /\ g.path[2] = f.path[2]
    BY <2>2 DEF IsModule
  <2> QED
    BY <2>1, <2>2
<1>8. MoveFile(f.path, to)
  BY <1>1
<1> QED
  BY <1>3, <1>4, <1>6, <1>7, <1>8, FileMoves

LEMMA OneAggregateKeeps ==
  ASSUME Sorted, NEW rule, NEW place, <<rule, place>> \in Findings, OneAggregate(rule, place)
  PROVE  Sorted'
<1>1. rule = "ARCH-049"
  BY DEF OneAggregate
<1>2. PICK m \in IterModules : place = ModelDir(m)
  <2>1. (\E m \in IterModules : FoundIn(m, rule, place)) \/ FoundOutside(rule, place)
    BY Found
  <2> QED
    BY <1>1, <2>1 DEF FoundOutside, FoundIn, Inward
<1>3. PICK c, n : m = <<c, n>> /\ c \notin NonContextDirs /\ n \notin Reserved
  BY ModuleNames
<1>4. ModuleOf(place) = m
  <2>1. PICK domain, model : domain = "domain" /\ model = "model"
    OBVIOUS
  <2>2. place = <<c, n, domain, model>>
    BY <1>2, <1>3, <2>1, DirsOfModule
  <2>3. place[1] = c /\ place[2] = n
    BY <2>2, PathOfFour
  <2> QED
    BY <1>3, <2>3, ModuleOfIs
<1>5. \A f \in AggregateFiles(m) :
        /\ f \in sources /\ f \in DirectlyIn(ModelDir(m)) /\ Stem(f) = Last(f.path)
        /\ Last(f.path) \notin ReservedModelFiles
  BY DEF AggregateFiles, DirectlyIn, Stem
<1>6. \A f \in AggregateFiles(m) :
        /\ InModel(f.path) /\ f.path[1] = c /\ f.path[2] = n
        /\ Last(f.path) \notin Reserved \cup {"application"}
  <2>1. ASSUME NEW f \in AggregateFiles(m)
        PROVE  /\ InModel(f.path) /\ <<c, n>> = <<f.path[1], f.path[2]>>
               /\ Last(f.path) \notin Reserved \cup {"application"}
    BY <1>3, <1>5, InModelOfModule
  <2> QED
    BY <2>1
<1> DEFINE root == Append(place, "aggregate")
<1>7. CASE \E class : Add([Blank(root) EXCEPT !.classes = {class}])
  <2>1. PICK v : Add([Blank(root) EXCEPT !.classes = v])
    BY <1>7
  <2>2. IsPath(root) /\ WellNamed(root)
    <3>1. PICK x : x = "aggregate" /\ x \notin Reserved \cup {"application"}
      BY DEF Reserved
    <3>2. root = <<c, n, "domain", "model", x>>
      BY <1>2, <1>3, <3>1, DirsOfModule
    <3> HIDE DEF root
    <3> QED
      BY <3>1, <3>2, FileOfModel, Zenon
  <2> HIDE DEF root
  <2> DEFINE g == [Blank(root) EXCEPT !.classes = v]
  <2>3. IsFile(g) /\ g.path = root /\ g.marks = {}
    <3>1. IsFile(Blank(root)) /\ Blank(root).path = root /\ Blank(root).marks = {}
      BY <2>2, BlankIsFile
    <3>2. PICK b : b = Blank(root)
      OBVIOUS
    <3>3. LET h == [b EXCEPT !.classes = v]
          IN  IsFile(h) /\ h.path = b.path /\ h.marks = b.marks
      <4>1. IsFile(b)
        BY <3>1, <3>2
      <4> QED
        BY <4>1, Rewritten
    <3> QED
      BY <3>1, <3>2, <3>3
  <2> HIDE DEF g
  <2>4. KeepsLayout({}, {g})
    BY <2>2, <2>3 DEF KeepsLayout
  <2> QED
    BY <2>1, <2>4, EditKeepsSorted DEF Add, g
<1>8. CASE \E f \in AggregateFiles(m) : MoveFile(f.path, root)
  <2>1. PICK f \in AggregateFiles(m) : MoveFile(f.path, root)
    BY <1>8
  <2>2. root = Append(ModelDir(<<f.path[1], n>>), "aggregate")
    BY <1>2, <1>3, <1>6
  <2> HIDE DEF root
  <2>3. MoveFile(f.path, Append(ModelDir(<<f.path[1], n>>), "aggregate"))
    BY <2>1, <2>2
  <2> QED
    BY <1>3, <1>5, <1>6, <2>3, AggregateMoves
<1>9. CASE /\ Cardinality(AggregateFiles(m)) > 1
           /\ \E f \in AggregateFiles(m) :
                MoveFile(f.path, Append(ModelDir(<<m[1], Stem(f)>>), "aggregate"))
  <2>1. PICK f \in AggregateFiles(m) :
          MoveFile(f.path, Append(ModelDir(<<f.path[1], Stem(f)>>), "aggregate"))
    BY <1>3, <1>6, <1>9
  <2>2. PICK g \in AggregateFiles(m) : g # f
    <3>1. CASE AggregateFiles(m) = {f}
      <4>1. Cardinality({f}) = 1
        BY FS_Singleton
      <4>2. Cardinality(AggregateFiles(m)) = 1
        BY <3>1, <4>1, Zenon
      <4> QED
        BY <1>9, <4>2
    <3> QED
      BY <3>1
  <2>3. g \in sources \ {f} /\ InModule(g.path, Layers)
    BY <1>5, <1>6, <2>2 DEF InModel, InModule, Layers
  <2>4. Stem(f) \notin Reserved /\ Stem(f) # "application"
    BY <1>5, <1>6
  <2> QED
    BY <1>5, <1>6, <2>1, <2>2, <2>3, <2>4, AggregateMoves
<1> QED
  BY <1>4, <1>7, <1>8, <1>9 DEF OneAggregate

LEMMA RenameServiceKeeps ==
  ASSUME Sorted, NEW rule, NEW place, <<rule, place>> \in Findings, RenameService(rule, place)
  PROVE  Sorted'
<1>1. rule = "ARCH-054"
  BY DEF RenameService
<1>2. PICK m \in IterModules : FoundIn(m, rule, place)
  BY <1>1, Found DEF FoundOutside, Inward
<1>3. PICK c, n : m = <<c, n>> /\ c \notin NonContextDirs /\ n \notin Reserved
  BY ModuleNames
<1>4. PICK f \in sources :
        place = f.path /\ (f.path = Append(DomainDir(m), "services") \/ f \in Services(m))
  BY <1>1, <1>2 DEF FoundIn, Inward, Services, DirectlyIn
<1>5. /\ Len(f.path) > 3 /\ f.path[1] = c /\ f.path[2] = n
      /\ f.path[3] = "domain" /\ f.path[4] = "services"
  <2>1. /\ Len(f.path) = 4 \/ Len(f.path) = 5
        /\ f.path[1] = c /\ f.path[2] = n /\ f.path[3] = "domain" /\ f.path[4] = "services"
    BY <1>3, <1>4, InServices DEF Sorted
  <2> QED
    BY <2>1
<1>6. PICK x : MoveFile(place, DomainDir(m) \o <<"services", x>>)
  <2>1. ModuleOf(place) = m
    BY <1>3, <1>4, <1>5, ModuleOfIs
  <2> QED
    BY <2>1 DEF RenameService
<1> DEFINE to == <<c, n, "domain", "services", x>>
<1>7. DomainDir(m) \o <<"services", x>> = to
  <2>1. PICK s : s = "services"
    OBVIOUS
  <2>2. DomainDir(<<c, n>>) \o <<s, x>> = <<c, n, "domain", s, x>>
    BY DirsOfModule
  <2> QED
    BY <1>3, <2>1, <2>2, Zenon
<1>8. /\ IsPath(to) /\ WellNamed(to) /\ to[1] = c /\ to[2] = n
      /\ InModule(to, Layers) /\ MakesContext(to)
  BY <1>3, FileOfServices
<1> HIDE DEF to
<1>9. \A r \in f.marks \cap Rules : Fits(r, to, sources)
  <2>1. ~InModel(f.path)
    BY <1>5 DEF InModel
  <2>2. \A r \in f.marks \cap Rules : r \in Inward
    BY <1>3, <1>5, <2>1, FitsInDomain
  <2> QED
    BY <1>8, <2>2 DEF Fits
<1> DEFINE after == (sources \ {f}) \cup {[f EXCEPT !.path = to]}
<1>10. [f EXCEPT !.path = to].path = to
  BY <1>8, SourceIs, Elsewhere DEF Sorted
<1>11. IsContext(f.path[1], after) /\ IsModule(f.path[1], f.path[2], after)
  BY <1>5, <1>8, <1>10 DEF IsContext, IsModule
<1>12. MoveFile(f.path, to)
  BY <1>4, <1>6, <1>7
<1> QED
  BY <1>8, <1>9, <1>11, <1>12, FileMoves

\* What goes is in commons, and nothing is marked in what comes.
LEMMA MendInitFilesKeeps ==
  ASSUME Sorted, NEW rule, NEW place, MendInitFiles(rule, place)
  PROVE  Sorted'
<1> DEFINE gone == {f \in sources : f.path \in InitFilesOfPortions}
           init(d) == Append(d, "__init__")
           new == {Blank(init(d)) : d \in PackagesWithoutInit}
<1>1. ASSUME NEW f \in gone
      PROVE  f.path[1] = "commons"
  <2>1. PICK a, b, i : a = "commons" /\ b = "adapters" /\ i = "__init__"
    OBVIOUS
  <2>2. f.path = Append(<<a>>, i) \/ f.path = Append(<<a, b>>, i)
    BY <2>1 DEF InitFilesOfPortions, Portions, CommonsDir, CommonsAdapters
  <2>3. /\ IsSeq(<<a>>) /\ Len(<<a>>) = 1 /\ <<a>>[1] = a
        /\ IsSeq(<<a, b>>) /\ Len(<<a, b>>) = 2 /\ <<a, b>>[1] = a
    BY PathOfOne, PathOfTwo, PathIsSeq
  <2>4. Append(<<a>>, i)[1] = a /\ Append(<<a, b>>, i)[1] = a
    BY <2>3, Appending
  <2> QED
    BY <2>1, <2>2, <2>4
<1>2. \A f \in gone : ~MakesContext(f.path) /\ ~InModule(f.path, Layers)
  BY <1>1 DEF MakesContext, InContext, InModule, NonContextDirs
<1>3. ASSUME NEW d \in PackagesWithoutInit
      PROVE  /\ IsFile(Blank(init(d))) /\ WellNamed(Blank(init(d)).path)
             /\ Blank(init(d)).marks = {}
  <2>1. PICK i : i = "__init__" /\ i \notin Reserved \cup {"application"}
    BY DEF Reserved
  <2>2. IsSeq(d)
    BY AtPackage DEF Sorted
  <2>3. IsPath(init(d)) /\ Last(init(d)) = i
    BY <2>1, <2>2, Appending
  <2>4. WellNamed(init(d))
    BY <2>1, <2>3 DEF WellNamed
  <2> HIDE DEF init
  <2> QED
    BY <2>3, <2>4, BlankIsFile
<1> HIDE DEF init
<1>4. \A g \in new : IsFile(g) /\ WellNamed(g.path) /\ g.marks = {}
  BY <1>3
<1>5. KeepsLayout(gone, new)
  <2> HIDE DEF gone, new
  <2> QED
    BY <1>2, <1>4 DEF KeepsLayout
<1>6. Edit(gone, new, Unmoved)
  BY DEF MendInitFiles, init
<1> QED
  BY <1>5, <1>6, EditKeepsSorted

LEMMA SplitEntrypointKeeps ==
  ASSUME Sorted, NEW rule, NEW place, <<rule, place>> \in Findings, SplitEntrypoint(rule, place)
  PROVE  Sorted'
<1> DEFINE serves(f, m) == {u \in f.uses : \A n \in Touched(place[1], f) \ {m} :
                                           ~Within(u, <<place[1], n>>)}
           part(f, m) == [f EXCEPT !.path = Append(Front(place), m), !.uses = serves(f, m)]
           parts(f) == {part(f, m) : m \in Touched(place[1], f)}
<1>1. rule = "ARCH-056"
  BY DEF SplitEntrypoint
<1>2. PICK f \in sources :
        f.path = place /\ \E moves : Edit({f}, parts(f), moves)
  BY DEF SplitEntrypoint, FilesAt
<1>3. PICK moves : Edit({f}, parts(f), moves)
  BY <1>2
<1>4. PICK c \in Contexts : \E g \in Under(<<c, "entrypoints">>) :
          place = g.path /\ Cardinality(Touched(c, g)) > 1
  BY <1>1, Found DEF FoundOutside, FoundIn, Inward
<1>5. f \in Under(<<c, "entrypoints">>) /\ Cardinality(Touched(c, f)) > 1
  <2>1. PICK g \in Under(<<c, "entrypoints">>) :
          place = g.path /\ Cardinality(Touched(c, g)) > 1
    BY <1>4
  <2>2. g = f
    BY <1>2, <2>1 DEF Under, Sorted, Typed, AreFiles
  <2> QED
    BY <2>1, <2>2
<1>6. IsFile(f) /\ IsPath(f.path) /\ Len(f.path) \in Nat
  BY SourceIs DEF Sorted
<1>7. /\ Len(f.path) > 2 /\ f.path[1] = c /\ f.path[2] = "entrypoints"
      /\ c \notin NonContextDirs
  <2>1. PICK e : e = "entrypoints"
    OBVIOUS
  <2>2. IsStrictPrefix(<<c, e>>, f.path)
    BY <1>5, <2>1 DEF Under
  <2> QED
    BY <1>6, <2>1, <2>2, BelowTwo, NamesAre
<1>8. ASSUME NEW m
      PROVE  LET p == Append(Front(place), m)
             IN  /\ IsPath(p) /\ MakesContext(p) /\ WellNamed(p) /\ p[1] = c
  <2> DEFINE p == Append(Front(place), m)
  <2>1. /\ IsSeq(Front(place)) /\ Len(Front(place)) = Len(place) - 1
        /\ \A i \in 1 .. Len(place) - 1 : Front(place)[i] = place[i]
    BY <1>2, <1>6, FrontIs
  <2>2. /\ IsPath(p) /\ Len(p) = Len(Front(place)) + 1
        /\ \A i \in 1 .. Len(Front(place)) : p[i] = Front(place)[i]
    BY <2>1, Appending
  <2> HIDE DEF p
  <2>3. Len(place) \in Nat /\ Len(place) > 2 /\ place[1] = c /\ place[2] = "entrypoints"
    BY <1>2, <1>6, <1>7
  <2>4. Len(p) > 2 /\ p[1] = c /\ p[2] = "entrypoints"
    BY <2>1, <2>2, <2>3
  <2>5. MakesContext(p) /\ WellNamed(p)
    BY <1>7, <2>4 DEF MakesContext, InContext, WellNamed, InModel, InModule, Reserved
  <2> QED
    BY <2>2, <2>4, <2>5 DEF p
<1>9. ASSUME NEW m
      PROVE  /\ IsFile(part(f, m)) /\ part(f, m).path = Append(Front(place), m)
             /\ part(f, m).marks = f.marks
  <2>1. PICK p, v : p = Append(Front(place), m) /\ v = serves(f, m)
    OBVIOUS
  <2>2. IsPath(p)
    BY <1>8, <2>1
  <2> DEFINE g == [f EXCEPT !.path = p, !.uses = v]
  <2>3. IsFile(g) /\ g.path = p /\ g.marks = f.marks
    BY <1>6, <2>2, HasFields DEF IsFile, HasCommits
  <2>4. part(f, m) = g
    BY <2>1
  <2> HIDE DEF g, part
  <2> QED
    BY <2>1, <2>3, <2>4
<1> HIDE DEF part
<1>10. \A r \in f.marks \cap Rules : r \in Inward
  <2>1. ~InModule(f.path, {"application"}) /\ ~InModel(f.path) /\ f.path[2] # "application"
    BY <1>7 DEF InModule, InModel, Reserved
  <2>2. \A r \in f.marks \cap Rules : Fits(r, f.path, sources)
    BY DEF Sorted, LaidOut
  <2> QED
    BY <1>6, <1>7, <2>1, <2>2, FitsInContext
<1>11. \A g \in parts(f) : /\ IsFile(g) /\ WellNamed(g.path) /\ MakesContext(g.path)
                           /\ g.path[1] = c /\ g.marks = f.marks
  BY <1>8, <1>9
<1>12. parts(f) # {}
  <2>1. Touched(c, f) # {}
    <3>1. Cardinality({}) = 0
      BY FS_EmptySet
    <3>2. ASSUME Touched(c, f) = {} PROVE FALSE
      <4>1. Cardinality(Touched(c, f)) = 0
        BY <3>1, <3>2, Zenon
      <4> QED
        BY <1>5, <4>1
    <3> QED
      BY <3>2
  <2>2. place[1] = c
    BY <1>2, <1>7
  <2> QED
    BY <2>1, <2>2
<1> HIDE DEF parts
<1>13. KeepsLayout({f}, parts(f))
  <2>1. \A g \in parts(f) : \A r \in g.marks \cap Rules : Fits(r, g.path, sources)
    BY <1>10, <1>11 DEF Fits
  <2>2. IsContext(f.path[1], (sources \ {f}) \cup parts(f))
    BY <1>7, <1>11, <1>12 DEF IsContext
  <2>3. ~InModule(f.path, Layers)
    BY <1>7 DEF InModule, Reserved
  <2> QED
    BY <1>11, <2>1, <2>2, <2>3 DEF KeepsLayout
<1> QED
  BY <1>3, <1>13, EditKeepsSorted

LEMMA MoveTestKeeps ==
  ASSUME Sorted, NEW rule, NEW place, MoveTest(rule, place)
  PROVE  Sorted'
<1>1. PICK t \in tests : \E dir \in ContentDirs(t) :
        tests' = Merged(tests \ {t}, {[t EXCEPT !.path = Append(dir, Stem(t))]})
  BY DEF MoveTest
<1>2. PICK dir \in ContentDirs(t) :
        tests' = Merged(tests \ {t}, {[t EXCEPT !.path = Append(dir, Stem(t))]})
  BY <1>1
<1>3. PICK f \in sources : dir = Front(f.path)
  BY DEF ContentDirs, Paths
<1>4. PICK p : p = Append(dir, Stem(t))
  OBVIOUS
<1>5. IsPath(p)
  <2>1. IsSeq(dir)
    BY <1>3, SourceIs, FrontIs DEF Sorted
  <2> QED
    BY <1>4, <2>1, Appending
<1> DEFINE u == [t EXCEPT !.path = p]
<1>6. IsFile(u)
  BY <1>5, TestIs, Elsewhere DEF Sorted
<1>7. tests' = Merged(tests \ {t}, {u})
  BY <1>2, <1>4
<1> HIDE DEF u
<1>8. AreFiles(Merged(tests \ {t}, {u}))
  <2>1. \A g \in (tests \ {t}) \cup {u} : IsFile(g)
    BY <1>6, TestIs DEF Sorted
  <2>2. \A g, h \in tests \ {t} : g.path = h.path => g = h
    BY DEF Sorted, Typed, AreFiles
  <2> QED
    BY <2>1, <2>2, MergedFiles
<1>9. UNCHANGED sources
  BY DEF MoveTest
<1> QED
  BY <1>7, <1>8, <1>9, TestsKeepSorted

-----------------------------------------------------------------------------
(* The layout is kept *)

LEMMA RepairKeepsSorted ==
  ASSUME Sorted, NEW rule, NEW place, <<rule, place>> \in Findings, Repair(rule, place)
  PROVE  Sorted'
BY RewriteLineKeeps, TakeOutAdapterKeeps, OpenUnitOfWorkKeeps, SplitAggregateKeeps,
   ClearCommonsKeeps, MoveLayerKeeps, OneAggregateKeeps, MoveToFinderKeeps,
   RenameServiceKeeps, MendInitFilesKeeps, SplitEntrypointKeeps, MoveTestKeeps
DEF Repair

\* Findings are pairs.
LEMMA FindingIs ==
  ASSUME NEW finding \in Findings
  PROVE  \E rule, place : finding = <<rule, place>>
<1>1. \A m : \A x \in ModuleFindings(m) : \E rule, place : x = <<rule, place>>
  <2> SUFFICES ASSUME NEW m, NEW x \in ModuleFindings(m)
               PROVE  \E rule, place : x = <<rule, place>>
    OBVIOUS
  <2>1. \A rules, files : \A y \in Marked(rules, files) : \E rule, place : y = <<rule, place>>
    BY DEF Marked
  <2>2. CASE x \in BannedSymbols(Under(DomainDir(m)), ApplicationFiles(m))
                   \cup DomainEvents(m) \cup ValueObjects(m) \cup AggregateEncapsulation(m)
                   \cup ServiceSize(m) \cup PromotionThresholds(m)
    BY <2>1, <2>2 DEF BannedSymbols, DomainEvents, ValueObjects, AggregateEncapsulation,
                      ServiceSize, PromotionThresholds
  <2>3. CASE x \in UnitOfWorkCommit(m)
    BY <2>3 DEF UnitOfWorkCommit
  <2>4. CASE x \in OneAggregatePerModule(m) \cup NoLegacyAdaptersLayer(m)
    BY <2>4 DEF OneAggregatePerModule, NoLegacyAdaptersLayer
  <2>5. CASE x \in RepositoriesAreNotQueries(m)
    BY <2>5 DEF RepositoriesAreNotQueries
  <2>6. CASE x \in DomainServicesLocation(m)
    <3>1. CASE Append(DomainDir(m), "services") \in Paths
      BY <2>6, <3>1 DEF DomainServicesLocation
    <3>2. CASE Append(DomainDir(m), "services") \notin Paths
      BY <2>6, <3>2 DEF DomainServicesLocation
    <3> QED
      BY <3>1, <3>2
  <2> QED
    BY <2>2, <2>3, <2>4, <2>5, <2>6 DEF ModuleFindings
<1>2. CASE finding \in CommonsIsLimited \cup NoContextApplication \cup InitFilesPresent
  BY <1>2 DEF CommonsIsLimited, NoContextApplication, InitFilesPresent
<1>3. CASE finding \in BannedSymbols(CommonsFiles, {}) \cup BootstrapNoAdapters \cup TestNaming
  BY <1>3 DEF BannedSymbols, BootstrapNoAdapters, TestNaming, Marked
<1>4. CASE finding \in EntrypointSingleAggregate
  BY <1>4 DEF EntrypointSingleAggregate
<1>5. CASE finding \in TestMirrorsSource
  BY <1>5 DEF TestMirrorsSource
<1> DEFINE ofModules == UNION {ModuleFindings(m) : m \in IterModules}
<1>6. finding \in ofModules
        \cup BannedSymbols(CommonsFiles, {}) \cup CommonsIsLimited
        \cup NoContextApplication \cup InitFilesPresent
        \cup EntrypointSingleAggregate \cup BootstrapNoAdapters
        \cup TestNaming \cup TestMirrorsSource
  BY DEF Findings
<1>7. finding \in ofModules => \E rule, place : finding = <<rule, place>>
  BY <1>1
<1> HIDE DEF ofModules
<1> QED
  BY <1>2, <1>3, <1>4, <1>5, <1>6, <1>7

\* In every project a repair leaves, files have the fields of files and a path each,
\* there is a context, and every line is where its like are.
THEOREM StaysSorted == Spec => []Sorted
<1>1. Init => Sorted
  BY ProjectsAssumption, LayoutAssumption DEF Init, Sorted, Typed
<1>2. Sorted /\ [Next]_vars => Sorted'
  <2>1. ASSUME Sorted, Next
        PROVE  Sorted'
    <3>1. PICK finding \in Findings : Repair(finding[1], finding[2])
      BY <2>1 DEF Next
    <3>2. PICK rule, place : finding = <<rule, place>>
      BY FindingIs
    <3>3. Repair(rule, place) /\ <<rule, place>> \in Findings
      BY <3>1, <3>2
    <3> QED
      BY <2>1, <3>3, RepairKeepsSorted
  <2>2. Sorted /\ UNCHANGED vars => Sorted'
    BY DEF vars, Sorted, Typed, LaidOut
  <2> QED
    BY <2>1, <2>2
<1> QED
  BY <1>1, <1>2, PTL DEF Spec

\* Files have the fields of files, a path names one of them, and a finding is about
\* a file or a directory there is.
THEOREM TypeCorrect == Spec => []TypeOK
<1>1. ASSUME Sorted
      PROVE  TypeOK
  <2>1. ASSUME NEW finding \in Findings, finding[1] # "ARCH-049"
        PROVE  \E f \in sources \cup tests : Within(f.path, finding[2])
    <3>1. PICK rule, place : finding = <<rule, place>>
      BY FindingIs
    <3>2. rule # "ARCH-049" /\ <<rule, place>> \in Findings
      BY <2>1, <3>1
    <3>3. \E f \in sources \cup tests : Within(f.path, place)
      BY <1>1, <3>2, PlaceIs DEF Sorted
    <3> QED
      BY <3>1, <3>3
  <2> QED
    BY <1>1, <2>1 DEF Sorted, Typed, TypeOK
<1> QED
  BY <1>1, StaysSorted, PTL

\* Whatever is scanned and however it was repaired, one scan reports a commit that
\* no `with` of its own function contains, and none any other.
THEOREM OneScanReports == Spec => []CommitReportedOnce
<1>1. Sorted => CommitReportedOnce
  <2> SUFFICES ASSUME Sorted, NEW f \in sources, NEW c \in f.commits
               PROVE  Cardinality(ScansThatReport(c)) =
                        IF \E i \in DOMAIN c.chain : Encloses(i, c) THEN 0 ELSE 1
    BY DEF CommitReportedOnce
  <2>1. c \in Commit
    BY SourceIs DEF Sorted, IsFile, HasCommits
  <2> QED
    BY <2>1, ReportsOnce
<1> QED
  BY <1>1, StaysSorted, PTL

-----------------------------------------------------------------------------
(* Nothing hidden *)

\* What the three checks put together.
LEMMA Reported ==
  ASSUME IsScannable
  PROVE  /\ \A m \in IterModules : ModuleFindings(m) \subseteq Findings
         /\ BannedSymbols(CommonsFiles, {}) \subseteq Findings
         /\ NoContextApplication \subseteq Findings
         /\ BootstrapNoAdapters \subseteq Findings
<1> DEFINE ofModules == UNION {ModuleFindings(m) : m \in IterModules}
<1>1. Findings = ofModules
        \cup BannedSymbols(CommonsFiles, {}) \cup CommonsIsLimited
        \cup NoContextApplication \cup InitFilesPresent
        \cup EntrypointSingleAggregate \cup BootstrapNoAdapters
        \cup TestNaming \cup TestMirrorsSource
  BY DEF Findings
<1>2. \A m \in IterModules : ModuleFindings(m) \subseteq ofModules
  OBVIOUS
<1> HIDE DEF ofModules
<1> QED
  BY <1>1, <1>2

\* A line is reported, in a place where it may be, or below what is misplaced.
Accounted(rule, path) ==
  \/ <<rule, path>> \in Findings
  \/ IsFree(rule, path)
  \/ \E dir : <<"ARCH-048", dir>> \in Findings /\ IsStrictPrefix(dir, path)

LEMMA AccountedInLayer ==
  ASSUME Sorted, IsScannable, NEW f \in sources, NEW rule \in f.marks, rule \in Inward,
         InModule(f.path, Layers)
  PROVE  Accounted(rule, f.path)
<1> DEFINE c == f.path[1]
           n == f.path[2]
           m == <<c, n>>
<1>1. IsPath(f.path) /\ Len(f.path) \in Nat /\ Len(f.path) > 3 /\ f.path[3] \in Layers
  BY SourceIs DEF Sorted, InModule
<1>2. m \in IterModules
  BY FoundModule DEF Sorted, IsModule
<1>3. \A layer : f.path[3] = layer =>
        /\ f \in Under(<<c, n, layer>>) /\ Append(m, layer) = <<c, n, layer>>
        /\ Within(f.path, Append(m, layer))
  <2> SUFFICES ASSUME NEW layer, f.path[3] = layer
               PROVE  /\ f \in Under(<<c, n, layer>>) /\ Append(m, layer) = <<c, n, layer>>
                      /\ Within(f.path, Append(m, layer))
    OBVIOUS
  <2>1. f \in Under(<<c, n, layer>>)
    BY <1>1, BelowLayer DEF Sorted
  <2>2. Append(m, layer) = <<c, n, layer>>
    BY AppendToTwo
  <2>3. Within(f.path, <<c, n, layer>>)
    BY <2>1 DEF Under, IsStrictPrefix, Within
  <2> QED
    BY <2>1, <2>2, <2>3, Zenon
<1> HIDE DEF c, n
<1>4. CASE f.path[3] = "domain"
  <2>1. f \in Under(DomainDir(m))
    BY <1>3, <1>4, DirsOfModule
  <2>2. <<rule, f.path>> \in BannedSymbols(Under(DomainDir(m)), ApplicationFiles(m))
    BY <2>1, MarkedIs DEF BannedSymbols, Inward
  <2> QED
    BY <1>2, <2>2, Reported DEF ModuleFindings, Accounted
<1>5. CASE f.path[3] = "application"
  <2>1. f \in ApplicationFiles(m) /\ Within(f.path, Append(m, "application"))
    BY <1>3, <1>5, Zenon DEF ApplicationFiles
  <2>2. CASE rule = "ARCH-053"
    <3>1. <<rule, f.path>> \in BannedSymbols(Under(DomainDir(m)), ApplicationFiles(m))
      BY <2>1, <2>2, MarkedIs DEF BannedSymbols
    <3> QED
      BY <1>2, <3>1, Reported DEF ModuleFindings, Accounted
  <2>3. CASE rule # "ARCH-053"
    BY <1>2, <2>1, <2>3 DEF Inward, IsFree, Accounted
  <2> QED
    BY <2>2, <2>3
<1>6. CASE f.path[3] = "adapters"
  <2>1. Within(f.path, Append(m, "adapters"))
    BY <1>3, <1>6, Zenon
  <2>2. OuterRing(f.path)
    BY <1>2, <2>1 DEF OuterRing
  <2> QED
    BY <2>2 DEF Inward, IsFree, Accounted
<1> QED
  BY <1>1, <1>4, <1>5, <1>6 DEF Layers

LEMMA AccountedInContext ==
  ASSUME Sorted, IsScannable, NEW f \in sources, NEW rule \in f.marks,
         IsContext(f.path[1], sources), Len(f.path) > 2
  PROVE  /\ f.path[2] = "application" => Accounted(rule, f.path)
         /\ rule \in Inward /\ f.path[2] \in {"entrypoints", "read"} => Accounted(rule, f.path)
<1> DEFINE c == f.path[1]
<1>1. c \in Contexts /\ IsPath(f.path)
  BY FoundContext, SourceIs DEF Sorted
<1>2. ASSUME NEW name, f.path[2] = name
      PROVE  IsStrictPrefix(<<c, name>>, f.path) /\ Within(f.path, <<c, name>>)
  <2>1. IsStrictPrefix(<<c, name>>, f.path)
    BY <1>1, <1>2, BelowTwo
  <2> QED
    BY <2>1 DEF IsStrictPrefix, Within
<1> HIDE DEF c
<1>3. CASE f.path[2] = "application"
  <2>1. IsStrictPrefix(<<c, "application">>, f.path)
    BY <1>2, <1>3
  <2>2. IsDir(<<c, "application">>)
    BY <2>1, HoldsFile
  <2>3. <<"ARCH-048", <<c, "application">>>> \in NoContextApplication
    BY <1>1, <2>2 DEF NoContextApplication
  <2>4. <<"ARCH-048", <<c, "application">>>> \in Findings
    BY <2>3, Reported
  <2> QED
    BY <2>1, <2>4 DEF Accounted
<1>4. CASE f.path[2] \in {"entrypoints", "read"}
  <2>1. Within(f.path, <<c, "entrypoints">>) \/ Within(f.path, <<c, "read">>)
    BY <1>2, <1>4
  <2>2. OuterRing(f.path)
    BY <1>1, <2>1 DEF OuterRing
  <2>3. f.path[2] # "application"
    BY <1>4
  <2>4. rule \in Inward => Accounted(rule, f.path)
    BY <2>2 DEF Inward, IsFree, Accounted
  <2> QED
    BY <2>3, <2>4
<1> QED
  BY <1>3, <1>4

LEMMA AccountedInInfrastructure ==
  ASSUME Sorted, IsScannable, NEW f \in sources, NEW rule \in f.marks,
         InModule(f.path, {"infrastructure"}), IsModule(f.path[1], f.path[2], sources)
  PROVE  Accounted(rule, f.path)
<1> DEFINE m == <<f.path[1], f.path[2]>>
           dir == Append(m, "infrastructure")
<1>1. m \in IterModules
  BY FoundModule DEF Sorted
<1>2. IsStrictPrefix(dir, f.path)
  <2>1. PICK layer : layer = "infrastructure"
    OBVIOUS
  <2>2. f \in Under(<<f.path[1], f.path[2], layer>>)
    BY <2>1, SourceIs, BelowLayer DEF Sorted, InModule
  <2>3. dir = <<f.path[1], f.path[2], layer>>
    BY <2>1, AppendToTwo
  <2> QED
    BY <2>2, <2>3 DEF Under
<1>3. IsDir(dir)
  BY <1>2, HoldsFile
<1>4. <<"ARCH-048", dir>> \in NoLegacyAdaptersLayer(m)
  BY <1>3 DEF NoLegacyAdaptersLayer
<1>5. <<"ARCH-048", dir>> \in Findings
  BY <1>1, <1>4, Reported DEF ModuleFindings
<1> QED
  BY <1>2, <1>5 DEF Accounted

LEMMA AccountedOutside ==
  ASSUME Sorted, IsScannable, NEW f \in sources, NEW rule \in f.marks,
         Len(f.path) > 1, f.path[1] \in NonContextDirs
  PROVE  /\ rule \in Inward => Accounted(rule, f.path)
         /\ rule = "ARCH-059" /\ f.path[1] = "bootstrap" /\ Last(f.path) # "__init__" =>
              Accounted(rule, f.path)
<1>1. IsPath(f.path)
  BY SourceIs DEF Sorted
<1>2. CASE f.path[1] = "bootstrap"
  <2>1. IsStrictPrefix(<<"bootstrap">>, f.path)
    BY <1>1, <1>2, BelowOne
  <2>2. OuterRing(f.path)
    BY <2>1 DEF OuterRing, IsStrictPrefix, Within
  <2>3. ASSUME rule = "ARCH-059", Last(f.path) # "__init__"
        PROVE  Accounted(rule, f.path)
    <3>1. f \in {g \in Under(<<"bootstrap">>) : Stem(g) # "__init__"}
      BY <2>1, <2>3 DEF Under, Stem
    <3>2. <<rule, f.path>> \in BootstrapNoAdapters
      BY <2>3, <3>1, MarkedIs DEF BootstrapNoAdapters
    <3> QED
      BY <3>2, Reported DEF Accounted
  <2> QED
    BY <2>2, <2>3 DEF Inward, IsFree, Accounted
<1>3. CASE f.path[1] = "commons" /\ rule \in Inward
  <2>1. f \in Under(CommonsDir)
    BY <1>1, <1>3, BelowOne DEF Under, CommonsDir
  <2>2. CASE f \in Under(CommonsAdapters)
    <3>1. OuterRing(f.path)
      BY <2>2 DEF Under, OuterRing, IsStrictPrefix, Within
    <3> QED
      BY <1>3, <3>1 DEF Inward, IsFree, Accounted
  <2>3. CASE f \notin Under(CommonsAdapters)
    <3>1. f \in CommonsFiles
      BY <2>1, <2>3 DEF CommonsFiles
    <3>2. <<rule, f.path>> \in BannedSymbols(CommonsFiles, {})
      BY <1>3, <3>1, MarkedIs DEF BannedSymbols, Inward
    <3> QED
      BY <3>2, Reported DEF Accounted
  <2> QED
    BY <2>2, <2>3
<1> QED
  BY <1>2, <1>3 DEF NonContextDirs, Inward

LEMMA AccountedInModel ==
  ASSUME Sorted, IsScannable, NEW f \in sources, NEW rule \in f.marks, InModel(f.path),
         \/ /\ rule \in {"ARCH-018", "ARCH-019", "ARCH-041"}
            /\ Last(f.path) \notin ReservedModelFiles
         \/ rule = "ARCH-041" /\ Last(f.path) = "ports"
         \/ rule = "ARCH-023" /\ Last(f.path) = "events"
         \/ rule = "ARCH-031" /\ Last(f.path) = "value_objects"
  PROVE  Accounted(rule, f.path)
<1> DEFINE m == <<f.path[1], f.path[2]>>
<1>1. m \in IterModules
  BY FoundModule DEF Sorted, IsModule, InModel, InModule, Layers
<1>2. f \in DirectlyIn(ModelDir(m))
  BY InModelDir DEF Sorted, InModel, InModule
<1>3. \A stem : Last(f.path) = stem => f \in ModelFile(m, stem)
  BY <1>2, InModelDir DEF Sorted
<1>4. Last(f.path) \notin ReservedModelFiles => f \in AggregateFiles(m)
  BY <1>2 DEF AggregateFiles, Stem
<1> HIDE DEF m
<1>5. <<rule, f.path>> \in AggregateEncapsulation(m) \cup PromotionThresholds(m)
                           \cup DomainEvents(m) \cup ValueObjects(m)
  BY <1>3, <1>4, MarkedIs
  DEF AggregateEncapsulation, PromotionThresholds, DomainEvents, ValueObjects
<1>6. <<rule, f.path>> \in ModuleFindings(m)
  BY <1>5 DEF ModuleFindings
<1> QED
  BY <1>1, <1>6, Reported DEF Accounted

\* Every line that fits is accounted for.
LEMMA FitsAccounted ==
  ASSUME Sorted, NEW f \in sources, NEW rule \in f.marks \cap Rules
  PROVE  Accounted(rule, f.path)
<1>1. IsScannable
  <2>1. PICK g \in sources : MakesContext(g.path)
    BY DEF Sorted, LaidOut
  <2> QED
    BY <2>1, ContextFound DEF Sorted, IsScannable
<1>2. Fits(rule, f.path, sources) /\ Len(f.path) \in Nat
  BY SourceIs DEF Sorted, LaidOut
<1>3. CASE rule \in Inward /\ MakesContext(f.path)
  <2>1. CASE InModule(f.path, Layers)
    BY <1>1, <1>3, <2>1, AccountedInLayer
  <2>2. CASE InContext(f.path, {"entrypoints"})
    <3>1. IsContext(f.path[1], sources)
      BY <1>3 DEF IsContext
    <3> QED
      BY <1>1, <1>3, <2>2, <3>1, AccountedInContext DEF InContext
  <2> QED
    BY <1>3, <2>1, <2>2 DEF MakesContext
<1>4. CASE rule \in Inward /\ InContext(f.path, {"read", "application"})
           /\ IsContext(f.path[1], sources)
  BY <1>1, <1>4, AccountedInContext DEF InContext
<1>5. CASE InModule(f.path, {"infrastructure"}) /\ IsModule(f.path[1], f.path[2], sources)
  BY <1>1, <1>5, AccountedInInfrastructure
<1>6. CASE rule \in Inward /\ Len(f.path) > 1 /\ f.path[1] \in NonContextDirs
  BY <1>1, <1>6, AccountedOutside
<1>7. CASE rule = "ARCH-030" /\ InModule(f.path, {"application"})
  <2> DEFINE m == <<f.path[1], f.path[2]>>
  <2>1. m \in IterModules
    BY <1>7, FoundModule DEF Sorted, IsModule, InModule, Layers
  <2>2. f \in ApplicationFiles(m)
    <3>1. PICK layer : layer = "application"
      OBVIOUS
    <3>2. f \in Under(<<f.path[1], f.path[2], layer>>)
      BY <1>7, <3>1, SourceIs, BelowLayer DEF Sorted, InModule
    <3>3. Append(m, layer) = <<f.path[1], f.path[2], layer>>
      BY AppendToTwo
    <3> QED
      BY <3>1, <3>2, <3>3 DEF ApplicationFiles
  <2> HIDE DEF m
  <2>3. <<rule, f.path>> \in ServiceSize(m)
    BY <1>7, <2>2, MarkedIs DEF ServiceSize
  <2>4. <<rule, f.path>> \in ModuleFindings(m)
    BY <2>3 DEF ModuleFindings
  <2> QED
    BY <1>1, <2>1, <2>4, Reported DEF Accounted
<1>8. CASE rule = "ARCH-030" /\ InContext(f.path, {"application"})
           /\ IsContext(f.path[1], sources)
  BY <1>1, <1>8, AccountedInContext DEF InContext
<1>9. CASE /\ InModel(f.path)
           /\ \/ /\ rule \in {"ARCH-018", "ARCH-019", "ARCH-041"}
                 /\ Last(f.path) \notin ReservedModelFiles
              \/ rule = "ARCH-041" /\ Last(f.path) = "ports"
              \/ rule = "ARCH-023" /\ Last(f.path) = "events"
              \/ rule = "ARCH-031" /\ Last(f.path) = "value_objects"
  BY <1>1, <1>9, AccountedInModel
<1>10. CASE /\ rule = "ARCH-059" /\ Len(f.path) > 1 /\ f.path[1] = "bootstrap"
            /\ Last(f.path) # "__init__"
  BY <1>1, <1>10, AccountedOutside DEF NonContextDirs
<1> QED
  BY <1>2, <1>3, <1>4, <1>5, <1>6, <1>7, <1>8, <1>9, <1>10 DEF Fits

\* However a project is repaired, code that breaks a rule is never out of the reach
\* of that rule, unless it is where it may be or reported as misplaced.
THEOREM NothingGetsHidden == Spec => []NothingHidden
<1>1. ASSUME Sorted
      PROVE  NothingHidden
  <2> DEFINE misplaced == {finding[2] : finding \in {g \in Findings : g[1] = "ARCH-048"}}
  <2>1. ASSUME NEW f \in sources, NEW rule \in f.marks \cap Rules
        PROVE  \/ <<rule, f.path>> \in Findings
               \/ IsFree(rule, f.path)
               \/ \E dir \in misplaced : IsStrictPrefix(dir, f.path)
    <3>1. Accounted(rule, f.path)
      BY <1>1, FitsAccounted
    <3>2. \A dir : <<"ARCH-048", dir>> \in Findings => dir \in misplaced
      <4> SUFFICES ASSUME NEW dir, <<"ARCH-048", dir>> \in Findings
                   PROVE  dir \in misplaced
        OBVIOUS
      <4>1. PICK g \in Findings : g = <<"ARCH-048", dir>>
        OBVIOUS
      <4>2. g[1] = "ARCH-048" /\ g[2] = dir
        BY <4>1
      <4> QED
        BY <4>2
    <3> HIDE DEF misplaced
    <3> QED
      BY <3>1, <3>2 DEF Accounted
  <2> QED
    BY <2>1 DEF NothingHidden
<1> QED
  BY <1>1, StaysSorted, PTL

\* What a green run is worth: when the three checks find nothing in a project that
\* was repaired, no line of it breaks a rule where the rule applies.
THEOREM GreenMeansClean ==
  Spec => [](Findings = {} =>
                \A f \in sources : \A rule \in f.marks \cap Rules : IsFree(rule, f.path))
<1>1. ASSUME Sorted, Findings = {}
      PROVE  \A f \in sources : \A rule \in f.marks \cap Rules : IsFree(rule, f.path)
  BY <1>1, FitsAccounted DEF Accounted
<1>2. Sorted => (Findings = {} =>
                   \A f \in sources : \A rule \in f.marks \cap Rules : IsFree(rule, f.path))
  BY <1>1
<1> QED
  BY <1>2, StaysSorted, PTL
=============================================================================
