----------------------- MODULE ImportContractsProofs -----------------------
(***************************************************************************)
(* Proofs about ImportContracts, for every project and any number of       *)
(* imports.                                                                *)
(***************************************************************************)
EXTENDS ImportContracts, FiniteSetTheorems, SequenceTheorems, TLAPS

IsPath(m) == \E S : m \in Seq(S)

(* Prefixes *)

LEMMA PrefixIs ==
  ASSUME NEW S, NEW s \in Seq(S), NEW t \in Seq(S)
  PROVE  IsPrefix(s, t) <=> Len(s) <= Len(t) /\ \A i \in 1 .. Len(s) : s[i] = t[i]
<1>1. SubSeq(s, 1, Len(s)) = s
  BY SubSeqFull
<1> SUFFICES ASSUME Len(s) <= Len(t)
             PROVE  s = SubSeq(t, 1, Len(s)) <=> \A i \in 1 .. Len(s) : s[i] = t[i]
  BY <1>1 DEF IsPrefix
<1>2. Len(s) \in Nat /\ Len(t) \in Nat /\ 1 \in Int /\ Len(s) \in Int
  OBVIOUS
<1>3. \A i \in 1 .. Len(s) : t[i] \in S
  BY <1>2
<1> DEFINE u == SubSeq(t, 1, Len(s))
<1>4. /\ u \in Seq(S)
      /\ Len(u) = Len(s)
      /\ \A i \in 1 .. Len(s) - 1 + 1 : u[i] = t[1 + i - 1]
  <2>1. Len(u) = IF 1 <= Len(s) THEN Len(s) - 1 + 1 ELSE 0
    BY <1>2, <1>3, SubSeqProperties
  <2> QED
    BY <1>2, <1>3, <2>1, SubSeqProperties
<1>5. \A i \in 1 .. Len(s) : u[i] = t[i]
  BY <1>2, <1>4
<1> HIDE DEF u
<1> QED
  BY <1>4, <1>5, SeqEqual

LEMMA PathLen == ASSUME NEW m, IsPath(m) PROVE Len(m) \in Nat
  BY DEF IsPath

\* Two paths have their names in one set.
LEMMA PathsCompare ==
  ASSUME NEW s, NEW t, IsPath(s), IsPath(t)
  PROVE  IsPrefix(s, t) <=> Len(s) <= Len(t) /\ \A i \in 1 .. Len(s) : s[i] = t[i]
<1>1. PICK S : s \in Seq(S)
  BY DEF IsPath
<1>2. PICK T : t \in Seq(T)
  BY DEF IsPath
<1>3. s \in Seq(S \cup T) /\ t \in Seq(S \cup T)
  BY <1>1, <1>2
<1> QED
  BY <1>3, PrefixIs

LEMMA PathOfOne ==
  ASSUME NEW c
  PROVE  IsPath(<<c>>) /\ Len(<<c>>) = 1 /\ <<c>>[1] = c
<1>1. <<c>> \in Seq({c})
  OBVIOUS
<1> QED
  BY <1>1 DEF IsPath

LEMMA PathOfTwo ==
  ASSUME NEW c, NEW d
  PROVE  IsPath(<<c, d>>) /\ Len(<<c, d>>) = 2 /\ <<c, d>>[1] = c /\ <<c, d>>[2] = d
<1>1. <<c, d>> \in Seq({c, d})
  OBVIOUS
<1> QED
  BY <1>1 DEF IsPath

LEMMA PathOfThree ==
  ASSUME NEW c, NEW d, NEW e
  PROVE  /\ IsPath(<<c, d, e>>) /\ Len(<<c, d, e>>) = 3
         /\ <<c, d, e>>[1] = c /\ <<c, d, e>>[2] = d /\ <<c, d, e>>[3] = e
<1>1. <<c, d, e>> \in Seq({c, d, e})
  OBVIOUS
<1> QED
  BY <1>1 DEF IsPath

LEMMA Ranges == 1 .. 1 = {1} /\ 1 .. 2 = {1, 2} /\ 1 .. 3 = {1, 2, 3}
OBVIOUS

LEMMA WithinOne ==
  ASSUME NEW m, NEW c, IsPath(m)
  PROVE  Within(m, <<c>>) <=> Len(m) >= 1 /\ m[1] = c
<1>1. IsPath(<<c>>) /\ Len(<<c>>) = 1 /\ <<c>>[1] = c
  BY PathOfOne
<1>2. Within(m, <<c>>) <=> 1 <= Len(m) /\ \A i \in 1 .. 1 : <<c>>[i] = m[i]
  BY <1>1, PathsCompare DEF Within
<1> QED
  BY <1>1, <1>2, PathLen, Ranges

LEMMA WithinTwo ==
  ASSUME NEW m, NEW c, NEW d, IsPath(m)
  PROVE  Within(m, <<c, d>>) <=> Len(m) >= 2 /\ m[1] = c /\ m[2] = d
<1>1. IsPath(<<c, d>>) /\ Len(<<c, d>>) = 2 /\ <<c, d>>[1] = c /\ <<c, d>>[2] = d
  BY PathOfTwo
<1>2. Within(m, <<c, d>>) <=> 2 <= Len(m) /\ \A i \in 1 .. 2 : <<c, d>>[i] = m[i]
  BY <1>1, PathsCompare DEF Within
<1> QED
  BY <1>1, <1>2, PathLen, Ranges

LEMMA WithinThree ==
  ASSUME NEW m, NEW c, NEW d, NEW e, IsPath(m)
  PROVE  Within(m, <<c, d, e>>) <=> Len(m) >= 3 /\ m[1] = c /\ m[2] = d /\ m[3] = e
<1>1. /\ IsPath(<<c, d, e>>) /\ Len(<<c, d, e>>) = 3
      /\ <<c, d, e>>[1] = c /\ <<c, d, e>>[2] = d /\ <<c, d, e>>[3] = e
  BY PathOfThree
<1>2. Within(m, <<c, d, e>>) <=> 3 <= Len(m) /\ \A i \in 1 .. 3 : <<c, d, e>>[i] = m[i]
  BY <1>1, PathsCompare DEF Within
<1> QED
  BY <1>1, <1>2, PathLen, Ranges

LEMMA Differ ==
  ASSUME NEW s, NEW t, IsPath(s), IsPath(t), NEW i \in Nat \ {0},
         i <= Len(s), i <= Len(t), s[i] # t[i]
  PROVE  ~Overlap(s, t)
<1>1. i \in 1 .. Len(s) /\ i \in 1 .. Len(t)
  BY PathLen
<1> QED
  BY <1>1, PathsCompare DEF Overlap

-----------------------------------------------------------------------------
(* The layout of a project *)

LEMMA Laid ==
  ASSUME project \in Projects
  PROVE  /\ IsFiniteSet(Files) /\ project.modules \subseteq Files
         /\ \A f \in Files :
              /\ IsPath(f) /\ Len(f) \in Nat /\ Len(f) >= 1
              /\ f[1] \notin Libraries
              /\ f \notin {<<"commons">>, <<"commons", "types">>, <<"bootstrap">>}
              /\ Len(f) = 2 => f[2] \notin {"entrypoints", "read"}
         /\ \A f, g \in Files : ~IsStrictPrefix(f, g)
<1>1. \A f \in Files : f \in Seq(STRING) /\ f # <<>>
  BY LayoutAssumption DEF Files
<1>2. \A f \in Files : IsPath(f) /\ Len(f) \in Nat /\ Len(f) >= 1
  BY <1>1, EmptySeq DEF IsPath
<1>3. /\ IsFiniteSet(Files)
      /\ \A f \in Files :
           /\ f[1] \notin Libraries
           /\ f \notin {<<"commons">>, <<"commons", "types">>, <<"bootstrap">>}
           /\ Len(f) = 2 => f[2] \notin {"entrypoints", "read"}
      /\ \A f, g \in Files : ~IsStrictPrefix(f, g)
  BY LayoutAssumption DEF Files
<1> QED
  BY <1>2, <1>3 DEF Files

\* A directory holds other files.
LEMMA FileDirIs ==
  ASSUME project \in Projects, NEW f \in Files, NEW d, Within(f, d)
  PROVE  IsDir(d) <=> f # d
  BY Laid DEF IsDir, Within, IsStrictPrefix

LEMMA DirIs ==
  ASSUME project \in Projects, NEW m \in project.modules, NEW d, Within(m, d)
  PROVE  IsDir(d) <=> m # d
  BY FileDirIs DEF Files

LEMMA Importables ==
  ASSUME project \in Projects, NEW n \in Importable
  PROVE  /\ IsPath(n) /\ Len(n) \in Nat /\ Len(n) >= 1
         /\ \/ n \in project.modules
            \/ project.installed /\ n \in Shipped /\ n[1] = "commons" /\ Len(n) = 3
                 /\ n[2] \in {"types", "adapters"}
            \/ \E l \in Libraries : n = <<l>> /\ n[1] = l /\ Len(n) = 1
<1>1. CASE n \in project.modules
  BY <1>1, Laid
<1>2. CASE project.installed /\ n \in Shipped
  <2>1. CASE n = <<"commons", "types", "clock">>
    BY <1>2, <2>1, PathOfThree
  <2>2. CASE n = <<"commons", "adapters", "outbox">>
    BY <1>2, <2>2, PathOfThree
  <2> QED
    BY <1>2, <2>1, <2>2 DEF Shipped
<1>3. CASE \E l \in Libraries : n = <<l>>
  BY <1>3, PathOfOne
<1> QED
  BY <1>1, <1>2, <1>3 DEF Importable

LEMMA SubdirsIs ==
  ASSUME project \in Projects, NEW d, NEW x \in Subdirs(d)
  PROVE  \E f \in Files : Within(f, d) /\ Len(f) > Len(d) + 1 /\ f[Len(d) + 1] = x
  BY DEF Subdirs, Within

LEMMA ContextNames ==
  ASSUME project \in Projects, NEW c \in Contexts
  PROVE  c \notin {"commons", "bootstrap"} /\ IsDir(<<c>>)
<1>1. Len(<<>>) = 0
  OBVIOUS
<1>2. c \in Subdirs(<<>>) /\ c \notin {"commons", "bootstrap"}
  BY DEF Contexts, NonContextDirs
<1>3. PICK m \in Files : Len(m) > 1 /\ m[1] = c
  BY <1>1, <1>2, SubdirsIs
<1>4. Within(m, <<c>>)
  BY <1>3, Laid, WithinOne
<1>5. m # <<c>>
  <2> SUFFICES ASSUME m = <<c>>
               PROVE  FALSE
    OBVIOUS
  <2>1. Len(m) = 1
    BY PathOfOne
  <2> QED
    BY <1>3, <2>1
<1> QED
  BY <1>2, <1>4, <1>5, FileDirIs

LEMMA ModuleNames ==
  ASSUME project \in Projects, NEW c, NEW a \in Modules(c)
  PROVE  a \notin {"entrypoints", "read"} /\ IsDir(<<c, a>>)
<1>1. Len(<<c>>) = 1
  BY PathOfOne
<1>2. a \in Subdirs(<<c>>) /\ a \notin {"entrypoints", "read"}
  BY DEF Modules, Reserved
<1>3. PICK m \in Files : Within(m, <<c>>) /\ Len(m) > 2 /\ m[2] = a
  <2>1. Len(<<c>>) + 1 = 2
    BY <1>1
  <2> QED
    BY <1>2, <2>1, SubdirsIs
<1>5. IsPath(m) /\ m[1] = c
  BY <1>3, Laid, WithinOne
<1>6. Within(m, <<c, a>>) /\ m # <<c, a>>
  <2>1. Len(m) >= 2
    BY <1>3, <1>5, PathLen
  <2>2. m # <<c, a>>
    <3> SUFFICES ASSUME m = <<c, a>>
                 PROVE  FALSE
      OBVIOUS
    <3>1. Len(m) = 2
      BY PathOfTwo
    <3> QED
      BY <1>3, <3>1
  <2> QED
    BY <1>3, <1>5, <2>1, <2>2, WithinTwo
<1> QED
  BY <1>2, <1>3, <1>6, FileDirIs

LEMMA ModulesAreFinite ==
  ASSUME project \in Projects, NEW c
  PROVE  IsFiniteSet(Modules(c))
<1> DEFINE inside == {n \in Files : n[2] \in Modules(c)}
           f == [n \in inside |-> n[2]]
<1>1. IsFiniteSet(inside)
  BY Laid, FS_Subset
<1>2. ASSUME NEW a \in Modules(c) PROVE \E n \in inside : f[n] = a
  <2>1. Len(<<c>>) + 1 = 2
    BY PathOfOne
  <2>2. a \in Subdirs(<<c>>)
    BY DEF Modules
  <2>3. PICK m \in Files : m[2] = a
    BY <2>1, <2>2, SubdirsIs
  <2> QED
    BY <2>3
<1>3. f \in [inside -> Modules(c)]
  OBVIOUS
<1>4. f \in Surjection(inside, Modules(c))
  BY <1>2, <1>3 DEF Surjection
<1> QED
  BY <1>1, <1>4, FS_Surjection

LEMMA TwoAreMoreThanOne ==
  ASSUME NEW S, IsFiniteSet(S), NEW x \in S, NEW y \in S, x # y
  PROVE  Cardinality(S) > 1
<1>1. IsFiniteSet({x}) /\ Cardinality({x}) = 1
  BY FS_Singleton
<1>2. Cardinality({x} \cup {y}) = 2
  BY <1>1, FS_AddElement
<1>3. {x} \cup {y} \in SUBSET S /\ Cardinality(S) \in Nat
  BY FS_CardinalityType
<1>4. Cardinality({x} \cup {y}) <= Cardinality(S)
  BY <1>3, FS_Subset
<1> QED
  BY <1>2, <1>3, <1>4

LEMMA LayerDirsAre ==
  ASSUME NEW c, NEW layers, NEW d
  PROVE  d \in LayerDirs(c, layers) <=>
           \E a \in Modules(c), l \in layers : d = <<c, a, l>> /\ IsDir(d)
  BY DEF LayerDirs

\* Where a module of a layer lies.
LEMMA InLayerIs ==
  ASSUME project \in Projects, NEW c, NEW m \in Importable, NEW layers
  PROVE  InLayer(m, c, layers) <=>
           \E a \in Modules(c), l \in layers :
             /\ m[1] = c /\ Len(m) >= 3 /\ m[2] = a /\ m[3] = l
             /\ IsDir(<<c, a, l>>)
<1>3. IsPath(m)
  BY Importables
<1>4. \A a \in Modules(c), l \in layers :
        Within(m, <<c, a, l>>) <=> Len(m) >= 3 /\ m[1] = c /\ m[2] = a /\ m[3] = l
  BY <1>3, WithinThree
<1>5. InLayer(m, c, layers) <=>
        \E a \in Modules(c), l \in layers : IsDir(<<c, a, l>>) /\ Within(m, <<c, a, l>>)
  <2>1. ASSUME NEW d \in LayerDirs(c, layers), Within(m, d)
        PROVE  \E a \in Modules(c), l \in layers : IsDir(<<c, a, l>>) /\ Within(m, <<c, a, l>>)
    BY <2>1, LayerDirsAre
  <2>2. ASSUME NEW a \in Modules(c), NEW l \in layers, IsDir(<<c, a, l>>), Within(m, <<c, a, l>>)
        PROVE  \E d \in LayerDirs(c, layers) : Within(m, d)
    <3>1. <<c, a, l>> \in LayerDirs(c, layers)
      BY <2>2, LayerDirsAre
    <3> QED
      BY <2>2, <3>1
  <2> QED
    BY <2>1, <2>2 DEF InLayer
<1> QED
  BY <1>4, <1>5

LEMMA ModuleIsImportable == project.modules \subseteq Importable
  BY DEF Importable

LEMMA ContextIs ==
  ASSUME project \in Projects, NEW m \in Importable, NEW c
  PROVE  Within(m, <<c>>) <=> m[1] = c
  BY Importables, WithinOne

LEMMA GraphedModule ==
  ASSUME project \in Projects, NEW m \in project.modules,
         m[1] \in Contexts \/ m[1] \in {"commons", "bootstrap"}
  PROVE  IsGraphed(m)
<1>1. m \in Importable
  BY Laid, ModuleIsImportable
<1>2. Within(m, <<m[1]>>)
  BY <1>1, ContextIs
<1>3. CASE m[1] \in {"commons", "bootstrap"}
  BY <1>2, <1>3, DirIs, Laid DEF IsGraphed, Roots, CommonsIsRoot
<1>4. CASE m[1] \in Contexts
  BY <1>2, <1>4 DEF IsGraphed, Roots
<1> QED
  BY <1>3, <1>4

-----------------------------------------------------------------------------
(* What contracts are written, and what they keep apart *)

KeepsApart(contract, m, n) ==
  \E pair \in contract.apart : Within(m, pair[1]) /\ Within(n, pair[2])

\* A contract of the rule keeps m and n apart.
Bites(rule, m, n) ==
  \E contract \in BuildContracts : rule \in contract.rules /\ KeepsApart(contract, m, n)

LEMMA ForbiddenKeeps ==
  ASSUME NEW rules, NEW sources, NEW targets, NEW s \in sources, NEW t \in targets,
         ~Overlap(s, t), NEW m, NEW n, Within(m, s), Within(n, t)
  PROVE  KeepsApart(Forbidden(rules, sources, targets), m, n)
<1>1. <<s, t>> \in Forbidden(rules, sources, targets).apart
  BY DEF Forbidden
<1> QED
  BY <1>1 DEF KeepsApart

LEMMA ContractRules ==
  ASSUME NEW rules, NEW sources, NEW targets
  PROVE  /\ Forbidden(rules, sources, targets).rules = rules
         /\ Independent(rules, sources).rules = rules
         /\ \A c, a : Layered(rules, c, a).rules = rules
  BY DEF Forbidden, Independent, Layered

LEMMA ModuleContractsAre ==
  ASSUME NEW c
  PROVE  /\ \A a \in Modules(c) : Layered(ModuleLayerRules, c, a) \in ModuleContracts(c)
         /\ IsDir(<<c, "entrypoints">>) /\ Applications(c) # {} =>
              Forbidden({"ARCH-006"}, Applications(c), {<<c, "entrypoints">>})
                \in ModuleContracts(c)
         /\ Cardinality(Modules(c)) > 1 /\ PrivateLayers(c) # {} =>
              Forbidden({"ARCH-046"}, {<<c, a>> : a \in Modules(c)}, PrivateLayers(c))
                \in ModuleContracts(c)
         /\ IsDir(<<c, "read">>) /\ LayerDirs(c, {"domain", "application"}) # {} =>
              Forbidden({"ARCH-052"}, {<<c, "read">>}, LayerDirs(c, {"domain", "application"}))
                \in ModuleContracts(c)
<1>1. \A a \in Modules(c) : Layered(ModuleLayerRules, c, a) \in ModuleContracts(c)
  BY DEF ModuleContracts
<1>2. IsDir(<<c, "entrypoints">>) /\ Applications(c) # {} =>
        Forbidden({"ARCH-006"}, Applications(c), {<<c, "entrypoints">>}) \in ModuleContracts(c)
  BY DEF ModuleContracts, If
<1>3. Cardinality(Modules(c)) > 1 /\ PrivateLayers(c) # {} =>
        Forbidden({"ARCH-046"}, {<<c, a>> : a \in Modules(c)}, PrivateLayers(c))
          \in ModuleContracts(c)
  BY DEF ModuleContracts, If
<1>4. IsDir(<<c, "read">>) /\ LayerDirs(c, {"domain", "application"}) # {} =>
        Forbidden({"ARCH-052"}, {<<c, "read">>}, LayerDirs(c, {"domain", "application"}))
          \in ModuleContracts(c)
  BY DEF ModuleContracts, If
<1> QED
  BY <1>1, <1>2, <1>3, <1>4

LEMMA EntrypointContractsAre ==
  ASSUME NEW c
  PROVE  /\ IsDir(<<c, "entrypoints">>) /\ LayerDirs(c, {"adapters"}) # {} =>
              Forbidden({"ARCH-009"}, {<<c, "entrypoints">>}, LayerDirs(c, {"adapters"}))
                \in EntrypointContracts(c)
         /\ Cardinality(Siblings(c)) > 1 =>
              Forbidden({"ARCH-011"}, Siblings(c), Siblings(c)) \in EntrypointContracts(c)
  BY DEF EntrypointContracts, If

Types == {<<"commons", "types">>}

LEMMA ContractsOfContext ==
  ASSUME NEW c \in Contexts, NEW k, k \in ModuleContracts(c) \/ k \in EntrypointContracts(c)
  PROVE  k \in BuildContracts
<1>1. k \in ContextContracts
  BY DEF ContextContracts
<1> QED
  BY <1>1 DEF BuildContracts

LEMMA ProjectContractsAre ==
  ASSUME IsScannable
  PROVE  /\ Independent({"ARCH-012", "ARCH-013", "ARCH-025"}, ContextPackages) \in BuildContracts
         /\ IsDir(<<"bootstrap">>) =>
              Forbidden({"ARCH-017"}, ContextPackages, {<<"bootstrap">>}) \in BuildContracts
         /\ IsDir(<<"commons">>) =>
              Forbidden({"ARCH-014"}, {<<"commons">>}, ContextPackages) \in BuildContracts
         /\ CommonsTypesImportable =>
              /\ Forbidden({"ARCH-015"}, Types, ContextPackages \cup ProjectCommonsModules)
                   \in BuildContracts
              /\ Forbidden({"ARCH-035"}, Types, {<<f>> : f \in FrameworkModules}) \in BuildContracts
         /\ DomainApplicationModules # {} /\ CommonsIsRoot =>
              Forbidden({"ARCH-034"}, DomainApplicationModules, {<<"commons", "adapters">>})
                \in BuildContracts
<1>1. Independent({"ARCH-012", "ARCH-013", "ARCH-025"}, ContextPackages) \in IndependenceContracts
  BY DEF IndependenceContracts, If
<1>2. IsDir(<<"bootstrap">>) =>
        Forbidden({"ARCH-017"}, ContextPackages, {<<"bootstrap">>}) \in BootstrapContracts
  BY DEF BootstrapContracts, If
<1>3. IsDir(<<"commons">>) =>
        Forbidden({"ARCH-014"}, {<<"commons">>}, ContextPackages) \in CommonsContracts
  BY DEF CommonsContracts, If, Types
<1>4. CommonsTypesImportable =>
        Forbidden({"ARCH-015"}, Types, ContextPackages \cup ProjectCommonsModules)
          \in CommonsContracts
  BY DEF CommonsContracts, If, Types
<1>5. CommonsTypesImportable =>
        Forbidden({"ARCH-035"}, Types, {<<f>> : f \in FrameworkModules}) \in CommonsContracts
  BY DEF CommonsContracts, If, Types
<1>6. DomainApplicationModules # {} /\ CommonsIsRoot =>
        Forbidden({"ARCH-034"}, DomainApplicationModules, {<<"commons", "adapters">>})
          \in CommonsContracts
  BY DEF CommonsContracts, If, Types
<1>7. ASSUME NEW k, k \in IndependenceContracts \/ k \in BootstrapContracts \/ k \in CommonsContracts
      PROVE  k \in BuildContracts
  BY <1>7 DEF BuildContracts
<1> QED
  BY <1>1, <1>2, <1>3, <1>4, <1>5, <1>6, <1>7

-----------------------------------------------------------------------------
(* What a rule forbids, a contract keeps apart *)

LEMMA LayerHolds ==
  ASSUME NEW c, NEW m, NEW layers, InLayer(m, c, layers)
  PROVE  \E a \in Modules(c), l \in layers :
           <<c, a, l>> \in LayerDirs(c, layers) /\ Within(m, <<c, a, l>>)
  BY LayerDirsAre DEF InLayer

\* entrypoints/ and read/ are directories of their context, and no module's.
LEMMA ReservedDir ==
  ASSUME project \in Projects, NEW c \in Contexts, NEW n \in Importable,
         NEW r \in {"entrypoints", "read"}, Within(n, <<c, r>>)
  PROVE  n \in project.modules /\ n # <<c, r>> /\ IsDir(<<c, r>>) /\ n[1] = c
<1>1. IsPath(n) /\ Len(n) \in Nat /\ n[1] = c /\ n[2] = r /\ Len(n) >= 2
  BY Importables, WithinTwo
<1>2. n \in project.modules
  BY <1>1, Importables, ContextNames
<1>3. n # <<c, r>>
  <2> SUFFICES ASSUME n = <<c, r>>
               PROVE  FALSE
    OBVIOUS
  <2>1. Len(n) = 2
    BY PathOfTwo
  <2> QED
    BY <1>1, <1>2, <2>1, Laid
<1> QED
  BY <1>1, <1>2, <1>3, DirIs

LEMMA LayerApartFromReserved ==
  ASSUME project \in Projects, NEW c, NEW a \in Modules(c), NEW l, NEW r \in {"entrypoints", "read"}
  PROVE  ~Overlap(<<c, a, l>>, <<c, r>>) /\ ~Overlap(<<c, r>>, <<c, a, l>>)
<1>1. IsPath(<<c, a, l>>) /\ Len(<<c, a, l>>) = 3 /\ <<c, a, l>>[2] = a
  BY PathOfThree
<1>2. IsPath(<<c, r>>) /\ Len(<<c, r>>) = 2 /\ <<c, r>>[2] = r
  BY PathOfTwo
<1>3. a # r
  BY ModuleNames
<1> QED
  BY <1>1, <1>2, <1>3, Differ

LEMMA Bite006 ==
  ASSUME project \in Projects, NEW m \in project.modules, NEW n \in Importable,
         NEW c \in Contexts, InLayer(m, c, {"application"}), Within(n, <<c, "entrypoints">>)
  PROVE  Bites("ARCH-006", m, n)
<1>1. PICK a \in Modules(c) :
        <<c, a, "application">> \in Applications(c) /\ Within(m, <<c, a, "application">>)
  <2>1. PICK ls : ls = {"application"}
    OBVIOUS
  <2>2. InLayer(m, c, ls)
    BY <2>1
  <2>3. \E a \in Modules(c), l \in ls :
          <<c, a, l>> \in LayerDirs(c, ls) /\ Within(m, <<c, a, l>>)
    BY <2>2, LayerHolds
  <2> QED
    BY <2>1, <2>3 DEF Applications
<1>2. IsDir(<<c, "entrypoints">>)
  BY ReservedDir
<1> DEFINE k == Forbidden({"ARCH-006"}, Applications(c), {<<c, "entrypoints">>})
<1>3. k \in BuildContracts
  BY <1>1, <1>2, ModuleContractsAre, ContractsOfContext
<1>4. KeepsApart(k, m, n)
  BY <1>1, LayerApartFromReserved, ForbiddenKeeps
<1>5. k.rules = {"ARCH-006"}
  BY ContractRules
<1> QED
  BY <1>3, <1>4, <1>5 DEF Bites

LEMMA Bite009 ==
  ASSUME project \in Projects, NEW m \in project.modules, NEW n \in Importable,
         NEW c \in Contexts, Within(m, <<c, "entrypoints">>), InLayer(n, c, {"adapters"})
  PROVE  Bites("ARCH-009", m, n)
<1>1. PICK a \in Modules(c) :
        <<c, a, "adapters">> \in LayerDirs(c, {"adapters"}) /\ Within(n, <<c, a, "adapters">>)
  <2>1. PICK ls : ls = {"adapters"}
    OBVIOUS
  <2>2. InLayer(n, c, ls)
    BY <2>1
  <2>3. \E a \in Modules(c), l \in ls :
          <<c, a, l>> \in LayerDirs(c, ls) /\ Within(n, <<c, a, l>>)
    BY <2>2, LayerHolds
  <2> QED
    BY <2>1, <2>3
<1>2. IsDir(<<c, "entrypoints">>)
  BY ModuleIsImportable, ReservedDir
<1> DEFINE k == Forbidden({"ARCH-009"}, {<<c, "entrypoints">>}, LayerDirs(c, {"adapters"}))
<1>3. k \in BuildContracts
  BY <1>1, <1>2, EntrypointContractsAre, ContractsOfContext
<1>4. KeepsApart(k, m, n)
  BY <1>1, LayerApartFromReserved, ForbiddenKeeps
<1>5. k.rules = {"ARCH-009"}
  BY ContractRules
<1> QED
  BY <1>3, <1>4, <1>5 DEF Bites

LEMMA Bite052 ==
  ASSUME project \in Projects, NEW m \in project.modules, NEW n \in Importable,
         NEW c \in Contexts, Within(m, <<c, "read">>), InLayer(n, c, {"domain", "application"})
  PROVE  Bites("ARCH-052", m, n)
<1> DEFINE targets == LayerDirs(c, {"domain", "application"})
<1>1. PICK a \in Modules(c), l \in {"domain", "application"} :
        <<c, a, l>> \in targets /\ Within(n, <<c, a, l>>)
  <2>1. PICK ls : ls = {"domain", "application"}
    OBVIOUS
  <2>2. InLayer(n, c, ls)
    BY <2>1
  <2>3. \E a \in Modules(c), l \in ls :
          <<c, a, l>> \in LayerDirs(c, ls) /\ Within(n, <<c, a, l>>)
    BY <2>2, LayerHolds
  <2> QED
    BY <2>1, <2>3
<1>2. IsDir(<<c, "read">>)
  BY ModuleIsImportable, ReservedDir
<1> DEFINE k == Forbidden({"ARCH-052"}, {<<c, "read">>}, targets)
<1>3. k \in BuildContracts
  BY <1>1, <1>2, ModuleContractsAre, ContractsOfContext
<1>4. KeepsApart(k, m, n)
  BY <1>1, LayerApartFromReserved, ForbiddenKeeps
<1>5. k.rules = {"ARCH-052"}
  BY ContractRules
<1> QED
  BY <1>3, <1>4, <1>5 DEF Bites

LEMMA Bite011 ==
  ASSUME project \in Projects, NEW m \in project.modules, NEW n \in Importable, m # n,
         NEW c \in Contexts, Within(m, <<c, "entrypoints">>), Within(n, <<c, "entrypoints">>),
         ~IsInit(m), ~IsInit(n)
  PROVE  Bites("ARCH-011", m, n)
<1>1. n \in project.modules /\ n # <<c, "entrypoints">> /\ m # <<c, "entrypoints">>
  BY ModuleIsImportable, ReservedDir
<1>2. m \in Siblings(c) /\ n \in Siblings(c)
  BY <1>1 DEF Siblings, EntrypointModules, IsStrictPrefix, Within
<1>3. Cardinality(Siblings(c)) > 1
  <2>1. Siblings(c) \in SUBSET Files
    BY Laid DEF Siblings, EntrypointModules
  <2>2. IsFiniteSet(Siblings(c))
    BY <2>1, Laid, FS_Subset
  <2> QED
    BY <1>2, <2>2, TwoAreMoreThanOne
<1> DEFINE k == Forbidden({"ARCH-011"}, Siblings(c), Siblings(c))
<1>4. k \in BuildContracts
  BY <1>3, EntrypointContractsAre, ContractsOfContext
<1>5. ~Overlap(m, n)
  BY <1>1, Laid DEF Overlap, IsStrictPrefix
<1>6. Within(m, m) /\ Within(n, n)
  BY <1>1, Laid, PathsCompare DEF Within
<1>7. KeepsApart(k, m, n)
  BY <1>2, <1>5, <1>6, ForbiddenKeeps
<1>8. k.rules = {"ARCH-011"}
  BY ContractRules
<1> QED
  BY <1>4, <1>7, <1>8 DEF Bites

LEMMA Bite046 ==
  ASSUME project \in Projects, NEW m \in project.modules, NEW n \in Importable,
         NEW c \in Contexts, NEW a \in Modules(c), NEW b \in Modules(c), a # b,
         Within(m, <<c, a>>), Within(n, <<c, b>>), InLayer(n, c, {"application", "adapters"})
  PROVE  Bites("ARCH-046", m, n)
<1>1. PICK d \in Modules(c), l \in {"application", "adapters"} :
        <<c, d, l>> \in PrivateLayers(c) /\ Within(n, <<c, d, l>>)
  <2>1. PICK ls : ls = {"application", "adapters"}
    OBVIOUS
  <2>2. InLayer(n, c, ls)
    BY <2>1
  <2>3. \E e \in Modules(c), l \in ls :
          <<c, e, l>> \in LayerDirs(c, ls) /\ Within(n, <<c, e, l>>)
    BY <2>2, LayerHolds
  <2> QED
    BY <2>1, <2>3 DEF PrivateLayers
<1>2. d = b
  BY <1>1, Importables, WithinTwo, WithinThree
<1>3. Cardinality(Modules(c)) > 1
  BY ModulesAreFinite, TwoAreMoreThanOne
<1> DEFINE k == Forbidden({"ARCH-046"}, {<<c, x>> : x \in Modules(c)}, PrivateLayers(c))
<1>4. k \in BuildContracts
  BY <1>1, <1>3, ModuleContractsAre, ContractsOfContext
<1>5. ~Overlap(<<c, a>>, <<c, b, l>>)
  <2>1. IsPath(<<c, a>>) /\ Len(<<c, a>>) = 2 /\ <<c, a>>[2] = a
    BY PathOfTwo
  <2>2. IsPath(<<c, b, l>>) /\ Len(<<c, b, l>>) = 3 /\ <<c, b, l>>[2] = b
    BY PathOfThree
  <2> QED
    BY <2>1, <2>2, Differ
<1>6. <<c, a>> \in {<<c, x>> : x \in Modules(c)}
  OBVIOUS
<1>7. KeepsApart(k, m, n)
  BY <1>1, <1>2, <1>5, <1>6, ForbiddenKeeps
<1>8. k.rules = {"ARCH-046"}
  BY ContractRules
<1> QED
  BY <1>4, <1>7, <1>8 DEF Bites

LEMMA ContextsApart ==
  ASSUME NEW c, NEW d, c # d
  PROVE  ~Overlap(<<c>>, <<d>>)
<1>1. IsPath(<<c>>) /\ Len(<<c>>) = 1 /\ <<c>>[1] = c
  BY PathOfOne
<1>2. IsPath(<<d>>) /\ Len(<<d>>) = 1 /\ <<d>>[1] = d
  BY PathOfOne
<1> QED
  BY <1>1, <1>2, Differ

LEMMA FirstApart ==
  ASSUME NEW s, NEW x, NEW y, IsPath(s), Len(s) >= 1, s[1] # x
  PROVE  ~Overlap(s, <<x, y>>) /\ ~Overlap(<<x, y>>, s)
<1>1. IsPath(<<x, y>>) /\ Len(<<x, y>>) = 2 /\ <<x, y>>[1] = x
  BY PathOfTwo
<1> QED
  BY <1>1, Differ

LEMMA Bite012 ==
  ASSUME IsScannable, NEW m, NEW n, NEW c \in Contexts, NEW d \in Contexts, c # d,
         Within(m, <<c>>), Within(n, <<d>>)
  PROVE  Bites("ARCH-012", m, n) /\ Bites("ARCH-025", m, n)
<1> DEFINE k == Independent({"ARCH-012", "ARCH-013", "ARCH-025"}, ContextPackages)
<1>1. k \in BuildContracts
  BY ProjectContractsAre
<1>2. <<c>> \in ContextPackages /\ <<d>> \in ContextPackages
  BY DEF ContextPackages
<1>3. <<c>> # <<d>>
  OBVIOUS
<1>4. <<<<c>>, <<d>>>> \in k.apart
  BY <1>2, <1>3 DEF Independent
<1>5. KeepsApart(k, m, n)
  BY <1>4 DEF KeepsApart
<1>6. k.rules = {"ARCH-012", "ARCH-013", "ARCH-025"}
  BY ContractRules
<1> QED
  BY <1>1, <1>5, <1>6 DEF Bites

LEMMA Bite014 ==
  ASSUME project \in Projects, IsScannable, NEW m \in project.modules, NEW n, NEW c \in Contexts,
         Within(m, <<"commons">>), Within(n, <<c>>)
  PROVE  Bites("ARCH-014", m, n)
<1>1. IsDir(<<"commons">>)
  BY Laid, DirIs
<1> DEFINE k == Forbidden({"ARCH-014"}, {<<"commons">>}, ContextPackages)
<1>2. k \in BuildContracts
  BY <1>1, ProjectContractsAre
<1>3. <<c>> \in ContextPackages
  BY DEF ContextPackages
<1>4. ~Overlap(<<"commons">>, <<c>>)
  BY ContextNames, ContextsApart
<1>5. KeepsApart(k, m, n)
  BY <1>3, <1>4, ForbiddenKeeps
<1>6. k.rules = {"ARCH-014"}
  BY ContractRules
<1> QED
  BY <1>2, <1>5, <1>6 DEF Bites

LEMMA BootstrapIsThere ==
  ASSUME project \in Projects, NEW n \in Importable, Within(n, <<"bootstrap">>)
  PROVE  IsDir(<<"bootstrap">>)
<1>1. n[1] = "bootstrap"
  BY Importables, WithinOne
<1>2. n \in project.modules
  BY <1>1, Importables, ContractsAssumption
<1> QED
  BY <1>2, Laid, DirIs

LEMMA Bite017 ==
  ASSUME project \in Projects, IsScannable, NEW m, NEW n \in Importable, NEW c \in Contexts,
         Within(m, <<c>>), Within(n, <<"bootstrap">>)
  PROVE  Bites("ARCH-017", m, n)
<1>3. IsDir(<<"bootstrap">>)
  BY BootstrapIsThere
<1> DEFINE k == Forbidden({"ARCH-017"}, ContextPackages, {<<"bootstrap">>})
<1>4. k \in BuildContracts
  BY <1>3, ProjectContractsAre
<1>5. <<c>> \in ContextPackages
  BY DEF ContextPackages
<1>6. ~Overlap(<<c>>, <<"bootstrap">>)
  BY ContextNames, ContextsApart
<1>7. KeepsApart(k, m, n)
  BY <1>5, <1>6, ForbiddenKeeps
<1>8. k.rules = {"ARCH-017"}
  BY ContractRules
<1> QED
  BY <1>4, <1>7, <1>8 DEF Bites

LEMMA TypesAreThere ==
  ASSUME project \in Projects, NEW m \in project.modules, Within(m, <<"commons", "types">>)
  PROVE  CommonsTypesImportable
  BY Laid, DirIs DEF CommonsTypesImportable

LEMMA TypesApart ==
  /\ IsPath(<<"commons", "types">>) /\ Len(<<"commons", "types">>) = 2
  /\ <<"commons", "types">>[1] = "commons" /\ <<"commons", "types">>[2] = "types"
  BY PathOfTwo

LEMMA PortionsAre ==
  ASSUME NEW p \in ProjectCommonsModules
  PROVE  \E x : p = <<"commons", x>> /\ x \notin {"types", "adapters"}
  BY DEF ProjectCommonsModules

LEMMA Bite015 ==
  ASSUME project \in Projects, IsScannable, NEW m \in project.modules, NEW n,
         Within(m, <<"commons", "types">>),
         NEW t \in ContextPackages \cup ProjectCommonsModules, Within(n, t)
  PROVE  Bites("ARCH-015", m, n)
<1> DEFINE k == Forbidden({"ARCH-015"}, Types, ContextPackages \cup ProjectCommonsModules)
<1>1. k \in BuildContracts
  BY TypesAreThere, ProjectContractsAre
<1>2. ~Overlap(<<"commons", "types">>, t)
  <2>1. CASE t \in ContextPackages
    <3>1. PICK c \in Contexts : t = <<c>>
      BY <2>1 DEF ContextPackages
    <3>2. c # "commons"
      BY ContextNames
    <3>3. IsPath(t) /\ Len(t) = 1 /\ t[1] = c
      BY <3>1, PathOfOne
    <3>4. Len(t) >= 1 /\ t[1] # "commons"
      BY <3>2, <3>3
    <3> QED
      BY <3>3, <3>4, FirstApart
  <2>2. CASE t \in ProjectCommonsModules
    <3>1. PICK x : t = <<"commons", x>> /\ x # "types"
      BY <2>2, PortionsAre
    <3>2. IsPath(t) /\ Len(t) = 2 /\ t[2] = x
      BY <3>1, PathOfTwo
    <3> QED
      BY <3>1, <3>2, TypesApart, Differ
  <2> QED
    BY <2>1, <2>2
<1>3. KeepsApart(k, m, n)
  BY <1>2, ForbiddenKeeps DEF Types
<1>4. k.rules = {"ARCH-015"}
  BY ContractRules
<1> QED
  BY <1>1, <1>3, <1>4 DEF Bites

LEMMA Bite035 ==
  ASSUME project \in Projects, IsScannable, NEW m \in project.modules, NEW n \in Importable,
         Within(m, <<"commons", "types">>), n[1] \in FrameworkModules
  PROVE  Bites("ARCH-035", m, n)
<1> DEFINE t == <<n[1]>>
           k == Forbidden({"ARCH-035"}, Types, {<<f>> : f \in FrameworkModules})
<1>1. k \in BuildContracts
  BY TypesAreThere, ProjectContractsAre
<1>2. Within(n, t)
  BY Importables, WithinOne
<1>3. ~Overlap(<<"commons", "types">>, t)
  <2>1. n[1] # "commons"
    BY DEF FrameworkModules
  <2>2. IsPath(t) /\ Len(t) = 1 /\ t[1] = n[1]
    BY PathOfOne
  <2> HIDE DEF t, k
  <2> QED
    BY <2>1, <2>2, TypesApart, FirstApart
<1>4. KeepsApart(k, m, n)
  BY <1>2, <1>3, ForbiddenKeeps DEF Types
<1>5. k.rules = {"ARCH-035"}
  BY ContractRules
<1> QED
  BY <1>1, <1>4, <1>5 DEF Bites

LEMMA Bite034 ==
  ASSUME project \in Projects, IsScannable, NEW m \in project.modules, NEW n \in Importable,
         NEW c \in Contexts, InLayer(m, c, {"domain", "application"}),
         Within(n, <<"commons", "adapters">>)
  PROVE  Bites("ARCH-034", m, n)
<1>1. PICK a \in Modules(c), l \in {"domain", "application"} :
        <<c, a, l>> \in DomainApplicationModules /\ Within(m, <<c, a, l>>)
  <2>1. PICK ls : ls = {"domain", "application"}
    OBVIOUS
  <2>2. InLayer(m, c, ls)
    BY <2>1
  <2>3. \E a \in Modules(c), l \in ls :
          <<c, a, l>> \in LayerDirs(c, ls) /\ Within(m, <<c, a, l>>)
    BY <2>2, LayerHolds
  <2> QED
    BY <2>1, <2>3 DEF DomainApplicationModules
<1>2. CommonsIsRoot
  <2>1. IsPath(n) /\ n[1] = "commons" /\ Len(n) >= 2 /\ Len(n) \in Nat
    BY Importables, WithinTwo
  <2>2. Within(n, <<"commons">>)
    BY <2>1, WithinOne
  <2>3. n \in project.modules \/ project.installed
    BY <2>1, Importables
  <2> QED
    BY <2>2, <2>3, Laid, DirIs DEF CommonsIsRoot
<1> DEFINE k == Forbidden({"ARCH-034"}, DomainApplicationModules, {<<"commons", "adapters">>})
<1>3. k \in BuildContracts
  BY <1>1, <1>2, ProjectContractsAre
<1>4. ~Overlap(<<c, a, l>>, <<"commons", "adapters">>)
  <2>1. IsPath(<<c, a, l>>) /\ Len(<<c, a, l>>) = 3 /\ <<c, a, l>>[1] = c
    BY PathOfThree
  <2>2. c # "commons"
    BY ContextNames
  <2> QED
    BY <2>1, <2>2, FirstApart
<1>5. KeepsApart(k, m, n)
  BY <1>1, <1>4, ForbiddenKeeps
<1>6. k.rules = {"ARCH-034"}
  BY ContractRules
<1> QED
  BY <1>3, <1>5, <1>6 DEF Bites

\* The layers of one module, and those of another.
LEMMA BiteLayers ==
  ASSUME project \in Projects, NEW m \in project.modules, NEW n \in Importable, NEW c \in Contexts,
         NEW from, NEW to,
         \/ from = "domain" /\ to = "application"
         \/ from = "domain" /\ to = "adapters"
         \/ from = "application" /\ to = "adapters",
         InLayer(m, c, {from}), InLayer(n, c, {to})
  PROVE  /\ \E r \in ModuleLayerRules \cup {"ARCH-046"} : Bites(r, m, n)
         /\ \E k \in BuildContracts : ModuleLayerRules = k.rules
<1>1. PICK a \in Modules(c) : Within(m, <<c, a, from>>)
  <2>1. PICK ls : ls = {from}
    OBVIOUS
  <2>2. InLayer(m, c, ls)
    BY <2>1
  <2>3. \E a \in Modules(c), l \in ls : Within(m, <<c, a, l>>)
    BY <2>2, LayerHolds
  <2> QED
    BY <2>1, <2>3
<1>2. PICK b \in Modules(c) : Within(n, <<c, b, to>>) /\ <<c, b, to>> \in LayerDirs(c, {to})
  <2>1. PICK ls : ls = {to}
    OBVIOUS
  <2>2. InLayer(n, c, ls)
    BY <2>1
  <2>3. \E b \in Modules(c), l \in ls :
          <<c, b, l>> \in LayerDirs(c, ls) /\ Within(n, <<c, b, l>>)
    BY <2>2, LayerHolds
  <2> QED
    BY <2>1, <2>3
<1> DEFINE k == Layered(ModuleLayerRules, c, a)
<1>3. k \in BuildContracts
  BY ModuleContractsAre, ContractsOfContext
<1>4. k.rules = ModuleLayerRules
  BY ContractRules
<1>5. CASE a = b
  <2>3. <<<<c, a, from>>, <<c, a, to>>>> \in k.apart
    BY DEF Layered
  <2>4. KeepsApart(k, m, n)
    BY <1>1, <1>2, <1>5, <2>3 DEF KeepsApart
  <2>5. "ARCH-001" \in ModuleLayerRules
    BY DEF ModuleLayerRules
  <2> QED
    BY <1>3, <1>4, <2>4, <2>5 DEF Bites
<1>6. CASE a # b
  <2>1. Within(m, <<c, a>>) /\ Within(n, <<c, b>>)
    BY <1>1, <1>2, Laid, Importables, WithinTwo, WithinThree
  <2>2. InLayer(n, c, {"application", "adapters"})
    BY <1>2, LayerDirsAre DEF InLayer
  <2>3. Bites("ARCH-046", m, n)
    BY <1>6, <2>1, <2>2, Bite046
  <2> QED
    BY <1>3, <1>4, <2>3
<1> QED
  BY <1>5, <1>6

\* Every rule at once, but for what its contract does not speak of.
LEMMA ForbiddenBites ==
  ASSUME project \in Projects, IsScannable, NEW m \in project.modules, NEW n \in Importable, m # n,
         NEW rule \in RuleIds, Forbids(rule, m, n), ~IsOverlooked(rule, m, n)
  PROVE  /\ \E r \in RuleIds \ {"ARCH-013"} : Bites(r, m, n)
         /\ \E k \in BuildContracts : rule \in k.rules
         /\ IsGraphed(m)
<1>1. ASSUME NEW r \in RuleIds \ {"ARCH-013"}, Bites(r, m, n), r = rule
      PROVE  /\ \E q \in RuleIds \ {"ARCH-013"} : Bites(q, m, n)
             /\ \E k \in BuildContracts : rule \in k.rules
  BY <1>1 DEF Bites
<1>2. ModuleLayerRules \cup {"ARCH-046"} \subseteq RuleIds \ {"ARCH-013"}
  BY DEF ModuleLayerRules, RuleIds
<1>3. ASSUME NEW c \in Contexts, NEW layers, InLayer(m, c, layers)
      PROVE  IsGraphed(m)
  <2>1. m[1] = c
    BY <1>3, ModuleIsImportable, InLayerIs
  <2> QED
    BY <2>1, GraphedModule
<1>4. ASSUME NEW c \in Contexts, Within(m, <<c>>)
      PROVE  IsGraphed(m)
  BY <1>4, ModuleIsImportable, ContextIs, GraphedModule
<1>5. ASSUME NEW c \in Contexts, NEW r, Within(m, <<c, r>>)
      PROVE  IsGraphed(m)
  BY <1>5, Laid, WithinTwo, GraphedModule
<1>6. ASSUME Within(m, <<"commons">>) \/ Within(m, <<"commons", "types">>)
      PROVE  IsGraphed(m)
  BY <1>6, Laid, WithinOne, WithinTwo, GraphedModule
<1>7. ASSUME NEW c \in Contexts, NEW from, NEW to,
             \/ from = "domain" /\ to = "application"
             \/ from = "domain" /\ to = "adapters"
             \/ from = "application" /\ to = "adapters",
             InLayer(m, c, {from}), InLayer(n, c, {to}), rule \in ModuleLayerRules
      PROVE  /\ \E r \in RuleIds \ {"ARCH-013"} : Bites(r, m, n)
             /\ \E k \in BuildContracts : rule \in k.rules
             /\ IsGraphed(m)
  BY <1>2, <1>3, <1>7, BiteLayers
<1>8. CASE rule = "ARCH-001"
  BY <1>7, <1>8 DEF Forbids, ModuleLayerRules
<1>9. CASE rule = "ARCH-002"
  BY <1>7, <1>9 DEF Forbids, ModuleLayerRules
<1>10. CASE rule = "ARCH-005"
  BY <1>7, <1>10 DEF Forbids, ModuleLayerRules
<1>11. CASE rule = "ARCH-006"
  BY <1>1, <1>3, <1>11, Bite006 DEF Forbids
<1>12. CASE rule = "ARCH-009"
  BY <1>1, <1>5, <1>12, Bite009 DEF Forbids
<1>13. CASE rule = "ARCH-011"
  BY <1>1, <1>5, <1>13, Bite011 DEF Forbids, IsOverlooked, IsBesideInit
<1>14. CASE rule \in {"ARCH-012", "ARCH-025"}
  BY <1>1, <1>4, <1>14, Bite012 DEF Forbids
<1>15. CASE rule = "ARCH-014"
  BY <1>1, <1>6, <1>15, Bite014 DEF Forbids, InContext
<1>16. CASE rule = "ARCH-015"
  BY <1>1, <1>6, <1>16, Bite015 DEF Forbids, IsOverlooked, InContext, ContextPackages, CommonsTypes
<1>17. CASE rule = "ARCH-017"
  BY <1>1, <1>4, <1>17, Bite017 DEF Forbids, IsOverlooked, InContext
<1>18. CASE rule = "ARCH-034"
  BY <1>1, <1>3, <1>18, Bite034 DEF Forbids, CommonsAdapters
<1>19. CASE rule = "ARCH-035"
  BY <1>1, <1>6, <1>19, Bite035 DEF Forbids, IsOverlooked, CommonsTypes
<1>20. CASE rule = "ARCH-046"
  BY <1>1, <1>5, <1>20, Bite046 DEF Forbids
<1>21. CASE rule = "ARCH-052"
  BY <1>1, <1>5, <1>21, Bite052 DEF Forbids
<1>22. rule \notin {"ARCH-007", "ARCH-008", "ARCH-013"}
  BY DEF Forbids
<1> QED
  BY <1>8, <1>9, <1>10, <1>11, <1>12, <1>13, <1>14, <1>15, <1>16, <1>17, <1>18, <1>19, <1>20,
     <1>21, <1>22 DEF RuleIds, ModuleLayerRules

\* The contract of a rule is written even where it does not speak of an import the
\* rule forbids, except for the entrypoints of ARCH-011.
LEMMA ForbiddenIsWritten ==
  ASSUME project \in Projects, IsScannable, NEW m \in project.modules, NEW n \in Importable, m # n,
         NEW rule \in RuleIds, Forbids(rule, m, n), ~IsBesideInit(rule, m, n)
  PROVE  \E k \in BuildContracts : rule \in k.rules
<1>1. CASE ~IsOverlooked(rule, m, n)
  BY <1>1, ForbiddenBites
<1>2. CASE rule = "ARCH-015" \/ rule = "ARCH-035"
  <2>1. CommonsTypesImportable
    BY <1>2, TypesAreThere DEF Forbids, CommonsTypes
  <2>2. \E k \in BuildContracts : k.rules = {"ARCH-015"}
    BY <2>1, ProjectContractsAre, ContractRules
  <2>3. \E k \in BuildContracts : k.rules = {"ARCH-035"}
    BY <2>1, ProjectContractsAre, ContractRules
  <2> QED
    BY <1>2, <2>2, <2>3
<1>3. CASE rule = "ARCH-017"
  <2>1. IsDir(<<"bootstrap">>)
    BY <1>3, BootstrapIsThere DEF Forbids
  <2>2. \E k \in BuildContracts : k.rules = {"ARCH-017"}
    BY <2>1, ProjectContractsAre, ContractRules
  <2> QED
    BY <1>3, <2>2
<1> QED
  BY <1>1, <1>2, <1>3 DEF IsOverlooked

-----------------------------------------------------------------------------
(* A run of the check *)

\* What a broken contract is, for one import.
LEMMA ImportBreaks ==
  ASSUME imports \subseteq project.modules \X Importable,
         NEW m, NEW n, <<m, n>> \in imports, IsGraphed(m), NEW k, KeepsApart(k, m, n)
  PROVE  IsBroken(k)
<1>1. PICK pair \in k.apart : Within(m, pair[1]) /\ Within(n, pair[2])
  BY DEF KeepsApart
<1>2. m \in Importable
  BY ModuleIsImportable
<1>3. n \in Reached(pair[1])
  BY <1>1, <1>2 DEF Reached
<1> QED
  BY <1>1, <1>3 DEF IsBroken

LEMMA RootsAreThere == ASSUME IsScannable PROVE Roots # {}
  BY DEF IsScannable, Roots

LEMMA RunFails ==
  ASSUME IsScannable, NEW k \in BuildContracts, IsBroken(k), NEW rule \in k.rules,
         rule \in RuleIds \ {"ARCH-013"}
  PROVE  Run[rule] = "FAIL"
<1>1. Roots # {}
  BY RootsAreThere
<1>2. CASE IsError(BuildContracts)
  BY <1>1, <1>2 DEF Run
<1>3. CASE ~IsError(BuildContracts)
  <2>1. Run = ContractReports(BuildContracts)
    BY <1>1, <1>3 DEF Run
  <2>2. rule \in RulesOf(BuildContracts)
    BY DEF RulesOf
  <2>3. rule \in RulesOf({c \in BuildContracts : IsBroken(c)})
    BY DEF RulesOf
  <2> QED
    BY <2>1, <2>2, <2>3 DEF ContractReports, Violated
<1> QED
  BY <1>2, <1>3

LEMMA RunSkips ==
  ASSUME IsScannable, NEW rule \in RuleIds, Run[rule] = "SKIP"
  PROVE  \A k \in BuildContracts : rule \notin k.rules
<1>1. Roots # {}
  BY RootsAreThere
<1>2. ~IsError(BuildContracts)
  BY <1>1 DEF Run
<1>3. Run = ContractReports(BuildContracts)
  BY <1>1, <1>2 DEF Run
<1>4. rule \notin RulesOf(BuildContracts)
  BY <1>3 DEF ContractReports, Violated
<1> QED
  BY <1>4 DEF RulesOf

LEMMA RunType == Run \in [RuleIds -> {"PASS", "FAIL", "WARN", "SKIP"}]
<1>1. \A contracts : ContractReports(contracts) \in [RuleIds -> {"PASS", "FAIL", "WARN", "SKIP"}]
  BY DEF ContractReports, Violated
<1>2. Run \in {[rule \in RuleIds |-> "SKIP"], [rule \in RuleIds |-> "FAIL"],
               ContractReports(BuildContracts)}
  BY DEF Run
<1> QED
  BY <1>1, <1>2

-----------------------------------------------------------------------------
(* What contracts there are, and that their sources exist *)

LEMMA ContextContractsAre ==
  ASSUME NEW c, NEW k, k \in ModuleContracts(c) \/ k \in EntrypointContracts(c)
  PROVE  \/ \E a \in Modules(c) : k = Layered(ModuleLayerRules, c, a)
         \/ /\ IsDir(<<c, "entrypoints">>)
            /\ k = Forbidden({"ARCH-006"}, Applications(c), {<<c, "entrypoints">>})
         \/ k = Forbidden({"ARCH-046"}, {<<c, a>> : a \in Modules(c)}, PrivateLayers(c))
         \/ /\ IsDir(<<c, "read">>)
            /\ k = Forbidden({"ARCH-052"}, {<<c, "read">>}, LayerDirs(c, {"domain", "application"}))
         \/ /\ IsDir(<<c, "entrypoints">>)
            /\ k = Forbidden({"ARCH-009"}, {<<c, "entrypoints">>}, LayerDirs(c, {"adapters"}))
         \/ k = Forbidden({"ARCH-011"}, Siblings(c), Siblings(c))
<1>1. CASE k \in ModuleContracts(c)
  BY <1>1 DEF ModuleContracts, If
<1>2. CASE k \in EntrypointContracts(c)
  BY <1>2 DEF EntrypointContracts, If
<1> QED
  BY <1>1, <1>2

LEMMA CommonsContractsAre ==
  ASSUME NEW k \in CommonsContracts
  PROVE  \/ /\ IsDir(<<"commons">>)
            /\ k = Forbidden({"ARCH-014"}, {<<"commons">>}, ContextPackages)
         \/ /\ CommonsTypesImportable
            /\ \/ k = Forbidden({"ARCH-015"}, Types, ContextPackages \cup ProjectCommonsModules)
               \/ k = Forbidden({"ARCH-035"}, Types, {<<f>> : f \in FrameworkModules})
         \/ k = Forbidden({"ARCH-034"}, DomainApplicationModules, {<<"commons", "adapters">>})
  BY DEF CommonsContracts, If, Types

LEMMA OtherContractsAre ==
  ASSUME NEW k, k \in IndependenceContracts \/ k \in BootstrapContracts
  PROVE  \/ k = Independent({"ARCH-012", "ARCH-013", "ARCH-025"}, ContextPackages)
         \/ k = Forbidden({"ARCH-017"}, ContextPackages, {<<"bootstrap">>})
  BY DEF IndependenceContracts, BootstrapContracts, If

LEMMA ContractCases ==
  ASSUME NEW k \in BuildContracts
  PROVE  \/ \E c \in Contexts : k \in ModuleContracts(c) \/ k \in EntrypointContracts(c)
         \/ k \in IndependenceContracts \/ k \in BootstrapContracts
         \/ k \in CommonsContracts
<1>1. CASE k \in ContextContracts
  BY <1>1 DEF ContextContracts
<1> QED
  BY <1>1 DEF BuildContracts

LEMMA LayersArePackages ==
  ASSUME NoneIsBare, NEW c \in Contexts, NEW layers \in SUBSET Layers, NEW d \in LayerDirs(c, layers)
  PROVE  IsPackage(d)
<1>1. PICK a \in Modules(c), l \in layers : d = <<c, a, l>> /\ IsDir(d)
  BY LayerDirsAre
<1>2. d \in LayerDirs(c, Layers)
  BY <1>1, LayerDirsAre
<1>3. d \in NamedDirs
  BY <1>2 DEF NamedDirs
<1> QED
  BY <1>1, <1>3 DEF NoneIsBare

\* A module has a layer, and that a Python module.
LEMMA ModuleIsPackage ==
  ASSUME project \in Projects, NoneIsBare, NEW c \in Contexts, NEW a \in Modules(c)
  PROVE  IsPackage(<<c, a>>)
<1>1. PICK l \in Layers : IsDir(Append(<<c, a>>, l))
  BY DEF Modules, HasModuleLayer
<1>2. Append(<<c, a>>, l) = <<c, a, l>>
  <2>1. /\ <<c, a>> \in Seq({c, a, l}) /\ Len(<<c, a>>) = 2
        /\ <<c, a>>[1] = c /\ <<c, a>>[2] = a
    OBVIOUS
  <2> DEFINE u == Append(<<c, a>>, l)
             v == <<c, a, l>>
  <2>2. u \in Seq({c, a, l}) /\ Len(u) = 3 /\ u[1] = c /\ u[2] = a /\ u[3] = l
    BY <2>1, AppendProperties
  <2>3. v \in Seq({c, a, l}) /\ Len(v) = 3 /\ v[1] = c /\ v[2] = a /\ v[3] = l
    BY PathOfThree
  <2> HIDE DEF u, v
  <2>4. \A i \in 1 .. Len(u) : u[i] = v[i]
    BY <2>2, <2>3, Ranges
  <2>5. u = v
    BY <2>2, <2>3, <2>4, SeqEqual
  <2> QED
    BY <2>5 DEF u, v
<1>3. <<c, a, l>> \in LayerDirs(c, Layers)
  BY <1>1, <1>2, LayerDirsAre
<1>4. PICK m \in Importable : Within(m, <<c, a, l>>)
  BY <1>3, LayersArePackages DEF IsPackage
<1>5. IsPath(m)
  BY Importables
<1>6. Within(m, <<c, a>>)
  BY <1>4, <1>5, WithinTwo, WithinThree, PathLen
<1> QED
  BY <1>6 DEF IsPackage

LEMMA ForbiddenIs ==
  ASSUME NEW rules, NEW sources, NEW targets
  PROVE  /\ Forbidden(rules, sources, targets).sources = sources
         /\ Forbidden(rules, sources, targets).apart
              = {pair \in sources \X targets : ~Overlap(pair[1], pair[2])}
         /\ Independent(rules, sources).sources = sources
         /\ Independent(rules, sources).apart
              = {pair \in sources \X sources : pair[1] # pair[2]}
  BY DEF Forbidden, Independent

LEMMA SourcesExist ==
  ASSUME project \in Projects, NoneIsBare, NEW k \in BuildContracts, NEW s \in k.sources
  PROVE  IsPackage(s)
<1>1. CASE s \in ContextPackages
  BY <1>1, ContextNames DEF ContextPackages, NamedDirs, NoneIsBare
<1>2. CASE s \in Types /\ CommonsTypesImportable
  <2>1. CASE IsDir(<<"commons", "types">>)
    <3>1. s = CommonsTypes /\ IsDir(s)
      BY <1>2, <2>1 DEF Types, CommonsTypes
    <3>2. CommonsTypes \in NamedDirs
      BY DEF NamedDirs
    <3> QED
      BY <3>1, <3>2 DEF NoneIsBare
  <2>2. CASE project.installed
    <3>1. <<"commons", "types", "clock">> \in Importable
      BY <2>2 DEF Importable, Shipped
    <3>2. Within(<<"commons", "types", "clock">>, <<"commons", "types">>)
      BY PathOfThree, WithinTwo
    <3> QED
      BY <1>2, <3>1, <3>2 DEF IsPackage, Types
  <2> QED
    BY <1>2, <2>1, <2>2 DEF CommonsTypesImportable
<1>3. CASE \E c \in Contexts : k \in ModuleContracts(c) \/ k \in EntrypointContracts(c)
  <2>1. PICK c \in Contexts : k \in ModuleContracts(c) \/ k \in EntrypointContracts(c)
    BY <1>3
  <2>2. \/ s \in Applications(c) \/ s \in {<<c, a>> : a \in Modules(c)} \/ s \in Siblings(c)
        \/ s \in {<<c, r>> : r \in Reserved} /\ IsDir(s)
    <3>1. ASSUME NEW a \in Modules(c), k = Layered(ModuleLayerRules, c, a)
          PROVE  FALSE
      BY <3>1 DEF Layered
    <3>2. CASE k = Forbidden({"ARCH-006"}, Applications(c), {<<c, "entrypoints">>})
      BY <3>2, ForbiddenIs
    <3>3. CASE k = Forbidden({"ARCH-046"}, {<<c, a>> : a \in Modules(c)}, PrivateLayers(c))
      <4>1. PICK packages : packages = {<<c, a>> : a \in Modules(c)}
        OBVIOUS
      <4>2. s \in packages
        BY <3>3, <4>1, ForbiddenIs
      <4> QED
        BY <4>1, <4>2
    <3>4. CASE /\ IsDir(<<c, "read">>)
               /\ k = Forbidden({"ARCH-052"}, {<<c, "read">>}, LayerDirs(c, {"domain", "application"}))
      <4>1. s \in {<<c, "read">>}
        BY <3>4, ForbiddenIs
      <4> QED
        BY <3>4, <4>1 DEF Reserved
    <3>5. CASE /\ IsDir(<<c, "entrypoints">>)
               /\ k = Forbidden({"ARCH-009"}, {<<c, "entrypoints">>}, LayerDirs(c, {"adapters"}))
      <4>1. s \in {<<c, "entrypoints">>}
        BY <3>5, ForbiddenIs
      <4> QED
        BY <3>5, <4>1 DEF Reserved
    <3>6. CASE k = Forbidden({"ARCH-011"}, Siblings(c), Siblings(c))
      BY <3>6, ForbiddenIs
    <3> QED
      BY <2>1, <3>1, <3>2, <3>3, <3>4, <3>5, <3>6, ContextContractsAre
  <2>3. CASE s \in Applications(c)
    BY <2>3, LayersArePackages DEF Applications, Layers
  <2>4. CASE s \in {<<c, a>> : a \in Modules(c)}
    BY <2>4, ModuleIsPackage
  <2>5. CASE s \in {<<c, r>> : r \in Reserved} /\ IsDir(s)
    <3>1. s \in {<<x, d>> : x \in Contexts, d \in Reserved}
      BY <2>5
    <3> QED
      BY <2>5, <3>1 DEF NamedDirs, NoneIsBare
  <2>6. CASE s \in Siblings(c)
    <3>1. s \in project.modules
      BY <2>6 DEF Siblings, EntrypointModules
    <3>2. Within(s, s)
      BY <3>1, Laid, PathsCompare DEF Within
    <3> QED
      BY <3>1, <3>2, ModuleIsImportable DEF IsPackage
  <2> QED
    BY <2>2, <2>3, <2>4, <2>5, <2>6
<1>4. CASE k \in IndependenceContracts \/ k \in BootstrapContracts
  <2>1. s \in ContextPackages
    <3>1. CASE k = Independent({"ARCH-012", "ARCH-013", "ARCH-025"}, ContextPackages)
      BY <3>1, ForbiddenIs
    <3>2. CASE k = Forbidden({"ARCH-017"}, ContextPackages, {<<"bootstrap">>})
      BY <3>2, ForbiddenIs
    <3> QED
      BY <1>4, <3>1, <3>2, OtherContractsAre
  <2> QED
    BY <1>1, <2>1
<1>5. CASE k \in CommonsContracts
  <2>1. \/ s = <<"commons">> /\ IsDir(s)
        \/ s \in Types /\ CommonsTypesImportable
        \/ s \in DomainApplicationModules
    <3>1. CASE /\ IsDir(<<"commons">>)
               /\ k = Forbidden({"ARCH-014"}, {<<"commons">>}, ContextPackages)
      <4>1. s \in {<<"commons">>}
        BY <3>1, ForbiddenIs
      <4> QED
        BY <3>1, <4>1
    <3>2. CASE /\ CommonsTypesImportable
               /\ k = Forbidden({"ARCH-015"}, Types, ContextPackages \cup ProjectCommonsModules)
      BY <3>2, ForbiddenIs
    <3>3. CASE /\ CommonsTypesImportable
               /\ k = Forbidden({"ARCH-035"}, Types, {<<f>> : f \in FrameworkModules})
      <4>1. PICK targets : targets = {<<f>> : f \in FrameworkModules}
        OBVIOUS
      <4> QED
        BY <3>3, <4>1, ForbiddenIs
    <3>4. CASE k = Forbidden({"ARCH-034"}, DomainApplicationModules, {<<"commons", "adapters">>})
      BY <3>4, ForbiddenIs
    <3> QED
      BY <1>5, <3>1, <3>2, <3>3, <3>4, CommonsContractsAre
  <2>2. CASE s = <<"commons">> /\ IsDir(s)
    <3>1. <<"commons">> \in NamedDirs
      BY DEF NamedDirs
    <3> QED
      BY <2>2, <3>1 DEF NoneIsBare
  <2>3. CASE s \in DomainApplicationModules
    <3>1. PICK ls : ls = {"domain", "application"}
      OBVIOUS
    <3>2. PICK c \in Contexts : s \in LayerDirs(c, ls)
      BY <2>3, <3>1 DEF DomainApplicationModules
    <3>3. ls \in SUBSET Layers
      BY <3>1 DEF Layers
    <3> QED
      BY <3>2, <3>3, LayersArePackages
  <2> QED
    BY <1>2, <2>1, <2>2, <2>3
<1> QED
  BY <1>3, <1>4, <1>5, ContractCases

-----------------------------------------------------------------------------
(* Where imports that point inward lead *)

Outer(n) == n[1] = "commons" \/ n[1] \in Libraries
Inner(n) == n[1] = "commons" /\ ~Within(n, CommonsAdapters)

LEMMA Places ==
  ASSUME project \in Projects, NEW n \in Importable
  PROVE  /\ Len(n) \in Nat /\ Len(n) >= 1
         /\ \A c : Within(n, <<c>>) <=> n[1] = c
         /\ \A c, d : Within(n, <<c, d>>) <=> Len(n) >= 2 /\ n[1] = c /\ n[2] = d
         /\ \A c, d, e : Within(n, <<c, d, e>>)
                         <=> Len(n) >= 3 /\ n[1] = c /\ n[2] = d /\ n[3] = e
<1>1. IsPath(n) /\ Len(n) \in Nat /\ Len(n) >= 1
  BY Importables
<1>2. \A c : Within(n, <<c>>) <=> n[1] = c
  BY <1>1, WithinOne
<1>3. \A c, d : Within(n, <<c, d>>) <=> Len(n) >= 2 /\ n[1] = c /\ n[2] = d
  BY <1>1, WithinTwo
<1>4. \A c, d, e : Within(n, <<c, d, e>>) <=> Len(n) >= 3 /\ n[1] = c /\ n[2] = d /\ n[3] = e
  BY <1>1, WithinThree
<1> QED
  BY <1>1, <1>2, <1>3, <1>4

FromLayer(c, a, m, n) ==
  \/ Within(m, <<c, a, "domain">>) /\ (Inner(n) \/ Within(n, <<c, a, "domain">>))
  \/ /\ Within(m, <<c, a, "application">>)
     /\ Inner(n) \/ Within(n, <<c, a, "domain">>) \/ Within(n, <<c, a, "application">>)
  \/ Within(m, <<c, a, "adapters">>) /\ (Outer(n) \/ Within(n, <<c, a>>))

FromReserved(c, m, n) ==
  \/ Within(m, <<c, "read">>) /\ (Outer(n) \/ Within(n, <<c, "read">>))
  \/ /\ Within(m, <<c, "entrypoints">>)
     /\ \/ Outer(n) \/ Within(n, <<c, "read">>)
        \/ \E a \in Modules(c) : Within(n, <<c, a, "domain">>) \/ Within(n, <<c, a, "application">>)

FromCommons(m, n) ==
  \/ Within(m, CommonsAdapters) /\ Outer(n)
  \/ ~Within(m, CommonsTypes) /\ ~Within(m, CommonsAdapters) /\ Inner(n)
  \/ Within(m, CommonsTypes) /\ Within(n, CommonsTypes)

LEMMA InLayerNamed ==
  ASSUME project \in Projects, NEW c, NEW m \in Importable, NEW layers, InLayer(m, c, layers)
  PROVE  \E l \in layers : m[2] \in Modules(c) /\ Within(m, <<c, m[2], l>>)
<1>1. PICK a \in Modules(c), l \in layers : Within(m, <<c, a, l>>)
  BY LayerHolds
<1> QED
  BY <1>1, Places

LEMMA InwardFrom ==
  ASSUME project \in Projects, NEW m \in project.modules, NEW n \in Importable,
         PointsInward(m, n)
  PROVE  \/ m[1] = "bootstrap"
         \/ /\ m[1] \in Contexts
            /\ (\E a \in Modules(m[1]) : FromLayer(m[1], a, m, n)) \/ FromReserved(m[1], m, n)
         \/ m[1] = "commons" /\ FromCommons(m, n)
<1> DEFINE c == m[1]
<1>1. m \in Importable
  BY ModuleIsImportable
<1>2. /\ Within(n, <<"commons">>) <=> n[1] = "commons"
      /\ Within(m, <<"commons">>) <=> m[1] = "commons"
      /\ Within(m, <<"bootstrap">>) <=> m[1] = "bootstrap"
      /\ Within(m, CommonsTypes) => m[1] = "commons"
      /\ Within(m, CommonsAdapters) => m[1] = "commons"
  BY <1>1, Places DEF CommonsTypes, CommonsAdapters
<1>3. ASSUME InLayer(m, c, {"domain"}), Inner(n) \/ Within(n, <<c, m[2], "domain">>)
      PROVE  \E a \in Modules(c) : FromLayer(c, a, m, n)
  <2>1. PICK ls : ls = {"domain"}
    OBVIOUS
  <2>2. InLayer(m, c, ls)
    BY <1>3, <2>1
  <2>3. \E l \in ls : m[2] \in Modules(c) /\ Within(m, <<c, m[2], l>>)
    BY <1>1, <2>2, InLayerNamed
  <2> QED
    BY <1>3, <2>1, <2>3 DEF FromLayer
<1>4. ASSUME InLayer(m, c, {"application"}),
             Inner(n) \/ Within(n, <<c, m[2], "domain">>) \/ Within(n, <<c, m[2], "application">>)
      PROVE  \E a \in Modules(c) : FromLayer(c, a, m, n)
  <2>1. PICK ls : ls = {"application"}
    OBVIOUS
  <2>2. InLayer(m, c, ls)
    BY <1>4, <2>1
  <2>3. \E l \in ls : m[2] \in Modules(c) /\ Within(m, <<c, m[2], l>>)
    BY <1>1, <2>2, InLayerNamed
  <2> QED
    BY <1>4, <2>1, <2>3 DEF FromLayer
<1>5. ASSUME InLayer(m, c, {"adapters"}), Outer(n) \/ Within(n, <<c, m[2]>>)
      PROVE  \E a \in Modules(c) : FromLayer(c, a, m, n)
  <2>1. PICK ls : ls = {"adapters"}
    OBVIOUS
  <2>2. InLayer(m, c, ls)
    BY <1>5, <2>1
  <2>3. \E l \in ls : m[2] \in Modules(c) /\ Within(m, <<c, m[2], l>>)
    BY <1>1, <2>2, InLayerNamed
  <2> QED
    BY <1>5, <2>1, <2>3 DEF FromLayer
<1>6. ASSUME Within(m, <<c, "read">>), Outer(n) \/ Within(n, <<c, "read">>)
      PROVE  FromReserved(c, m, n)
  BY <1>6 DEF FromReserved
<1>7. ASSUME Within(m, <<c, "entrypoints">>),
             Outer(n) \/ Within(n, <<c, "read">>) \/ InLayer(n, c, {"application", "domain"})
      PROVE  FromReserved(c, m, n)
  <2>1. PICK ls : ls = {"application", "domain"}
    OBVIOUS
  <2>2. CASE InLayer(n, c, {"application", "domain"})
    <3>1. InLayer(n, c, ls)
      BY <2>1, <2>2
    <3>2. \E l \in ls : n[2] \in Modules(c) /\ Within(n, <<c, n[2], l>>)
      BY <3>1, InLayerNamed
    <3> QED
      BY <1>7, <2>1, <3>2 DEF FromReserved
  <2> QED
    BY <1>7, <2>2 DEF FromReserved
<1>8. \/ Within(m, <<"bootstrap">>)
      \/ /\ c \in Contexts
         /\ \/ InLayer(m, c, {"domain"}) /\ (Inner(n) \/ Within(n, <<c, m[2], "domain">>))
            \/ /\ InLayer(m, c, {"application"})
               /\ \/ Inner(n) \/ Within(n, <<c, m[2], "domain">>)
                  \/ Within(n, <<c, m[2], "application">>)
            \/ InLayer(m, c, {"adapters"}) /\ (Outer(n) \/ Within(n, <<c, m[2]>>))
            \/ Within(m, <<c, "read">>) /\ (Outer(n) \/ Within(n, <<c, "read">>))
            \/ /\ Within(m, <<c, "entrypoints">>)
               /\ Outer(n) \/ Within(n, <<c, "read">>) \/ InLayer(n, c, {"application", "domain"})
      \/ Within(m, <<"commons">>) /\ FromCommons(m, n)
  BY <1>2 DEF PointsInward, Outer, Inner, FromCommons
<1> QED
  BY <1>2, <1>3, <1>4, <1>5, <1>6, <1>7, <1>8

-----------------------------------------------------------------------------
(* Regions no inward import leads out of *)

Encloses(region) ==
  \A m \in project.modules, n \in Importable : m \in region /\ PointsInward(m, n) => n \in region

ImportsPointInward == \A i \in imports : PointsInward(i[1], i[2])

LEMMA Confined ==
  ASSUME imports \subseteq project.modules \X Importable, ImportsPointInward,
         NEW region, Encloses(region), NEW p, NEW t,
         \A m \in Importable : Within(m, p) => m \in region,
         \A m \in region : ~Within(m, t)
  PROVE  \A m \in Reached(p) : ~Within(m, t)
<1> DEFINE graphed == {i \in imports : IsGraphed(i[1])}
           ends == {i[2] : i \in graphed}
           own == {m \in Importable : Within(m, p)}
           some == region \cap ends
<1>1. own \cup some \subseteq region
  OBVIOUS
<1>2. \A i \in graphed : i[1] \in own \cup some => i[2] \in some
  <2> SUFFICES ASSUME NEW i \in graphed, i[1] \in own \cup some
               PROVE  i[2] \in region
    OBVIOUS
  <2>1. i[1] \in project.modules /\ i[2] \in Importable
    OBVIOUS
  <2>2. PointsInward(i[1], i[2])
    BY DEF ImportsPointInward
  <2> QED
    BY <1>1, <2>1, <2>2 DEF Encloses
<1>3. some \in SUBSET ends
  OBVIOUS
<1>4. Reached(p) \subseteq own \cup some
  BY <1>2, <1>3 DEF Reached
<1> QED
  BY <1>1, <1>4

Outside == {n \in Importable : Outer(n)}
InContextOf(c) == Outside \cup {n \in Importable : n[1] = c}
InModuleOf(c, a) == Outside \cup {n \in Importable : Within(n, <<c, a>>)}
InReadOf(c) == Outside \cup {n \in Importable : Within(n, <<c, "read">>)}
InEntrypoints(c, p) ==
  Outside \cup {n \in Importable :
    \/ Within(n, p) \/ Within(n, <<c, "read">>)
    \/ \E a \in Modules(c) : Within(n, <<c, a, "domain">>) \/ Within(n, <<c, a, "application">>)}
InDomain(c, a) == {n \in Importable : Inner(n) \/ Within(n, <<c, a, "domain">>)}
InApplication(c, a) ==
  {n \in Importable : \/ Inner(n) \/ Within(n, <<c, a, "domain">>)
                      \/ Within(n, <<c, a, "application">>)}
InTypes == {n \in Importable : Within(n, CommonsTypes)}

\* What is common to all of them: where a module outside a context leads.
LEMMA OutsideEncloses ==
  ASSUME project \in Projects, NEW m \in project.modules, NEW n \in Importable,
         PointsInward(m, n), Outer(m)
  PROVE  m[1] = "commons" /\ FromCommons(m, n) /\ Outer(n)
<1>1. m[1] \notin Libraries
  BY Laid
<1>2. m[1] = "commons"
  BY <1>1 DEF Outer
<1>3. "commons" \notin Contexts
  BY ContextNames
<1>4. FromCommons(m, n)
  BY <1>2, <1>3, InwardFrom
<1>5. Within(n, CommonsTypes) => n[1] = "commons"
  BY Places DEF CommonsTypes
<1> QED
  BY <1>2, <1>4, <1>5 DEF FromCommons, Outer, Inner

LEMMA CommonsEnclosed ==
  ASSUME project \in Projects
  PROVE  Encloses(Outside)
  BY OutsideEncloses DEF Encloses, Outside

LEMMA InnerEncloses ==
  ASSUME project \in Projects, NEW m \in project.modules, NEW n \in Importable,
         PointsInward(m, n), Inner(m)
  PROVE  Inner(n)
<1>1. FromCommons(m, n)
  BY OutsideEncloses DEF Inner, Outer
<1>2. Within(n, CommonsTypes) => n[1] = "commons" /\ ~Within(n, CommonsAdapters)
  BY Places DEF CommonsTypes, CommonsAdapters
<1> QED
  BY <1>1, <1>2 DEF FromCommons, Inner

LEMMA TypesEnclosed ==
  ASSUME project \in Projects
  PROVE  Encloses(InTypes)
<1> SUFFICES ASSUME NEW m \in project.modules, NEW n \in Importable, PointsInward(m, n),
                    Within(m, CommonsTypes)
             PROVE  Within(n, CommonsTypes)
  BY DEF Encloses, InTypes
<1>1. m[1] = "commons" /\ ~Within(m, CommonsAdapters)
  BY Places, ModuleIsImportable DEF CommonsTypes, CommonsAdapters
<1> QED
  BY <1>1, OutsideEncloses DEF FromCommons, Outer

\* A module of a context, not of commons.
LEMMA FromContext ==
  ASSUME project \in Projects, NEW c \in Contexts, NEW m \in project.modules,
         NEW n \in Importable, PointsInward(m, n), m[1] = c
  PROVE  (\E a \in Modules(c) : FromLayer(c, a, m, n)) \/ FromReserved(c, m, n)
  BY ContextNames, InwardFrom

LEMMA ContextEnclosed ==
  ASSUME project \in Projects, NEW c \in Contexts
  PROVE  Encloses(InContextOf(c))
<1> SUFFICES ASSUME NEW m \in project.modules, NEW n \in Importable, PointsInward(m, n),
                    Outer(m) \/ m[1] = c
             PROVE  Outer(n) \/ n[1] = c
  BY DEF Encloses, InContextOf, Outside
<1>1. CASE m[1] = c
  <2>1. (\E a \in Modules(c) : FromLayer(c, a, m, n)) \/ FromReserved(c, m, n)
    BY <1>1, FromContext
  <2> QED
    BY <2>1, Places DEF FromLayer, FromReserved, Outer, Inner
<1> QED
  BY <1>1, OutsideEncloses

LEMMA ModuleEnclosed ==
  ASSUME project \in Projects, NEW c \in Contexts, NEW a \in Modules(c)
  PROVE  Encloses(InModuleOf(c, a))
<1> SUFFICES ASSUME NEW m \in project.modules, NEW n \in Importable, PointsInward(m, n),
                    Outer(m) \/ Within(m, <<c, a>>)
             PROVE  Outer(n) \/ Within(n, <<c, a>>)
  BY DEF Encloses, InModuleOf, Outside
<1>1. CASE Within(m, <<c, a>>)
  <2>1. m[1] = c /\ m[2] = a
    BY <1>1, Places, ModuleIsImportable
  <2>2. ~FromReserved(c, m, n)
    BY <2>1, ModuleNames, Places, ModuleIsImportable DEF FromReserved
  <2>3. PICK b \in Modules(c) : FromLayer(c, b, m, n)
    BY <2>1, <2>2, FromContext
  <2>4. b = a
    BY <2>1, <2>3, Places, ModuleIsImportable DEF FromLayer
  <2> QED
    BY <2>3, <2>4, Places DEF FromLayer, Outer, Inner
<1> QED
  BY <1>1, OutsideEncloses

LEMMA ReadEnclosed ==
  ASSUME project \in Projects, NEW c \in Contexts
  PROVE  Encloses(InReadOf(c))
<1> SUFFICES ASSUME NEW m \in project.modules, NEW n \in Importable, PointsInward(m, n),
                    Outer(m) \/ Within(m, <<c, "read">>)
             PROVE  Outer(n) \/ Within(n, <<c, "read">>)
  BY DEF Encloses, InReadOf, Outside
<1>1. CASE Within(m, <<c, "read">>)
  <2>1. m[1] = c /\ m[2] = "read"
    BY <1>1, Places, ModuleIsImportable
  <2>2. \A a \in Modules(c) : ~FromLayer(c, a, m, n)
    BY <2>1, ModuleNames, Places, ModuleIsImportable DEF FromLayer
  <2>3. FromReserved(c, m, n)
    BY <2>1, <2>2, FromContext
  <2>4. ~Within(m, <<c, "entrypoints">>)
    BY <2>1, Places, ModuleIsImportable
  <2> QED
    BY <2>3, <2>4 DEF FromReserved
<1> QED
  BY <1>1, OutsideEncloses

\* A module of the domain or the application of a module.
LEMMA FromTheLayer ==
  ASSUME project \in Projects, NEW c \in Contexts, NEW a \in Modules(c),
         NEW l \in {"domain", "application"}, NEW m \in project.modules,
         NEW n \in Importable, PointsInward(m, n), Within(m, <<c, a, l>>)
  PROVE  \/ Inner(n) \/ Within(n, <<c, a, "domain">>)
         \/ l = "application" /\ Within(n, <<c, a, "application">>)
<1>1. m[1] = c /\ m[2] = a /\ m[3] = l
  BY Places, ModuleIsImportable
<1>2. ~FromReserved(c, m, n)
  BY <1>1, ModuleNames, Places, ModuleIsImportable DEF FromReserved
<1>3. PICK b \in Modules(c) : FromLayer(c, b, m, n)
  BY <1>1, <1>2, FromContext
<1>4. b = a
  BY <1>1, <1>3, Places, ModuleIsImportable DEF FromLayer
<1>5. ~Within(m, <<c, a, "adapters">>)
  BY <1>1, Places, ModuleIsImportable
<1>6. l = "domain" => ~Within(m, <<c, a, "application">>)
  BY <1>1, Places, ModuleIsImportable
<1> QED
  BY <1>3, <1>4, <1>5, <1>6 DEF FromLayer

LEMMA DomainEnclosed ==
  ASSUME project \in Projects, NEW c \in Contexts, NEW a \in Modules(c)
  PROVE  Encloses(InDomain(c, a)) /\ Encloses(InApplication(c, a))
<1>1. ASSUME NEW m \in project.modules, NEW n \in Importable, PointsInward(m, n),
             Inner(m) \/ Within(m, <<c, a, "domain">>)
      PROVE  Inner(n) \/ Within(n, <<c, a, "domain">>)
  BY <1>1, FromTheLayer, InnerEncloses
<1>2. ASSUME NEW m \in project.modules, NEW n \in Importable, PointsInward(m, n),
             Within(m, <<c, a, "application">>)
      PROVE  Inner(n) \/ Within(n, <<c, a, "domain">>) \/ Within(n, <<c, a, "application">>)
  BY <1>2, FromTheLayer
<1>3. Encloses(InDomain(c, a))
  BY <1>1 DEF Encloses, InDomain
<1>4. Encloses(InApplication(c, a))
  BY <1>1, <1>2 DEF Encloses, InApplication
<1> QED
  BY <1>3, <1>4

LEMMA EntrypointsEnclosed ==
  ASSUME project \in Projects, NEW c \in Contexts, NEW p,
         \A m \in Importable : Within(m, p) => Within(m, <<c, "entrypoints">>)
  PROVE  Encloses(InEntrypoints(c, p))
<1> DEFINE Core(n) == \E a \in Modules(c) : \/ Within(n, <<c, a, "domain">>)
                                            \/ Within(n, <<c, a, "application">>)
<1> SUFFICES ASSUME NEW m \in project.modules, NEW n \in Importable, PointsInward(m, n),
                    Outer(m) \/ Within(m, p) \/ Within(m, <<c, "read">>) \/ Core(m)
             PROVE  Outer(n) \/ Within(n, p) \/ Within(n, <<c, "read">>) \/ Core(n)
  BY DEF Encloses, InEntrypoints, Outside
<1>1. CASE Within(m, p)
  <2>1. m[1] = c /\ m[2] = "entrypoints"
    BY <1>1, Places, ModuleIsImportable
  <2>2. \A a \in Modules(c) : ~FromLayer(c, a, m, n)
    BY <2>1, ModuleNames, Places, ModuleIsImportable DEF FromLayer
  <2>3. FromReserved(c, m, n)
    BY <2>1, <2>2, FromContext
  <2>4. ~Within(m, <<c, "read">>)
    BY <2>1, Places, ModuleIsImportable
  <2> QED
    BY <2>3, <2>4 DEF FromReserved
<1>2. CASE Within(m, <<c, "read">>)
  <2>1. m \in InReadOf(c)
    BY <1>2, ModuleIsImportable DEF InReadOf
  <2>2. n \in InReadOf(c)
    BY <2>1, ReadEnclosed DEF Encloses
  <2> QED
    BY <2>2 DEF InReadOf, Outside
<1>3. CASE Core(m)
  BY <1>3, FromTheLayer DEF Inner, Outer
<1> QED
  BY <1>1, <1>2, <1>3, OutsideEncloses

-----------------------------------------------------------------------------
(* No contract breaks *)

Inwards == imports \subseteq project.modules \X Importable /\ ImportsPointInward

\* No chain of imports leads from p into t.
KeptOut(p, t) == \A m \in Reached(p) : ~Within(m, t)

LEMMA ForbiddenHolds ==
  ASSUME NEW rules, NEW sources, NEW targets,
         \A s \in sources, t \in targets : ~Overlap(s, t) => KeptOut(s, t)
  PROVE  ~IsBroken(Forbidden(rules, sources, targets))
<1> DEFINE k == Forbidden(rules, sources, targets)
<1>1. \A pair \in k.apart : KeptOut(pair[1], pair[2])
  BY ForbiddenIs
<1> HIDE DEF k
<1>2. ~IsBroken(k)
  BY <1>1 DEF IsBroken, KeptOut
<1> QED
  BY <1>2 DEF k

LEMMA LayersHold ==
  ASSUME project \in Projects, Inwards, NEW c \in Contexts, NEW a \in Modules(c)
  PROVE  ~IsBroken(Layered(ModuleLayerRules, c, a))
<1> DEFINE domain == <<c, a, "domain">>
           application == <<c, a, "application">>
           adapters == <<c, a, "adapters">>
<1>1. c # "commons"
  BY ContextNames
<1>2. KeptOut(domain, application) /\ KeptOut(domain, adapters)
  <2>1. \A m \in InDomain(c, a) : ~Within(m, application) /\ ~Within(m, adapters)
    BY <1>1, Places DEF InDomain, Inner
  <2>2. \A m \in Importable : Within(m, domain) => m \in InDomain(c, a)
    BY DEF InDomain
  <2> QED
    BY <2>1, <2>2, DomainEnclosed, Confined DEF Inwards, KeptOut
<1>3. KeptOut(application, adapters)
  <2>1. \A m \in InApplication(c, a) : ~Within(m, adapters)
    BY <1>1, Places DEF InApplication, Inner
  <2>2. \A m \in Importable : Within(m, application) => m \in InApplication(c, a)
    BY DEF InApplication
  <2> QED
    BY <2>1, <2>2, DomainEnclosed, Confined DEF Inwards, KeptOut
<1> DEFINE k == Layered(ModuleLayerRules, c, a)
<1>4. k.apart = {<<domain, application>>, <<domain, adapters>>, <<application, adapters>>}
  BY DEF Layered
<1>5. \A pair \in k.apart : KeptOut(pair[1], pair[2])
  BY <1>2, <1>3, <1>4
<1> HIDE DEF k
<1>6. ~IsBroken(k)
  BY <1>5 DEF IsBroken, KeptOut
<1> QED
  BY <1>6 DEF k

LEMMA ApplicationKept ==
  ASSUME project \in Projects, Inwards, NEW c \in Contexts, NEW s \in Applications(c)
  PROVE  KeptOut(s, <<c, "entrypoints">>)
<1>1. PICK a \in Modules(c) : s = <<c, a, "application">>
  <2>1. PICK ls : ls = {"application"}
    OBVIOUS
  <2>2. s \in LayerDirs(c, ls)
    BY <2>1 DEF Applications
  <2> QED
    BY <2>1, <2>2, LayerDirsAre
<1>2. \A m \in InApplication(c, a) : ~Within(m, <<c, "entrypoints">>)
  <2>1. c # "commons" /\ a # "entrypoints"
    BY ContextNames, ModuleNames
  <2> QED
    BY <2>1, Places DEF InApplication, Inner
<1>3. \A m \in Importable : Within(m, s) => m \in InApplication(c, a)
  BY <1>1 DEF InApplication
<1> QED
  BY <1>2, <1>3, DomainEnclosed, Confined DEF Inwards, KeptOut

\* No directory of a layer is outside its module.
LEMMA ModulesKept ==
  ASSUME project \in Projects, Inwards, NEW c \in Contexts, NEW a \in Modules(c),
         NEW t \in PrivateLayers(c), ~Overlap(<<c, a>>, t)
  PROVE  KeptOut(<<c, a>>, t)
<1>1. PICK b \in Modules(c), l \in {"application", "adapters"} : t = <<c, b, l>>
  <2>1. PICK ls : ls = {"application", "adapters"}
    OBVIOUS
  <2>2. t \in LayerDirs(c, ls)
    BY <2>1 DEF PrivateLayers
  <2> QED
    BY <2>1, <2>2, LayerDirsAre
<1>2. a # b
  <2> SUFFICES ASSUME a = b
               PROVE  Overlap(<<c, a>>, t)
    OBVIOUS
  <2>1. IsPath(t) /\ Len(t) = 3 /\ t[1] = c /\ t[2] = b
    BY <1>1, PathOfThree
  <2>2. Within(t, <<c, a>>)
    BY <2>1, WithinTwo
  <2> QED
    BY <2>2 DEF Overlap, Within
<1>3. \A m \in InModuleOf(c, a) : ~Within(m, t)
  <2> SUFFICES ASSUME NEW m \in InModuleOf(c, a), Within(m, t)
               PROVE  FALSE
    OBVIOUS
  <2>1. m \in Importable /\ (Outer(m) \/ Within(m, <<c, a>>))
    BY DEF InModuleOf, Outside
  <2>2. Len(m) >= 3 /\ m[1] = c /\ m[2] = b
    BY <1>1, <2>1, Places
  <2>3. m[1] # "commons"
    BY <2>2, ContextNames
  <2>4. m \in project.modules
    BY <2>1, <2>2, <2>3, Importables
  <2>5. m[1] \notin Libraries
    BY <2>4, Laid
  <2> QED
    BY <1>2, <2>1, <2>2, <2>3, <2>5, Places DEF Outer
<1>4. \A m \in Importable : Within(m, <<c, a>>) => m \in InModuleOf(c, a)
  BY DEF InModuleOf
<1> QED
  BY <1>3, <1>4, ModuleEnclosed, Confined DEF Inwards, KeptOut

LEMMA ContextIsInside ==
  ASSUME project \in Projects, NEW c \in Contexts
  PROVE  c # "commons" /\ c # "bootstrap" /\ c \notin Libraries
<1>1. PICK m \in Files : Within(m, <<c>>)
  BY ContextNames DEF IsDir, IsStrictPrefix, Within
<1>2. m[1] = c
  BY <1>1, Laid, WithinOne
<1> QED
  BY <1>2, Laid, ContextNames

LEMMA ReadKept ==
  ASSUME project \in Projects, Inwards, NEW c \in Contexts, NEW layers,
         NEW t \in LayerDirs(c, layers)
  PROVE  KeptOut(<<c, "read">>, t)
<1>1. PICK b \in Modules(c), l \in layers : t = <<c, b, l>>
  BY LayerDirsAre
<1>2. b # "read"
  BY ModuleNames
<1>3. \A m \in InReadOf(c) : ~Within(m, t)
  BY <1>1, <1>2, ContextIsInside, Places DEF InReadOf, Outside, Outer
<1>4. \A m \in Importable : Within(m, <<c, "read">>) => m \in InReadOf(c)
  BY DEF InReadOf
<1> QED
  BY <1>3, <1>4, ReadEnclosed, Confined DEF Inwards, KeptOut

LEMMA EntrypointsKept ==
  ASSUME project \in Projects, Inwards, NEW c \in Contexts, NEW t \in LayerDirs(c, {"adapters"})
  PROVE  KeptOut(<<c, "entrypoints">>, t)
<1>1. PICK b \in Modules(c) : t = <<c, b, "adapters">>
  <2>1. PICK ls : ls = {"adapters"}
    OBVIOUS
  <2>2. t \in LayerDirs(c, ls)
    BY <2>1
  <2> QED
    BY <2>1, <2>2, LayerDirsAre
<1>2. b # "read" /\ b # "entrypoints"
  BY ModuleNames
<1> DEFINE p == <<c, "entrypoints">>
<1>3. \A m \in InEntrypoints(c, p) : ~Within(m, t)
  <2> SUFFICES ASSUME NEW m \in InEntrypoints(c, p), Within(m, t)
               PROVE  FALSE
    OBVIOUS
  <2>1. m \in Importable
    BY DEF InEntrypoints, Outside
  <2>2. m[1] = c /\ m[2] = b /\ m[3] = "adapters"
    BY <1>1, <2>1, Places
  <2>3. ~Outer(m) /\ ~Within(m, p) /\ ~Within(m, <<c, "read">>)
    BY <1>2, <2>1, <2>2, ContextIsInside, Places DEF Outer
  <2>4. \A a : ~Within(m, <<c, a, "domain">>) /\ ~Within(m, <<c, a, "application">>)
    BY <2>1, <2>2, Places
  <2> QED
    BY <2>3, <2>4 DEF InEntrypoints, Outside
<1>4. \A m \in Importable : Within(m, p) => m \in InEntrypoints(c, p)
  BY DEF InEntrypoints
<1>5. Encloses(InEntrypoints(c, p))
  BY EntrypointsEnclosed
<1> QED
  BY <1>3, <1>4, <1>5, Confined DEF Inwards, KeptOut

LEMMA SiblingsKept ==
  ASSUME project \in Projects, Inwards, NEW c \in Contexts,
         NEW s \in Siblings(c), NEW t \in Siblings(c), ~Overlap(s, t)
  PROVE  KeptOut(s, t)
<1>1. ASSUME NEW x \in Siblings(c), NEW m \in Importable, Within(m, x)
      PROVE  m = x /\ m[1] = c /\ m[2] = "entrypoints"
  <2>1. x \in project.modules /\ Within(x, <<c, "entrypoints">>)
    BY DEF Siblings, EntrypointModules, IsStrictPrefix, Within
  <2>2. x[1] = c /\ x[2] = "entrypoints" /\ Len(x) >= 2
    BY <2>1, ModuleIsImportable, Places
  <2>3. IsPath(x) /\ IsPath(m)
    BY <2>1, Laid, Importables
  <2>4. 1 \in 1 .. Len(x) /\ Len(x) <= Len(m) /\ Len(x) \in Nat /\ Len(m) \in Nat
    BY <1>1, <2>2, <2>3, PathsCompare, PathLen DEF Within
  <2>5. m[1] = c
    BY <1>1, <2>2, <2>3, <2>4, PathsCompare DEF Within
  <2>6. m \in project.modules
    BY <2>2, <2>4, <2>5, ContextIsInside, Importables
  <2>7. m = x
    BY <1>1, <2>1, <2>6, Laid DEF Within, IsStrictPrefix
  <2> QED
    BY <2>2, <2>7
<1>2. s # t
  <2>1. IsPath(s)
    BY Laid DEF Siblings, EntrypointModules
  <2>2. IsPrefix(s, s)
    BY <2>1, PathsCompare, PathLen
  <2> QED
    BY <2>2 DEF Overlap
<1>3. \A m \in Importable : Within(m, s) => Within(m, <<c, "entrypoints">>)
  <2> SUFFICES ASSUME NEW m \in Importable, Within(m, s)
               PROVE  Within(m, <<c, "entrypoints">>)
    OBVIOUS
  <2>1. m = s
    BY <1>1
  <2> QED
    BY <2>1 DEF Siblings, EntrypointModules, IsStrictPrefix, Within
<1>4. \A m \in InEntrypoints(c, s) : ~Within(m, t)
  <2> SUFFICES ASSUME NEW m \in InEntrypoints(c, s), Within(m, t)
               PROVE  FALSE
    OBVIOUS
  <2>1. m \in Importable
    BY DEF InEntrypoints, Outside
  <2>2. m = t /\ m[1] = c /\ m[2] = "entrypoints"
    BY <1>1, <2>1
  <2>3. ~Within(m, s)
    BY <1>1, <1>2, <2>1, <2>2
  <2>4. ~Within(m, <<c, "read">>) /\ ~Outer(m)
    BY <2>1, <2>2, ContextIsInside, Places DEF Outer
  <2>5. ASSUME NEW a \in Modules(c)
        PROVE  ~Within(m, <<c, a, "domain">>) /\ ~Within(m, <<c, a, "application">>)
    <3>1. a # "entrypoints"
      BY ModuleNames
    <3> QED
      BY <2>1, <2>2, <3>1, Places
  <2> QED
    BY <2>3, <2>4, <2>5 DEF InEntrypoints, Outside
<1>5. \A m \in Importable : Within(m, s) => m \in InEntrypoints(c, s)
  BY DEF InEntrypoints
<1>6. Encloses(InEntrypoints(c, s))
  BY <1>3, EntrypointsEnclosed
<1> QED
  BY <1>4, <1>5, <1>6, Confined DEF Inwards, KeptOut

LEMMA ContextsKept ==
  ASSUME project \in Projects, Inwards, NEW c \in Contexts, NEW d, d # c,
         d \in Contexts \cup {"bootstrap"}
  PROVE  KeptOut(<<c>>, <<d>>)
<1>1. d # "commons" /\ d \notin Libraries
  BY ContextIsInside, ContractsAssumption
<1>2. \A m \in InContextOf(c) : ~Within(m, <<d>>)
  BY <1>1, Places DEF InContextOf, Outside, Outer
<1>3. \A m \in Importable : Within(m, <<c>>) => m \in InContextOf(c)
  BY Places DEF InContextOf
<1> QED
  BY <1>2, <1>3, ContextEnclosed, Confined DEF Inwards, KeptOut

LEMMA CommonsKept ==
  ASSUME project \in Projects, Inwards, NEW c \in Contexts
  PROVE  KeptOut(<<"commons">>, <<c>>)
<1>1. \A m \in Outside : ~Within(m, <<c>>)
  BY ContextIsInside, Places DEF Outside, Outer
<1>2. \A m \in Importable : Within(m, <<"commons">>) => m \in Outside
  BY Places DEF Outside, Outer
<1> QED
  BY <1>1, <1>2, CommonsEnclosed, Confined DEF Inwards, KeptOut

\* From commons.types to a context, a framework, or a portion of commons.
LEMMA TypesKept ==
  ASSUME project \in Projects, Inwards, NEW t,
         \/ \E x \in Contexts \cup FrameworkModules : t = <<x>>
         \/ t \in ProjectCommonsModules
  PROVE  KeptOut(<<"commons", "types">>, t)
<1>1. \A m \in InTypes : ~Within(m, t)
  <2> SUFFICES ASSUME NEW m \in InTypes, Within(m, t)
               PROVE  FALSE
    OBVIOUS
  <2>1. m \in Importable /\ m[1] = "commons" /\ m[2] = "types"
    BY Places DEF InTypes, CommonsTypes
  <2>2. CASE \E x \in Contexts \cup FrameworkModules : t = <<x>>
    BY <2>1, <2>2, Places, ContextIsInside DEF FrameworkModules
  <2>3. CASE t \in ProjectCommonsModules
    <3>1. PICK x : t = <<"commons", x>> /\ x # "types"
      BY <2>3, PortionsAre
    <3> QED
      BY <2>1, <3>1, Places
  <2> QED
    BY <2>2, <2>3
<1>2. \A m \in Importable : Within(m, <<"commons", "types">>) => m \in InTypes
  BY DEF InTypes, CommonsTypes
<1> QED
  BY <1>1, <1>2, TypesEnclosed, Confined DEF Inwards, KeptOut

LEMMA CoreKept ==
  ASSUME project \in Projects, Inwards, NEW s \in DomainApplicationModules
  PROVE  KeptOut(s, CommonsAdapters)
<1>0. PICK c \in Contexts : s \in LayerDirs(c, {"domain", "application"})
  BY DEF DomainApplicationModules
<1>1. PICK a \in Modules(c), l \in {"domain", "application"} : s = <<c, a, l>>
  <2>1. PICK ls : ls = {"domain", "application"}
    OBVIOUS
  <2>2. s \in LayerDirs(c, ls)
    BY <1>0, <2>1
  <2> QED
    BY <2>1, <2>2, LayerDirsAre
<1>2. \A m \in InApplication(c, a) : ~Within(m, CommonsAdapters)
  BY ContextIsInside, Places DEF InApplication, Inner, CommonsAdapters
<1>3. \A m \in Importable : Within(m, s) => m \in InApplication(c, a)
  BY <1>1 DEF InApplication
<1> QED
  BY <1>2, <1>3, DomainEnclosed, Confined DEF Inwards, KeptOut

LEMMA ContextContractsHold ==
  ASSUME project \in Projects, Inwards, NEW c \in Contexts, NEW k,
         k \in ModuleContracts(c) \/ k \in EntrypointContracts(c)
  PROVE  ~IsBroken(k)
<1>1. CASE \E a \in Modules(c) : k = Layered(ModuleLayerRules, c, a)
  BY <1>1, LayersHold
<1>2. CASE k = Forbidden({"ARCH-006"}, Applications(c), {<<c, "entrypoints">>})
  <2>1. PICK ts : ts = {<<c, "entrypoints">>}
    OBVIOUS
  <2>2. \A s \in Applications(c), t \in ts : KeptOut(s, t)
    BY <2>1, ApplicationKept
  <2> QED
    BY <1>2, <2>1, <2>2, ForbiddenHolds
<1>3. CASE k = Forbidden({"ARCH-046"}, {<<c, a>> : a \in Modules(c)}, PrivateLayers(c))
  <2>1. PICK ss : ss = {<<c, a>> : a \in Modules(c)}
    OBVIOUS
  <2>2. \A s \in ss, t \in PrivateLayers(c) : ~Overlap(s, t) => KeptOut(s, t)
    BY <2>1, ModulesKept
  <2> QED
    BY <1>3, <2>1, <2>2, ForbiddenHolds
<1>4. CASE k = Forbidden({"ARCH-052"}, {<<c, "read">>}, LayerDirs(c, {"domain", "application"}))
  <2>1. PICK ts : ts = LayerDirs(c, {"domain", "application"})
    OBVIOUS
  <2>2. PICK ss : ss = {<<c, "read">>}
    OBVIOUS
  <2>3. \A s \in ss, t \in ts : KeptOut(s, t)
    BY <2>1, <2>2, ReadKept
  <2> QED
    BY <1>4, <2>1, <2>2, <2>3, ForbiddenHolds
<1>5. CASE k = Forbidden({"ARCH-009"}, {<<c, "entrypoints">>}, LayerDirs(c, {"adapters"}))
  <2>1. PICK ts : ts = LayerDirs(c, {"adapters"})
    OBVIOUS
  <2>2. PICK ss : ss = {<<c, "entrypoints">>}
    OBVIOUS
  <2>3. \A s \in ss, t \in ts : KeptOut(s, t)
    BY <2>1, <2>2, EntrypointsKept
  <2> QED
    BY <1>5, <2>1, <2>2, <2>3, ForbiddenHolds
<1>6. CASE k = Forbidden({"ARCH-011"}, Siblings(c), Siblings(c))
  BY <1>6, SiblingsKept, ForbiddenHolds
<1> QED
  BY <1>1, <1>2, <1>3, <1>4, <1>5, <1>6, ContextContractsAre

LEMMA CommonsContractsHold ==
  ASSUME project \in Projects, Inwards, NEW k \in CommonsContracts
  PROVE  ~IsBroken(k)
<1>1. CASE k = Forbidden({"ARCH-014"}, {<<"commons">>}, ContextPackages)
  <2>1. PICK ss : ss = {<<"commons">>}
    OBVIOUS
  <2>2. \A s \in ss, t \in ContextPackages : KeptOut(s, t)
    BY <2>1, CommonsKept DEF ContextPackages
  <2> QED
    BY <1>1, <2>1, <2>2, ForbiddenHolds
<1>2. CASE k = Forbidden({"ARCH-015"}, Types, ContextPackages \cup ProjectCommonsModules)
  <2>1. \A s \in Types, t \in ContextPackages \cup ProjectCommonsModules : KeptOut(s, t)
    BY TypesKept DEF Types, ContextPackages
  <2> QED
    BY <1>2, <2>1, ForbiddenHolds
<1>3. CASE k = Forbidden({"ARCH-035"}, Types, {<<f>> : f \in FrameworkModules})
  <2>1. PICK ts : ts = {<<f>> : f \in FrameworkModules}
    OBVIOUS
  <2>2. \A s \in Types, t \in ts : KeptOut(s, t)
    BY <2>1, TypesKept DEF Types
  <2> QED
    BY <1>3, <2>1, <2>2, ForbiddenHolds
<1>4. CASE k = Forbidden({"ARCH-034"}, DomainApplicationModules, {<<"commons", "adapters">>})
  <2>1. PICK ts : ts = {<<"commons", "adapters">>}
    OBVIOUS
  <2>2. \A s \in DomainApplicationModules, t \in ts : KeptOut(s, t)
    BY <2>1, CoreKept DEF CommonsAdapters
  <2> QED
    BY <1>4, <2>1, <2>2, ForbiddenHolds
<1> QED
  BY <1>1, <1>2, <1>3, <1>4, CommonsContractsAre

LEMMA NoneBreaks ==
  ASSUME project \in Projects, Inwards, NEW k \in BuildContracts
  PROVE  ~IsBroken(k)
<1>1. CASE k = Independent({"ARCH-012", "ARCH-013", "ARCH-025"}, ContextPackages)
  <2>1. k.apart = {pair \in ContextPackages \X ContextPackages : pair[1] # pair[2]}
    BY <1>1, ForbiddenIs
  <2>2. ASSUME NEW pair \in k.apart
        PROVE  KeptOut(pair[1], pair[2])
    <3>1. pair[1] \in ContextPackages /\ pair[2] \in ContextPackages /\ pair[1] # pair[2]
      BY <2>1
    <3>2. PICK c \in Contexts : pair[1] = <<c>>
      BY <3>1 DEF ContextPackages
    <3>3. PICK d \in Contexts : pair[2] = <<d>>
      BY <3>1 DEF ContextPackages
    <3> QED
      BY <3>1, <3>2, <3>3, ContextsKept
  <2> QED
    BY <2>2 DEF IsBroken, KeptOut
<1>2. CASE k = Forbidden({"ARCH-017"}, ContextPackages, {<<"bootstrap">>})
  <2>1. PICK ts : ts = {<<"bootstrap">>}
    OBVIOUS
  <2>2. \A s \in ContextPackages, t \in ts : KeptOut(s, t)
    BY <2>1, ContextsKept, ContextIsInside DEF ContextPackages
  <2> QED
    BY <1>2, <2>1, <2>2, ForbiddenHolds
<1> QED
  BY <1>1, <1>2, ContractCases, OtherContractsAre, ContextContractsHold, CommonsContractsHold

LEMMA RunIsKind ==
  ASSUME project \in Projects, IsScannable, NoneIsBare, Inwards, NEW rule \in RuleIds
  PROVE  Run[rule] \in {"PASS", "SKIP"}
<1>1. BuildContracts # {}
  BY ProjectContractsAre
<1>2. ~IsError(BuildContracts)
  BY <1>1, SourcesExist DEF IsError
<1> DEFINE broken == RulesOf({contract \in BuildContracts : IsBroken(contract)})
<1>3. broken = {}
  BY NoneBreaks DEF RulesOf
<1>4. ContractReports(BuildContracts)[rule] \in {"PASS", "SKIP"}
  BY <1>3 DEF ContractReports
<1> QED
  BY <1>2, <1>4 DEF Run

-----------------------------------------------------------------------------
(* What the properties speak of depends on the project alone *)

LEMMA Same ==
  ASSUME project' = project
  PROVE  /\ Importable' = Importable
         /\ \A rule, m, n : Forbids(rule, m, n)' <=> Forbids(rule, m, n)
         /\ \A m, n : ForbiddenImport(m, n)' <=> ForbiddenImport(m, n)
         /\ \A m, n : PointsInward(m, n)' <=> PointsInward(m, n)
         /\ NoneIsBare' <=> NoneIsBare
<1>0. Files' = Files
  BY DEF Files
<1>1. \A d : IsDir(d)' <=> IsDir(d)
  BY <1>0 DEF IsDir
<1>2. \A d : Subdirs(d)' = Subdirs(d)
  BY <1>0 DEF Subdirs
<1>3. \A d : HasModuleLayer(d)' <=> HasModuleLayer(d)
  BY <1>1 DEF HasModuleLayer
<1>4. Contexts' = Contexts
  BY <1>1, <1>2, <1>3 DEF Contexts
<1>5. \A c : Modules(c)' = Modules(c)
  BY <1>2, <1>3 DEF Modules
<1>6. \A c, layers : LayerDirs(c, layers)' = LayerDirs(c, layers)
  BY <1>1, <1>5 DEF LayerDirs
<1>7. \A m, c, layers : InLayer(m, c, layers)' <=> InLayer(m, c, layers)
  BY <1>6 DEF InLayer
<1>8. \A m : InContext(m)' <=> InContext(m)
  BY <1>4 DEF InContext
<1>9. ProjectCommonsModules' = ProjectCommonsModules
  BY <1>0 DEF ProjectCommonsModules
<1>10. Importable' = Importable
  BY DEF Importable
<1>11. ASSUME NEW rule, NEW m, NEW n
       PROVE  Forbids(rule, m, n)' <=> Forbids(rule, m, n)
  <2>1. CASE rule = "ARCH-001"
    BY <1>4, <1>7, <2>1 DEF Forbids
  <2>2. CASE rule = "ARCH-002"
    BY <1>4, <1>7, <2>2 DEF Forbids
  <2>3. CASE rule = "ARCH-005"
    BY <1>4, <1>7, <2>3 DEF Forbids
  <2>4. CASE rule = "ARCH-006"
    BY <1>4, <1>7, <2>4 DEF Forbids
  <2>5. CASE rule = "ARCH-009"
    BY <1>4, <1>7, <2>5 DEF Forbids
  <2>6. CASE rule = "ARCH-011"
    BY <1>4, <1>7, <2>6 DEF Forbids
  <2>7. CASE rule = "ARCH-014"
    BY <1>8, <2>7 DEF Forbids
  <2>8. CASE rule = "ARCH-015"
    BY <1>8, <1>9, <2>8 DEF Forbids
  <2>9. CASE rule = "ARCH-017"
    BY <2>9 DEF Forbids
  <2>10. CASE rule = "ARCH-034"
    BY <1>4, <1>7, <2>10 DEF Forbids
  <2>11. CASE rule = "ARCH-035"
    BY <2>11 DEF Forbids
  <2>12. CASE rule = "ARCH-046"
    BY <1>4, <1>5, <1>7, <2>12 DEF Forbids
  <2>13. CASE rule = "ARCH-052"
    BY <1>4, <1>7, <2>13 DEF Forbids
  <2>14. CASE rule \in {"ARCH-012", "ARCH-025"}
    BY <1>4, <2>14 DEF Forbids
  <2>15. CASE rule \notin {"ARCH-001", "ARCH-002", "ARCH-005", "ARCH-006", "ARCH-009", "ARCH-011", "ARCH-014",
                         "ARCH-015", "ARCH-017", "ARCH-034", "ARCH-035", "ARCH-046", "ARCH-052", "ARCH-012", "ARCH-025"}
    BY <2>15 DEF Forbids
  <2> QED
    BY <2>1, <2>2, <2>3, <2>4, <2>5, <2>6, <2>7, <2>8, <2>9, <2>10, <2>11, <2>12, <2>13, <2>14, <2>15
<1>12. \A m, n : PointsInward(m, n)' <=> PointsInward(m, n)
  BY <1>4, <1>7 DEF PointsInward
<1>13. ASSUME NEW m, NEW n
       PROVE  ForbiddenImport(m, n)' <=> ForbiddenImport(m, n)
  <2>1. \A rule : IsOverlooked(rule, m, n)' <=> IsOverlooked(rule, m, n)
    BY <1>8 DEF IsOverlooked
  <2> QED
    BY <1>11, <2>1 DEF ForbiddenImport
<1>14. NoneIsBare' <=> NoneIsBare
  <2>1. NamedDirs' = NamedDirs
    BY <1>4, <1>6 DEF NamedDirs
  <2>2. \A d : IsPackage(d)' <=> IsPackage(d)
    BY <1>10 DEF IsPackage
  <2> QED
    BY <1>1, <2>1, <2>2 DEF NoneIsBare
<1> QED
  BY <1>10, <1>11, <1>12, <1>13, <1>14

-----------------------------------------------------------------------------
(* The invariant *)

\* No module imports itself, and reports are of a project with contexts.
IInv ==
  /\ TypeOK
  /\ \A i \in imports : i[1] # i[2]
  /\ IsFiniteSet(imports)
  /\ NoneSlipsThrough
  /\ SkipIsVacuous
  /\ InwardProjectPasses

\* What a run reports on the imports there are.
LEMMA RunIsSound ==
  ASSUME TypeOK, IsScannable, \A i \in imports : i[1] # i[2]
  PROVE  /\ (\E i \in imports : ForbiddenImport(i[1], i[2])) =>
              \E rule \in RuleIds : Run[rule] = "FAIL"
         /\ \A rule \in RuleIds : Run[rule] = "SKIP" =>
              \A m \in project.modules, n \in Importable :
                m # n /\ Forbids(rule, m, n) => IsBesideInit(rule, m, n)
         /\ NoneIsBare /\ ImportsPointInward => \A rule \in RuleIds : Run[rule] \in {"PASS", "SKIP"}
<1>1. project \in Projects /\ imports \subseteq project.modules \X Importable
  BY DEF TypeOK
<1>2. ASSUME NEW i \in imports, NEW rule \in RuleIds, Forbids(rule, i[1], i[2]),
             ~IsOverlooked(rule, i[1], i[2])
      PROVE  \E r \in RuleIds : Run[r] = "FAIL"
  <2>1. PICK m \in project.modules, n \in Importable : i = <<m, n>> /\ m = i[1] /\ n = i[2]
    BY <1>1
  <2>2. PICK r \in RuleIds \ {"ARCH-013"} : Bites(r, m, n)
    BY <1>1, <1>2, <2>1, ForbiddenBites
  <2>3. PICK k \in BuildContracts : r \in k.rules /\ KeepsApart(k, m, n)
    BY <2>2 DEF Bites
  <2>4. IsGraphed(m)
    BY <1>1, <1>2, <2>1, ForbiddenBites
  <2>5. IsBroken(k)
    BY <1>1, <2>1, <2>3, <2>4, ImportBreaks
  <2> QED
    BY <2>3, <2>5, RunFails
<1>3. ASSUME NEW rule \in RuleIds, Run[rule] = "SKIP", NEW m \in project.modules, NEW n \in Importable,
             m # n, Forbids(rule, m, n), ~IsBesideInit(rule, m, n)
      PROVE  FALSE
  BY <1>1, <1>3, ForbiddenIsWritten, RunSkips
<1>4. ASSUME NoneIsBare, ImportsPointInward
      PROVE  \A rule \in RuleIds : Run[rule] \in {"PASS", "SKIP"}
  BY <1>1, <1>4, RunIsKind DEF Inwards
<1> QED
  BY <1>2, <1>3, <1>4 DEF ForbiddenImport

LEMMA InitInv == ASSUME Init PROVE IInv
<1>1. project \in Projects /\ imports = {} /\ reports = NoReports
  BY DEF Init
<1>2. IsFiniteSet({}) /\ Cardinality({}) = 0
  BY FS_EmptySet
<1>3. project.maxImports \in Nat
  BY <1>1, ContractsAssumption
<1>4. Cardinality(imports) <= project.maxImports
  BY <1>1, <1>2, <1>3
<1> QED
  BY <1>1, <1>2, <1>4 DEF IInv, TypeOK, NoneSlipsThrough, SkipIsVacuous, InwardProjectPasses, IsChecked

LEMMA StepInv == ASSUME IInv, [Next]_vars PROVE IInv'
<1>1. project' = project
  BY DEF Next, AddImport, Check, vars
<1>2. CASE AddImport
  <2>1. PICK m \in project.modules, n \in Importable : m # n /\ imports' = imports \cup {<<m, n>>}
    BY <1>2 DEF AddImport
  <2>2. IsFiniteSet(imports') /\ Cardinality(imports') <= Cardinality(imports) + 1
    <3>1. IsFiniteSet(imports) /\ Cardinality(imports) \in Nat
      BY FS_CardinalityType DEF IInv
    <3>2. /\ IsFiniteSet(imports \cup {<<m, n>>})
          /\ Cardinality(imports \cup {<<m, n>>}) =
               IF <<m, n>> \in imports THEN Cardinality(imports) ELSE Cardinality(imports) + 1
      BY <3>1, FS_AddElement
    <3> QED
      BY <2>1, <3>1, <3>2
  <2>3. Cardinality(imports') <= project.maxImports
    BY <1>2, <2>2, ContractsAssumption, FS_CardinalityType DEF AddImport, IInv, TypeOK
  <2>4. reports' = NoReports
    BY <1>2 DEF AddImport
  <2>5. NoReports' = NoReports
    BY DEF NoReports
  <2>6. TypeOK'
    BY <1>1, <2>1, <2>3, <2>4, <2>5, Same DEF IInv, TypeOK
  <2> QED
    BY <2>1, <2>2, <2>4, <2>5, <2>6 DEF IInv, NoneSlipsThrough, SkipIsVacuous, InwardProjectPasses, IsChecked
<1>3. CASE Check
  <2>1. UNCHANGED <<project, imports>> /\ reports' = Run /\ IsScannable
    BY <1>3 DEF Check
  <2>2. TypeOK'
    BY <2>1, RunType, Same DEF IInv, TypeOK
  <2>3. NoneSlipsThrough' /\ SkipIsVacuous'
    BY <2>1, RunIsSound, Same DEF IInv, NoneSlipsThrough, SkipIsVacuous, ForbiddenImport
  <2>4. InwardProjectPasses'
    BY <2>1, RunIsSound, Same DEF IInv, InwardProjectPasses, ImportsPointInward
  <2> QED
    BY <2>1, <2>2, <2>3, <2>4 DEF IInv
<1>4. CASE UNCHANGED vars
  <2>1. UNCHANGED <<project, imports, reports>> /\ NoReports' = NoReports
    BY <1>4 DEF vars, NoReports
  <2>2. TypeOK'
    BY <2>1, Same DEF IInv, TypeOK
  <2>3. NoneSlipsThrough' /\ SkipIsVacuous'
    BY <2>1, Same DEF IInv, NoneSlipsThrough, SkipIsVacuous, ForbiddenImport, IsChecked
  <2>4. InwardProjectPasses'
    BY <2>1, Same DEF IInv, InwardProjectPasses, IsChecked
  <2> QED
    BY <2>1, <2>2, <2>3, <2>4 DEF IInv
<1> QED
  BY <1>2, <1>3, <1>4 DEF Next

LEMMA InvHolds == Spec => []IInv
  BY InitInv, StepInv, PTL DEF Spec

\* The imports stay within their bound, and a run reports on every rule of the
\* check (import_contracts.py).
THEOREM TypeCorrect == Spec => []TypeOK
<1>1. IInv => TypeOK
  BY DEF IInv
<1> QED
  BY <1>1, InvHolds, PTL

\* In every project, no forbidden import is let through (import_contracts.py
\* build_contracts).
THEOREM NothingSlips == Spec => []NoneSlipsThrough
<1>1. IInv => NoneSlipsThrough
  BY DEF IInv
<1> QED
  BY <1>1, InvHolds, PTL

\* In every project, a rule is skipped only where nothing could break it
\* (import_contracts.py, run).
THEOREM SkippedIsVacuous == Spec => []SkipIsVacuous
<1>1. IInv => SkipIsVacuous
  BY DEF IInv
<1> QED
  BY <1>1, InvHolds, PTL

\* In every project, imports that all point inward fail no rule
\* (import_contracts.py build_contracts, and run).
THEOREM InwardPasses == Spec => []InwardProjectPasses
<1>1. IInv => InwardProjectPasses
  BY DEF IInv
<1> QED
  BY <1>1, InvHolds, PTL
=============================================================================
