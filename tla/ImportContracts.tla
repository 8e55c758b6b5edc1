-------------------------- MODULE ImportContracts --------------------------
(***************************************************************************)
(* The contracts ImportContractsCheck has import-linter verify on a        *)
(* project (checks/import_contracts.py build_contracts), and the reports   *)
(* it makes of their outcomes, while a developer adds imports and runs the *)
(* check.                                                                  *)
(*                                                                         *)
(* A project is the set of its own modules, its other files, whether       *)
(* arch-commons is installed, and a bound on its imports. main.py, which   *)
(* no check looks at, is left out.                                         *)
(*                                                                         *)
(* import-linter is external: a contract is broken when a chain of imports *)
(* leads from one package to another that it keeps apart, and a source     *)
(* with no Python module ends the run with an error. It sees every Python  *)
(* module below a root: ARCH-055 asks for the __init__.py it may need.     *)
(***************************************************************************)
EXTENDS Naturals, Sequences, FiniteSets, SequencesExt

CONSTANTS
    Projects,       \* the projects looked at
    Hidden,         \* names that begin with a dot or an underscore
    Libraries       \* third-party libraries a project may import

\* What commons.types is checked not to import.
FrameworkModules == {"sqlalchemy", "fastapi", "pydantic"}

\* What arch-commons ships.
Shipped == {<<"commons", "types", "clock">>, <<"commons", "adapters", "outbox">>}

ASSUME ContractsAssumption ==
    /\ "__init__" \in Hidden
    /\ Libraries \cap {"commons", "bootstrap"} = {}
    /\ \A p \in Projects : p.installed \in BOOLEAN /\ p.maxImports \in Nat

\* A module goes by its dotted path, another file by its path: no file is within
\* another, and none within a directory named like a library. What the checks
\* know by name are directories: there is no entrypoints.py in a context, say.
\* Python imports nothing from __pycache__.
ASSUME LayoutAssumption ==
    \A p \in Projects :
        LET files == p.modules \cup p.others
        IN  /\ IsFiniteSet(files)
            /\ files \subseteq Seq(STRING) \ {<<>>}
            /\ \A f, g \in files : ~IsStrictPrefix(f, g)
            /\ \A f \in files :
                 /\ f[1] \notin Libraries
                 /\ f \notin {<<"commons">>, <<"commons", "types">>, <<"bootstrap">>}
                 /\ Len(f) = 2 => f[2] \notin {"entrypoints", "read"}
            /\ \A m \in p.modules : \A i \in DOMAIN m : m[i] # "__pycache__"

VARIABLES
    project,    \* its files, and whether arch-commons is installed
    imports,    \* pairs of a module and what it imports
    reports     \* of the rules, by the last run of the check; none since an edit

vars == <<project, imports, reports>>

-----------------------------------------------------------------------------
Files == project.modules \cup project.others

INSTANCE ProjectLayout WITH files <- Files

-----------------------------------------------------------------------------
(* Packages the contracts speak of *)

LayerDirs(c, layers) ==
    {d \in {<<c, m, layer>> : m \in Modules(c), layer \in layers} : IsDir(d)}

DomainApplicationModules ==
    UNION {LayerDirs(c, {"domain", "application"}) : c \in Contexts}

CommonsIsRoot == IsDir(<<"commons">>) \/ project.installed
CommonsTypesImportable == IsDir(<<"commons", "types">>) \/ project.installed

\* The project's own portions of commons: directories and modules.
ProjectCommonsModules ==
    {<<"commons", f[2]>> :
        f \in {g \in Files :
                 /\ IsStrictPrefix(<<"commons">>, g)
                 /\ g[2] \notin Hidden \cup {"types", "adapters"}
                 /\ g \in project.modules \/ Len(g) > 2}}

Roots ==
    {<<c>> : c \in Contexts}
    \cup (IF CommonsIsRoot THEN {<<"commons">>} ELSE {})
    \cup (IF IsDir(<<"bootstrap">>) THEN {<<"bootstrap">>} ELSE {})

EntrypointModules(c) == {m \in project.modules : IsStrictPrefix(<<c, "entrypoints">>, m)}

IsInit(m) == Last(m) = "__init__"

\* Mutant: only the files directly in entrypoints/.
TopSiblings(c) == {m \in EntrypointModules(c) : ~IsInit(m) /\ Len(m) = 3}

\* Every file under entrypoints/, however deep.
Siblings(c) == {m \in EntrypointModules(c) : ~IsInit(m)}

-----------------------------------------------------------------------------
(* Contracts: the rules named, the sources that must exist, and the pairs of *)
(* packages no chain of imports may lead between.                            *)

Overlap(p, q) == IsPrefix(p, q) \/ IsPrefix(q, p)

Forbidden(rules, sources, targets) ==
    [rules |-> rules, sources |-> sources,
     apart |-> {pair \in sources \X targets : ~Overlap(pair[1], pair[2])}]

\* An optional layer that is missing is no error.
Layered(rules, c, m) ==
    [rules |-> rules, sources |-> {},
     apart |-> {<<<<c, m, "domain">>, <<c, m, "application">>>>,
                <<<<c, m, "domain">>, <<c, m, "adapters">>>>,
                <<<<c, m, "application">>, <<c, m, "adapters">>>>}]

Independent(rules, packages) ==
    [rules |-> rules, sources |-> packages,
     apart |-> {pair \in packages \X packages : pair[1] # pair[2]}]

\* A contract that is only written when there is something to keep apart.
If(condition, contract) == IF condition THEN {contract} ELSE {}

ModuleLayerRules == {"ARCH-001", "ARCH-002", "ARCH-005", "ARCH-007", "ARCH-008"}

\* Mutant: application packages that are not there are named all the same.
EveryApplication(c) == {<<c, m, "application">> : m \in Modules(c)}

Applications(c) == LayerDirs(c, {"application"})

\* Mutant: sibling modules are kept from each other's application only.
ApplicationOnly(c) == LayerDirs(c, {"application"})

PrivateLayers(c) == LayerDirs(c, {"application", "adapters"})

ModuleContracts(c) ==
    {Layered(ModuleLayerRules, c, m) : m \in Modules(c)}
    \cup If(IsDir(<<c, "entrypoints">>) /\ Applications(c) # {},
            Forbidden({"ARCH-006"}, Applications(c), {<<c, "entrypoints">>}))
    \cup If(Cardinality(Modules(c)) > 1 /\ PrivateLayers(c) # {},
            Forbidden({"ARCH-046"}, {<<c, m>> : m \in Modules(c)}, PrivateLayers(c)))
    \cup If(IsDir(<<c, "read">>) /\ LayerDirs(c, {"domain", "application"}) # {},
            Forbidden({"ARCH-052"}, {<<c, "read">>},
                      LayerDirs(c, {"domain", "application"})))

EntrypointContracts(c) ==
    If(IsDir(<<c, "entrypoints">>) /\ LayerDirs(c, {"adapters"}) # {},
       Forbidden({"ARCH-009"}, {<<c, "entrypoints">>}, LayerDirs(c, {"adapters"})))
    \cup If(Cardinality(Siblings(c)) > 1,
            Forbidden({"ARCH-011"}, Siblings(c), Siblings(c)))

ContextPackages == {<<c>> : c \in Contexts}

IndependenceContracts ==
    If(IsScannable, Independent({"ARCH-012", "ARCH-013", "ARCH-025"}, ContextPackages))

BootstrapContracts ==
    If(IsDir(<<"bootstrap">>) /\ IsScannable,
       Forbidden({"ARCH-017"}, ContextPackages, {<<"bootstrap">>}))

CommonsContracts ==
    If(IsDir(<<"commons">>) /\ IsScannable,
       Forbidden({"ARCH-014"}, {<<"commons">>}, ContextPackages))
    \cup If(CommonsTypesImportable /\ IsScannable,
            Forbidden({"ARCH-015"}, {<<"commons", "types">>},
                      ContextPackages \cup ProjectCommonsModules))
    \cup If(DomainApplicationModules # {} /\ CommonsIsRoot,
            Forbidden({"ARCH-034"}, DomainApplicationModules, {<<"commons", "adapters">>}))
    \cup If(CommonsTypesImportable,
            Forbidden({"ARCH-035"}, {<<"commons", "types">>}, {<<f>> : f \in FrameworkModules}))

ContextContracts == UNION {ModuleContracts(c) \cup EntrypointContracts(c) : c \in Contexts}

BuildContracts ==
    ContextContracts \cup IndependenceContracts \cup BootstrapContracts \cup CommonsContracts

-----------------------------------------------------------------------------
(* import-linter *)

Importable ==
    project.modules
    \cup (IF project.installed THEN Shipped ELSE {})
    \cup {<<l>> : l \in Libraries}

\* The modules of the packages it was told of; others are leaves to it.
IsGraphed(m) == \E root \in Roots : Within(m, root)

\* What a package reaches by chains of imports: with a module, what it imports.
Reached(package) ==
    LET graphed == {i \in imports : IsGraphed(i[1])}
        ends == {i[2] : i \in graphed}
        own == {m \in Importable : Within(m, package)}
        IsClosed(some) == \A i \in graphed : i[1] \in own \cup some => i[2] \in some
    IN  own \cup {n \in ends : \A some \in SUBSET ends : IsClosed(some) => n \in some}

IsBroken(contract) ==
    \E pair \in contract.apart : \E m \in Reached(pair[1]) : Within(m, pair[2])

IsPackage(p) == \E m \in Importable : Within(m, p)

\* Nothing to verify, or a source that is not there: no verdict. (A root that is
\* not there is an error too: bootstrap alone may be one and no source, and no
\* property below tells the two apart.)
IsError(contracts) ==
    contracts = {} \/ \E contract \in contracts : \E s \in contract.sources : ~IsPackage(s)

-----------------------------------------------------------------------------
(* ImportContractsCheck.run *)

RuleIds ==
    ModuleLayerRules \cup
    {"ARCH-006", "ARCH-009", "ARCH-011", "ARCH-012", "ARCH-013", "ARCH-014",
     "ARCH-015", "ARCH-017", "ARCH-025", "ARCH-034", "ARCH-035", "ARCH-046",
     "ARCH-052"}

\* outcome_for, of the one SHOULD among them and of the others.
Violated(rule) == IF rule = "ARCH-013" THEN "WARN" ELSE "FAIL"

RulesOf(contracts) == UNION {contract.rules : contract \in contracts}

\* Mutant: rules without a contract have no row.
CoveredReports(contracts) ==
    LET broken == RulesOf({contract \in contracts : IsBroken(contract)})
    IN  [rule \in RulesOf(contracts) |-> IF rule \in broken THEN Violated(rule) ELSE "PASS"]

\* A rule is covered when import-linter reports on a contract that names it, and
\* broken when one of those contracts is.
ContractReports(contracts) ==
    LET covered == RulesOf(contracts)
        broken == RulesOf({contract \in contracts : IsBroken(contract)})
    IN  [rule \in RuleIds |-> IF rule \notin covered THEN "SKIP"
                              ELSE IF rule \in broken THEN Violated(rule) ELSE "PASS"]

Run ==
    LET contracts == BuildContracts
    IN  IF Roots = {} THEN [rule \in RuleIds |-> "SKIP"]
        ELSE IF IsError(contracts) THEN [rule \in RuleIds |-> "FAIL"]
        ELSE ContractReports(contracts)

NoReports == [rule \in {} |-> "SKIP"]

Init ==
    /\ project \in Projects
    /\ imports = {}
    /\ reports = NoReports

AddImport ==
    /\ Cardinality(imports) < project.maxImports
    /\ \E m \in project.modules, n \in Importable :
         /\ m # n
         /\ <<m, n>> \notin imports
         /\ imports' = imports \cup {<<m, n>>}
    /\ reports' = NoReports
    /\ UNCHANGED project

\* The command line runs the checks on a project that has a context.
Check ==
    /\ IsScannable
    /\ reports = NoReports
    /\ reports' = Run
    /\ UNCHANGED <<project, imports>>

Next == AddImport \/ Check

Spec == Init /\ [][Next]_vars

-----------------------------------------------------------------------------
(* What the rules say, from the catalog: dependencies.yaml, structure.yaml *)

InLayer(m, c, layers) == \E dir \in LayerDirs(c, layers) : Within(m, dir)

InContext(m) == \E c \in Contexts : Within(m, <<c>>)

CommonsTypes == <<"commons", "types">>
CommonsAdapters == <<"commons", "adapters">>

\* The rule's description forbids m to import n, modules both.
Forbids(rule, m, n) ==
    \/ /\ rule = "ARCH-002"
       /\ \E c \in Contexts : InLayer(m, c, {"domain"}) /\ InLayer(n, c, {"application"})
    \/ /\ rule = "ARCH-001"
       /\ \E c \in Contexts : InLayer(m, c, {"domain"}) /\ InLayer(n, c, {"adapters"})
    \/ /\ rule = "ARCH-005"
       /\ \E c \in Contexts : InLayer(m, c, {"application"}) /\ InLayer(n, c, {"adapters"})
    \/ /\ rule = "ARCH-006"
       /\ \E c \in Contexts : InLayer(m, c, {"application"}) /\ Within(n, <<c, "entrypoints">>)
    \/ /\ rule = "ARCH-009"
       /\ \E c \in Contexts : Within(m, <<c, "entrypoints">>) /\ InLayer(n, c, {"adapters"})
    \/ /\ rule = "ARCH-011"
       /\ \E c \in Contexts :
            Within(m, <<c, "entrypoints">>) /\ Within(n, <<c, "entrypoints">>)
    \/ /\ rule \in {"ARCH-012", "ARCH-025"}
       /\ \E c, d \in Contexts : c # d /\ Within(m, <<c>>) /\ Within(n, <<d>>)
    \/ /\ rule = "ARCH-014"
       /\ Within(m, <<"commons">>) /\ InContext(n)
    \/ /\ rule = "ARCH-015"
       /\ Within(m, CommonsTypes)
       /\ \/ InContext(n)
          \/ Within(n, CommonsAdapters)
          \/ \E p \in ProjectCommonsModules : Within(n, p)
    \/ /\ rule = "ARCH-017"
       /\ ~Within(m, <<"bootstrap">>) /\ Within(n, <<"bootstrap">>)
    \/ /\ rule = "ARCH-034"
       /\ \E c \in Contexts : InLayer(m, c, {"domain", "application"})
       /\ Within(n, CommonsAdapters)
    \/ /\ rule = "ARCH-035"
       /\ Within(m, CommonsTypes) /\ n[1] \in Libraries
    \/ /\ rule = "ARCH-046"
       /\ \E c \in Contexts : \E a, b \in Modules(c) :
            a # b /\ Within(m, <<c, a>>) /\ Within(n, <<c, b>>)
                  /\ InLayer(n, c, {"application", "adapters"})
    \/ /\ rule = "ARCH-052"
       /\ \E c \in Contexts : Within(m, <<c, "read">>) /\ InLayer(n, c, {"domain", "application"})

\* ARCH-011 leaves the __init__.py files of entrypoints packages out.
IsBesideInit(rule, m, n) == rule = "ARCH-011" /\ (IsInit(m) \/ IsInit(n))

\* What a rule forbids and its contract does not speak of: those imports, some of
\* what commons.types may not import, and bootstrap from outside a context.
IsOverlooked(rule, m, n) ==
    \/ IsBesideInit(rule, m, n)
    \/ rule = "ARCH-015" /\ Within(n, CommonsAdapters)
    \/ rule = "ARCH-017" /\ ~InContext(m)
    \/ rule = "ARCH-035" /\ n[1] \notin FrameworkModules

ForbiddenImport(m, n) ==
    \E rule \in RuleIds : Forbids(rule, m, n) /\ ~IsOverlooked(rule, m, n)

\* 01-philosophy.md, the Dependency Rule: "Source-code dependencies point
\* inward: entrypoints -> application -> domain, and adapters ->
\* domain/application"; 02-structure.md on read/ and 08-commons.md on commons.
PointsInward(m, n) ==
    LET c == m[1]
        In(package) == Within(n, package)
        commons == In(<<"commons">>) /\ ~In(CommonsAdapters)
        library == n[1] \in Libraries
    IN  \/ Within(m, <<"bootstrap">>)
        \/ /\ c \in Contexts
           /\ \/ /\ InLayer(m, c, {"domain"})
                 /\ commons \/ In(<<c, m[2], "domain">>)
              \/ /\ InLayer(m, c, {"application"})
                 /\ commons \/ In(<<c, m[2], "domain">>) \/ In(<<c, m[2], "application">>)
              \/ /\ InLayer(m, c, {"adapters"})
                 /\ In(<<"commons">>) \/ library \/ In(<<c, m[2]>>)
              \/ /\ Within(m, <<c, "read">>)
                 /\ In(<<"commons">>) \/ library \/ In(<<c, "read">>)
              \/ /\ Within(m, <<c, "entrypoints">>)
                 /\ \/ In(<<"commons">>) \/ library
                    \/ In(<<c, "read">>)
                    \/ InLayer(n, c, {"application", "domain"})
        \/ Within(m, CommonsAdapters) /\ (In(<<"commons">>) \/ library)
        \/ /\ Within(m, <<"commons">>)
           /\ ~Within(m, CommonsTypes) /\ ~Within(m, CommonsAdapters)
           /\ commons
        \/ Within(m, CommonsTypes) /\ In(CommonsTypes)

-----------------------------------------------------------------------------
(* Properties *)

IsChecked == reports # NoReports

\* Types; a run reports on every rule of the check.
TypeOK ==
    /\ project \in Projects
    /\ imports \subseteq project.modules \X Importable
    /\ Cardinality(imports) <= project.maxImports
    /\ reports = NoReports \/ reports \in [RuleIds -> {"PASS", "FAIL", "WARN", "SKIP"}]

\* One contract per rule, per context or per module, each under a condition of
\* its own: between them no import a rule's description forbids is let through,
\* but for those IsOverlooked names.
NoneSlipsThrough ==
    IsChecked /\ (\E i \in imports : ForbiddenImport(i[1], i[2])) =>
        \E rule \in RuleIds : reports[rule] = "FAIL"

\* import_contracts.py, run: "a rule whose contract was never emitted was never
\* actually evaluated. That is a different category from 'checked, no violation
\* found'". A rule is skipped only where no import could break it, but for
\* ARCH-011 and __init__.py files: the conditions under which contracts are
\* written miss no project. (What is skipped depends on the project alone: its
\* imports may be none.)
SkipIsVacuous ==
    IsChecked /\ imports = {} =>
        \A rule \in RuleIds : reports[rule] = "SKIP" =>
            \A m \in project.modules, n \in Importable :
                m # n /\ Forbids(rule, m, n) => IsBesideInit(rule, m, n)

\* The directories the contracts look for by name.
NamedDirs ==
    {<<c>> : c \in Contexts} \cup {<<c, d>> : c \in Contexts, d \in Reserved}
    \cup {<<"commons">>, CommonsTypes, <<"bootstrap">>}
    \cup UNION {LayerDirs(c, Layers) : c \in Contexts}

\* Each of those that is there has a Python module. read/ with nothing but .sql
\* files is a directory to the checks and no package to import-linter: every rule
\* is failed, whatever the imports.
NoneIsBare == \A dir \in NamedDirs : IsDir(dir) => IsPackage(dir)

\* import-linter follows chains of imports, through any package. A project whose
\* imports all point inward is not failed, neither for a chain nor, unless one of
\* its directories is bare, for a package a contract names and it has not.
InwardProjectPasses ==
    IsChecked /\ NoneIsBare /\ (\A i \in imports : PointsInward(i[1], i[2])) =>
        \A rule \in RuleIds : reports[rule] \in {"PASS", "SKIP"}
=============================================================================
