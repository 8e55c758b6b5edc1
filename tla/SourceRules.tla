---------------------------- MODULE SourceRules ----------------------------
(***************************************************************************)
(* The findings of BannedSymbolsCheck (checks/banned_symbols.py),          *)
(* StructureCheck (checks/structure.py) and AstRulesCheck                  *)
(* (checks/ast_rules.py) on a project: which rule looks at which files.    *)
(*                                                                         *)
(* A file is what the checks read of it: its path below src or tests; the  *)
(* rules a line of it would break where the rule applies, and whether it   *)
(* has a class named *Service or *Repository or one that assigns to self;  *)
(* its classes, named in snake case; the elements of the collections that  *)
(* query methods of its repositories return; its calls of commit(); the    *)
(* modules it imports. No directory of the project has a name in           *)
(* _SKIP_DIRS or one that begins with a dot or an underscore, and each     *)
(* holds a Python file.                                                    *)
(***************************************************************************)
EXTENDS Naturals, Sequences, FiniteSets, SequencesExt

CONSTANT Names   \* what with statements bind and commit() is called on

VARIABLES
    sources,    \* the files under src
    tests       \* the files under tests

Paths == {f.path : f \in sources}

INSTANCE ProjectLayout WITH files <- Paths, Hidden <- {}

IterModules == UNION {{<<c, m>> : m \in Modules(c)} : c \in Contexts}

Stem(f) == Last(f.path)

\* iter_python_files, and the files directly in a directory.
Under(dir) == {f \in sources : IsStrictPrefix(dir, f.path)}
DirectlyIn(dir) == {f \in sources : Front(f.path) = dir}

CommonsDir == <<"commons">>
CommonsAdapters == <<"commons", "adapters">>
DomainDir(m) == m \o <<"domain">>
ModelDir(m) == m \o <<"domain", "model">>
ModelFile(m, stem) == {f \in sources : f.path = Append(ModelDir(m), stem)}

ReservedModelFiles ==
    {"__init__", "value_objects", "events", "ports", "exceptions", "projections"}

\* Mutant: files under another name are not looked at.
OnlyAggregatePy(m) == {f \in DirectlyIn(ModelDir(m)) : Stem(f) = "aggregate"}

AggregateFiles(m) == {f \in DirectlyIn(ModelDir(m)) : Stem(f) \notin ReservedModelFiles}

ApplicationFiles(m) == Under(Append(m, "application"))

\* Held to the discipline of the domain.
CommonsFiles == Under(CommonsDir) \ Under(CommonsAdapters)

-----------------------------------------------------------------------------
(* What a line of a file breaks *)

Marked(rules, files) == UNION {{<<r, f.path>> : r \in rules \cap f.marks} : f \in files}

\* Of the domain, and of the core: the domain and the application.
BannedSymbols(domain, application) ==
    Marked({"ARCH-003", "ARCH-004", "ARCH-028"}, domain)
    \cup Marked({"ARCH-053"}, domain \cup application)

DomainEvents(m) == Marked({"ARCH-023"}, ModelFile(m, "events"))

ValueObjects(m) == Marked({"ARCH-031"}, ModelFile(m, "value_objects"))

AggregateEncapsulation(m) == Marked({"ARCH-018", "ARCH-019"}, AggregateFiles(m))

ServiceSize(m) == Marked({"ARCH-030"}, ApplicationFiles(m))

PromotionThresholds(m) ==
    Marked({"ARCH-041"}, AggregateFiles(m) \cup ModelFile(m, "ports"))

-----------------------------------------------------------------------------
(* Where a commit() is: the functions and the with statements around it,   *)
(* the outermost first. A frame is a "def"; a "with", in its body, and     *)
(* what that opens there; or "other", the items of a with among them.      *)

Frame == [kind : {"def", "with", "other"}, opens : SUBSET Names]
Commit == [chain : Seq(Frame), receiver : Names]

HasCommits(f) == "commits" \in DOMAIN f /\ f.commits \subseteq Commit

\* The module and every function are scanned, each from an empty set of bindings.
Starts(chain) == {0} \cup {i \in DOMAIN chain : chain[i].kind = "def"}

\* Mutant: a scan goes on into the functions it meets.
ReachedThrough(start, chain) == start <= Len(chain)

\* A scan ends at a function, which is a start of its own.
ReachedFrom(start, chain) ==
    \A i \in DOMAIN chain : i > start => chain[i].kind # "def"

OpenFrom(start, chain) ==
    UNION {chain[i].opens : i \in {j \in DOMAIN chain : j > start /\ chain[j].kind = "with"}}

\* The scans that report the commit.
ScansThatReport(commit) ==
    {start \in Starts(commit.chain) :
        /\ ReachedFrom(start, commit.chain)
        /\ commit.receiver \notin OpenFrom(start, commit.chain)}

UnitOfWorkCommit(m) ==
    {<<"ARCH-033", f.path>> :
        f \in {g \in ApplicationFiles(m) : \E c \in g.commits : ScansThatReport(c) # {}}}

-----------------------------------------------------------------------------
(* Where files and directories are *)

CommonsIsLimited ==
    {<<"ARCH-047", f.path>> :
        f \in {g \in CommonsFiles :
                 \/ "mutates" \in g.marks
                 \/ "service" \in g.marks /\ g.path # Append(CommonsDir, "services")}}

NoContextApplication ==
    {<<"ARCH-048", d>> : d \in {e \in {<<c, "application">> : c \in Contexts} : IsDir(e)}}

\* Mutant: every module is found fault with.
EveryInfrastructure(m) == {<<"ARCH-048", Append(m, "infrastructure")>>}

NoLegacyAdaptersLayer(m) ==
    {<<"ARCH-048", d>> : d \in {e \in {Append(m, "infrastructure")} : IsDir(e)}}

OneAggregatePerModule(m) ==
    IF {Stem(f) : f \in AggregateFiles(m)} = {"aggregate"} THEN {}
    ELSE {<<"ARCH-049", ModelDir(m)>>}

\* No name is the only one when the files declare several classes, or none.
NoName == "no name"

\* The one class the aggregate files of a module declare.
AggregateClassName(m) ==
    LET classes == UNION {{f} \X f.classes : f \in AggregateFiles(m)}
    IN  IF Cardinality(classes) = 1 THEN (CHOOSE c \in classes : TRUE)[2] ELSE NoName

RepositoriesAreNotQueries(m) ==
    {<<"ARCH-051", f.path>> :
        f \in {g \in ModelFile(m, "ports") :
                 \E element \in g.queries : element # AggregateClassName(m)}}

Services(m) == {f \in DirectlyIn(Append(DomainDir(m), "services")) : Stem(f) # "__init__"}

\* Mutant: the file is to have the name of the module.
NamedAfterModule(m) ==
    LET services == Append(DomainDir(m), "services")
    IN  IF services \in Paths THEN {<<"ARCH-054", services>>}
        ELSE {<<"ARCH-054", f.path>> :
                f \in {g \in Services(m) : Cardinality(Services(m)) = 1 /\ Stem(g) # m[2]}}

\* domain/services.py, or the only domain service not named after the aggregate.
DomainServicesLocation(m) ==
    LET services == Append(DomainDir(m), "services")
        name == AggregateClassName(m)
    IN  IF services \in Paths THEN {<<"ARCH-054", services>>}
        ELSE {<<"ARCH-054", f.path>> :
                f \in {g \in Services(m) :
                         Cardinality(Services(m)) = 1 /\ name \notin {NoName, Stem(g)}}}

\* Namespaces, which the project shares with the package arch-commons.
Portions == {CommonsDir, CommonsAdapters}

InitFilesOfPortions == {Append(d, "__init__") : d \in Portions} \cap Paths

PackagesWithoutInit ==
    LET paths == Paths
        packages == UNION {{SubSeq(p, 1, n) : n \in 1 .. Len(p) - 1} : p \in paths}
    IN  {d \in packages \ Portions : Append(d, "__init__") \notin paths}

InitFilesPresent ==
    {<<"ARCH-055", d>> : d \in PackagesWithoutInit \cup InitFilesOfPortions}

\* The aggregate modules of a context a file imports from.
Touched(c, f) == {u[2] : u \in {v \in f.uses : Len(v) > 1 /\ v[1] = c}} \cap Modules(c)

EntrypointSingleAggregate ==
    UNION {{<<"ARCH-056", f.path>> :
              f \in {g \in Under(<<c, "entrypoints">>) :
                       Stem(g) # "__init__" /\ Cardinality(Touched(c, g)) > 1}} :
           c \in Contexts}

BootstrapNoAdapters ==
    Marked({"ARCH-059"}, {f \in Under(<<"bootstrap">>) : Stem(f) # "__init__"})

-----------------------------------------------------------------------------
(* Tests *)

ScannedTests == {t \in tests : ~Contains(Front(t.path), "fixtures")}

TestNaming == Marked({"ARCH-040"}, ScannedTests)

\* The directories of the source files a test imports.
ContentDirs(t) == {Front(u) : u \in t.uses \cap Paths}

\* A test of one directory lives in the same directory under tests. The other
\* files there are conftest.py and __init__.py.
TestMirrorsSource ==
    {<<"ARCH-058", t.path>> :
        t \in {s \in ScannedTests :
                 /\ Stem(s) \notin {"conftest", "__init__"}
                 /\ Cardinality(ContentDirs(s)) = 1
                 /\ Front(s.path) \notin ContentDirs(s)}}

-----------------------------------------------------------------------------
(* The three checks; nothing is reported where there is nothing to scan. *)

ModuleFindings(m) ==
    BannedSymbols(Under(DomainDir(m)), ApplicationFiles(m))
    \cup DomainEvents(m) \cup ValueObjects(m) \cup AggregateEncapsulation(m)
    \cup ServiceSize(m) \cup UnitOfWorkCommit(m) \cup PromotionThresholds(m)
    \cup OneAggregatePerModule(m) \cup NoLegacyAdaptersLayer(m)
    \cup RepositoriesAreNotQueries(m) \cup DomainServicesLocation(m)

Findings ==
    IF ~IsScannable THEN {}
    ELSE (UNION {ModuleFindings(m) : m \in IterModules})
         \cup BannedSymbols(CommonsFiles, {}) \cup CommonsIsLimited
         \cup NoContextApplication \cup InitFilesPresent
         \cup EntrypointSingleAggregate \cup BootstrapNoAdapters
         \cup TestNaming \cup TestMirrorsSource
=============================================================================
