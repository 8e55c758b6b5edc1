--------------------------- MODULE SourceRepairs ---------------------------
(***************************************************************************)
(* A developer repairs, one at a time and in any order, what SourceRules   *)
(* finds in a project, each finding the way its message and the standard   *)
(* say: docs/standard/02-structure.md (2.3 "What goes where"), 08 on       *)
(* commons, 11 on tests, 15 on thresholds. A repair of one rule moves      *)
(* files into and out of the reach of others.                              *)
(*                                                                         *)
(* Repairs are external to the code: a person makes them.                  *)
(***************************************************************************)
EXTENDS SourceRules

CONSTANT Projects   \* the projects to repair: their files under src and tests

vars == <<sources, tests>>

Blank(path) ==
    [path |-> path, marks |-> {}, classes |-> {}, queries |-> {}, commits |-> {}, uses |-> {}]

-----------------------------------------------------------------------------
(* Projects to begin with *)

Rules ==
    {"ARCH-003", "ARCH-004", "ARCH-018", "ARCH-019", "ARCH-023", "ARCH-028",
     "ARCH-030", "ARCH-031", "ARCH-040", "ARCH-041", "ARCH-053", "ARCH-059"}

IsPath(path) == path \in Seq(Range(path)) /\ path # <<>>

IsFile(f) ==
    /\ DOMAIN f = DOMAIN Blank(<<>>)
    /\ IsPath(f.path)
    /\ f.marks \subseteq Rules \cup {"service", "mutates"}
    /\ HasCommits(f)

AreFiles(files) ==
    /\ \A f \in files : IsFile(f)
    /\ \A f, g \in files : f.path = g.path => f = g

ASSUME ProjectsAssumption ==
    /\ "uow" \in Names
    /\ \A p \in Projects : AreFiles(p.sources) /\ AreFiles(p.tests)

\* A path in one of these directories of a context, of a module.
InContext(path, dirs) ==
    Len(path) > 2 /\ path[1] \notin NonContextDirs /\ path[2] \in dirs

InModule(path, dirs) ==
    /\ Len(path) > 3 /\ path[1] \notin NonContextDirs
    /\ path[2] \notin Reserved /\ path[3] \in dirs

InModel(path) == Len(path) = 5 /\ InModule(path, {"domain"}) /\ path[4] = "model"

\* A file that makes the first name of its path a context.
MakesContext(path) == InContext(path, {"entrypoints"}) \/ InModule(path, Layers)

IsContext(c, files) == \E f \in files : MakesContext(f.path) /\ f.path[1] = c

IsModule(c, m, files) ==
    \E f \in files : InModule(f.path, Layers) /\ f.path[1] = c /\ f.path[2] = m

\* Rules on what any code may do, from the domain outwards.
Inward == {"ARCH-003", "ARCH-004", "ARCH-028", "ARCH-053"}

\* A line that breaks the rule is of a kind with the others there: any code may
\* import, an application service is in application, whether the module's or
\* still the context's, a value object in value_objects.py.
Fits(rule, path, files) ==
    \/ /\ rule \in Inward
       /\ \/ MakesContext(path)
          \/ /\ InContext(path, {"read", "application"})
             /\ IsContext(path[1], files)
          \/ /\ InModule(path, {"infrastructure"})
             /\ path[2] # "application" /\ IsModule(path[1], path[2], files)
          \/ Len(path) > 1 /\ path[1] \in NonContextDirs
    \/ /\ rule = "ARCH-030"
       /\ \/ InModule(path, {"application"})
          \/ /\ InContext(path, {"application"}) /\ IsContext(path[1], files)
             /\ Len(path) > 3 => path[3] \notin {"domain", "adapters", "infrastructure"}
    \/ /\ InModel(path) /\ path[2] # "application"
       /\ \/ /\ rule \in {"ARCH-018", "ARCH-019", "ARCH-041"}
             /\ Last(path) \notin ReservedModelFiles
          \/ rule = "ARCH-041" /\ Last(path) = "ports"
          \/ rule = "ARCH-023" /\ Last(path) = "events"
          \/ rule = "ARCH-031" /\ Last(path) = "value_objects"
    \/ /\ rule = "ARCH-059"
       /\ Len(path) > 1 /\ path[1] = "bootstrap" /\ Last(path) # "__init__"

\* There is a context; no aggregate has the name of a directory that contexts
\* have next to their modules; and every line is where its like are.
LaidOut(files) ==
    /\ \E f \in files : MakesContext(f.path)
    /\ \A f \in files : InModel(f.path) => Last(f.path) \notin Reserved \cup {"application"}
    /\ \A f \in files : \A rule \in f.marks \cap Rules : Fits(rule, f.path, files)

ASSUME LayoutAssumption == \A p \in Projects : LaidOut(p.sources)

-----------------------------------------------------------------------------
(* Editing files *)

\* What is written to a path where a file is goes into that file.
Merged(old, new) ==
    LET paths == {f.path : f \in new}
        merge(path) ==
            LET same == {f \in old \cup new : f.path = path}
            IN  [path |-> path,
                 marks |-> UNION {f.marks : f \in same},
                 classes |-> UNION {f.classes : f \in same},
                 queries |-> UNION {f.queries : f \in same},
                 commits |-> UNION {f.commits : f \in same},
                 uses |-> UNION {f.uses : f \in same}]
    IN  {f \in old : f.path \notin paths} \cup {merge(path) : path \in paths}

Renamed(uses, moves) == UNION {IF u \in DOMAIN moves THEN moves[u] ELSE {u} : u \in uses}

\* Files give way to others; who imported the one at p imports those at moves[p].
Edit(gone, new, moves) ==
    LET renamed(f) == [f EXCEPT !.uses = Renamed(@, moves)]
    IN  /\ sources' = {renamed(f) : f \in Merged(sources \ gone, new)}
        /\ tests' = {renamed(t) : t \in tests}

Unmoved == [path \in {} |-> {}]

Rewrite(f, g) == Edit({f}, {g}, Unmoved)

Add(f) == Edit({}, {f}, Unmoved)

Move(moves) ==
    LET gone == {f \in sources : f.path \in DOMAIN moves}
    IN  Edit(gone, UNION {{[f EXCEPT !.path = p] : p \in moves[f.path]} : f \in gone}, moves)

MoveFile(from, to) == Move([p \in {from} |-> {to}])

MoveDirectory(from, to) ==
    Move([p \in {f.path : f \in Under(from)} |-> {to \o SubSeq(p, Len(from) + 1, Len(p))}])

\* The file found fault with, and the module it is in.
FilesAt(path) == {f \in sources : f.path = path}
ModuleOf(path) == SubSeq(path, 1, 2)

-----------------------------------------------------------------------------
(* Repairs, of a finding of a rule at a place *)

\* "is not frozen", "has a public setter", "domain calls": that line is rewritten.
RewriteLine(rule, place) ==
    /\ rule \notin {"ARCH-041", "ARCH-047"}
    /\ \/ \E f \in {g \in FilesAt(place) : rule \in g.marks} :
            Rewrite(f, [f EXCEPT !.marks = @ \ {rule}])
       \/ \E t \in {s \in tests : s.path = place /\ rule \in s.marks} :
            /\ tests' = (tests \ {t}) \cup {[t EXCEPT !.marks = @ \ {rule}]}
            /\ UNCHANGED sources

\* "domain imports", "inherits an ORM base": what needs the framework becomes an
\* adapter.
TakeOutAdapter(rule, place) ==
    LET dir == IF place[1] = "commons" THEN CommonsAdapters
               ELSE Append(ModuleOf(place), "adapters")
        adapter == [Blank(Append(dir, Last(place))) EXCEPT !.marks = {rule}]
    IN  /\ rule \in {"ARCH-003", "ARCH-028"}
        /\ \E f \in FilesAt(place) :
             Edit({f}, {[f EXCEPT !.marks = @ \ {rule}], adapter}, Unmoved)

UowBlock == [kind |-> "with", opens |-> {"uow"}]

\* "open `with self._uow as uow:` and commit through uow"
OpenUnitOfWork(rule, place) ==
    LET repaired(c) == IF ScansThatReport(c) = {} THEN c
                       ELSE [chain |-> Append(c.chain, UowBlock), receiver |-> "uow"]
    IN  /\ rule = "ARCH-033"
        /\ \E f \in FilesAt(place) :
             Rewrite(f, [f EXCEPT !.commits = {repaired(c) : c \in @}])

\* "God Aggregate. Split into two aggregate modules"; the ports go along.
SplitAggregate(rule, place) ==
    LET split == ModelDir(<<place[1], place[2] \o "_part">>)
        part == [Blank(Append(split, Last(place))) EXCEPT
                     !.classes = {place[2] \o "_part"}]
    IN  /\ rule = "ARCH-041"
        /\ \E f \in FilesAt(place) :
             Edit({f}, {[f EXCEPT !.marks = @ \ {rule}], part}, Unmoved)

\* "does not belong in commons/": a service spanning aggregates has its place
\* there, others are a module's. "mutates its own state" is rewritten.
ClearCommons(rule, place) ==
    LET services == Append(CommonsDir, "services")
        homes == {services}
                 \cup {DomainDir(m) \o <<"services", Last(place)>> : m \in IterModules}
                 \cup {m \o <<"application", Last(place)>> : m \in IterModules}
    IN  /\ rule = "ARCH-047"
        /\ \E f \in FilesAt(place) :
             \/ /\ "service" \in f.marks
                /\ \E home \in homes \ {place} : MoveFile(place, home)
             \/ /\ "mutates" \in f.marks
                /\ Rewrite(f, [f EXCEPT !.marks = @ \ {"mutates"}])

\* A context has no application of its own; "rename it to adapters/ and update the
\* imports".
MoveLayer(rule, place) ==
    /\ rule = "ARCH-048"
    /\ \/ /\ Last(place) = "application"
          /\ \E m \in Modules(place[1]) :
               MoveDirectory(place, <<place[1], m, "application">>)
       \/ /\ Last(place) = "infrastructure"
          /\ MoveDirectory(place, Append(ModuleOf(place), "adapters"))

\* "declares no aggregate root", "more than one", "expected aggregate.py": a module
\* for each, with its root in aggregate.py.
OneAggregate(rule, place) ==
    LET m == ModuleOf(place)
        files == AggregateFiles(m)
        root == Append(place, "aggregate")
    IN  /\ rule = "ARCH-049"
        /\ \/ /\ files = {}
              /\ Add([Blank(root) EXCEPT !.classes = {m[2]}])
           \/ /\ Cardinality(files) = 1
              /\ \E f \in files : MoveFile(f.path, root)
           \/ /\ Cardinality(files) > 1
              /\ \E f \in files :
                   /\ Stem(f) # "aggregate"
                   /\ MoveFile(f.path, Append(ModelDir(<<m[1], Stem(f)>>), "aggregate"))

\* "move it to this module's own Finder (application/... + adapters/...)"
MoveToFinder(rule, place) ==
    LET m == ModuleOf(place)
        finder(layer) == Blank(m \o <<layer, m[2] \o "_finder">>)
    IN  /\ rule = "ARCH-051"
        /\ \E ports \in FilesAt(place) :
             Edit({ports},
                  {[ports EXCEPT !.queries = {e \in @ : e = AggregateClassName(m)}],
                   finder("application"), finder("adapters")}, Unmoved)

\* "use domain/services/ instead", "expected ... (named after the aggregate)"
RenameService(rule, place) ==
    LET m == ModuleOf(place)
        name == IF AggregateClassName(m) = NoName THEN m[2] ELSE AggregateClassName(m)
    IN  /\ rule = "ARCH-054"
        /\ MoveFile(place, DomainDir(m) \o <<"services", name>>)

\* "must not have an __init__.py", "a Python package directory with no __init__.py":
\* everywhere at once.
MendInitFiles(rule, place) ==
    /\ rule = "ARCH-055"
    /\ place \in PackagesWithoutInit \cup InitFilesOfPortions
    /\ Edit({f \in sources : f.path \in InitFilesOfPortions},
            {Blank(Append(d, "__init__")) : d \in PackagesWithoutInit}, Unmoved)

\* "split into one file per module"
SplitEntrypoint(rule, place) ==
    LET context == place[1]
        serves(f, m) == {u \in f.uses :
                           \A n \in Touched(context, f) \ {m} : ~Within(u, <<context, n>>)}
        parts(f) == {[f EXCEPT !.path = Append(Front(place), m), !.uses = serves(f, m)] :
                       m \in Touched(context, f)}
    IN  /\ rule = "ARCH-056"
        /\ \E f \in FilesAt(place) :
             Edit({f}, parts(f), [p \in {place} |-> {g.path : g \in parts(f)}])

\* "imports from src/... but does not live under tests/..."
MoveTest(rule, place) ==
    /\ rule = "ARCH-058"
    /\ \E t \in {s \in tests : s.path = place} : \E dir \in ContentDirs(t) :
         tests' = Merged(tests \ {t}, {[t EXCEPT !.path = Append(dir, Stem(t))]})
    /\ UNCHANGED sources

Repair(rule, place) ==
    \/ RewriteLine(rule, place)
    \/ TakeOutAdapter(rule, place)
    \/ OpenUnitOfWork(rule, place)
    \/ SplitAggregate(rule, place)
    \/ ClearCommons(rule, place)
    \/ MoveLayer(rule, place)
    \/ OneAggregate(rule, place)
    \/ MoveToFinder(rule, place)
    \/ RenameService(rule, place)
    \/ MendInitFiles(rule, place)
    \/ SplitEntrypoint(rule, place)
    \/ MoveTest(rule, place)

Init == \E p \in Projects : sources = p.sources /\ tests = p.tests

Next == \E finding \in Findings : Repair(finding[1], finding[2])

\* The developer goes on while there is something to repair.
Spec == Init /\ [][Next]_vars /\ WF_vars(Next)

-----------------------------------------------------------------------------
(* Properties *)

\* Types; a path names one file; a finding is about a file or a directory there
\* is, that of a module without an aggregate aside.
TypeOK ==
    /\ AreFiles(sources) /\ AreFiles(tests)
    /\ \A finding \in Findings : finding[1] # "ARCH-049" =>
         \E f \in sources \cup tests : Within(f.path, finding[2])

\* What a line breaks does not apply everywhere: the rules on the domain's imports,
\* calls and base classes stop at application, and all on the core at the outer
\* ring.
OuterRing(path) ==
    \/ Within(path, <<"bootstrap">>) \/ Within(path, CommonsAdapters)
    \/ \E c \in Contexts : \/ Within(path, <<c, "entrypoints">>)
                           \/ Within(path, <<c, "read">>)
    \/ \E m \in IterModules : Within(path, Append(m, "adapters"))

IsFree(rule, path) ==
    \/ rule \in {"ARCH-003", "ARCH-004", "ARCH-028", "ARCH-053"} /\ OuterRing(path)
    \/ /\ rule \in {"ARCH-003", "ARCH-004", "ARCH-028"}
       /\ \E m \in IterModules : Within(path, Append(m, "application"))

\* base.py, is_scannable: "A check that scans zero files has not verified
\* anything". Which files a rule looks at follows from the names of directories
\* and files, and repairs move and rename them: on the way code that breaks a rule
\* is never out of the reach of that rule without being reported as misplaced.
NothingHidden ==
    LET findings == Findings
        misplaced == {finding[2] : finding \in {g \in findings : g[1] = "ARCH-048"}}
    IN  \A f \in sources : \A rule \in f.marks \cap Rules :
            \/ <<rule, f.path>> \in findings
            \/ IsFree(rule, f.path)
            \/ \E dir \in misplaced : IsStrictPrefix(dir, f.path)

\* The commit c is in the body of frame i, a `with` of the same function that
\* binds its receiver.
Encloses(i, c) ==
    /\ c.chain[i].kind = "with" /\ c.receiver \in c.chain[i].opens
    /\ \A j \in DOMAIN c.chain : j > i => c.chain[j].kind # "def"

\* _scan_for_uncontained_commits: "a binding never leaks out of it and a call
\* inside it is never double-counted". Of the module and all functions, one scan
\* reports a commit that no `with` of its own function which binds its receiver
\* encloses, and none any other.
CommitReportedOnce ==
    \A f \in sources : \A c \in f.commits :
        Cardinality(ScansThatReport(c)) =
            IF \E i \in DOMAIN c.chain : Encloses(i, c) THEN 0 ELSE 1

\* The rules can be kept together: whatever the order, repairing what is found
\* comes to an end with nothing found, though repairs bring findings of their own.
Converges == <>[](Findings = {})
=============================================================================
