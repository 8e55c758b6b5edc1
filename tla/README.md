# Models and proofs of architecture-standard

TLA+ models of the code in this repository, the TLC runs that check them, and
theorems about them that TLAPS proves. Every definition that stands for code is
listed in `PROJECT.json` under `map`, with the lines it stands for; paths below
are relative to the repository's root.

## The system

Two programs live here. `arch-commons` is a runtime library that generated
projects use; `arch-standard` is a command line tool that checks projects
against a versioned catalog of rules.

| Part | State it keeps | Operations | Hard behaviour |
|---|---|---|---|
| Transactional outbox, `commons/adapters/outbox.py` | table `outbox`, one open transaction per session | `record`, `drain` | several drainers, crash between publish and commit, a raising callback in the middle of a batch, lock cycles |
| In-memory unit of work | `_tracked`, `_committed`, the aggregates' pending events | enter, exit, commit, rollback, track, collect | one instance shared by all callers; blocks that fail; read-then-clear loop |
| SQLAlchemy unit of work | the session, `_committed`, `_collected_events` | the same | the flush changes what the scan sees; weak identity map |
| In-memory bus, clock, identities | the bus: a list | `publish_all` | raising bus |
| Generated service, repository, composition root (`templates/`) | dict of aggregates; one unit of work, bus and service | `create_<aggregate>`, `add`, `get` | concurrent callers, exceptions at every statement |
| Rule catalog, `rules/` | none (YAML files) | `load`, `get`, `musts`, `core` | a project-local `rules/` that is no catalog or is rejected |
| Project layout, `checks/base.py` | none | `detect`, `modules` | directories that are almost a context or a module |
| Checks, `checks/` | none between runs | one `run` each | contracts written under many conditions for a linter that follows chains; the linter in a subprocess (hangs, breaks down); a hand-written manifest; rules that choose their files by name and place, and a scan for commits with scopes of its own; sources that do not parse |
| Waivers, `checks/adr_waivers.py` | ADR files | `active_waivers` | expiry, unusable dates |
| Report, `report.py` | rows | `collect`, `only`, `with_waivers`, `exit_code` | order of the steps; nothing may be lost or waived that is not the project's |
| Release governance, `release/` | `.released/`, `CHANGELOG.md`, the declared version | `release-check`, `changelog`, `release-snapshot` | histories of releases, order of the commands, interruption |
| Version stamp | `.arch-standard` | `read_stamp`, `majors_crossed` | none beyond comparison |
| Document generator, template configuration | generated text | `docs` | none |

How they interact. The service calls the unit of work, the repository and the
bus; `record` runs in the transaction of the unit of work and `drain` in another
process, through the table only. `check` loads the catalog, reads the waivers,
lets each check report on the rules it claims, and turns the rows into an exit
code. The release commands read the catalog and the snapshots; CI runs
`release-check` on what is pushed; the drift notice of `check` uses the version
order the release policy relies on.

What makes each part correct: the outbox loses nothing that was committed,
publishes nothing that was not, and repeats only with a cause; a unit of work
returns exactly the events of the block that committed; the service publishes
after commit and at most once; the context graph fails exactly when the manifest
is wrong; the import contracts let nothing forbidden through, and fail nothing
that points inward; the source rules can be kept together, and what is moved to keep
one stays in the reach of the others; exit code 0 of a check run is earned and 1 explained; a rule that
becomes binding is announced and costs a major. `PROJECT.json` lists the hazards
one by one, with the line where each bites and the properties that cover it.

## Modules

| Module | Models | Notes |
|---|---|---|
| `ReliableDelivery` | what an outbox promises | abstract: facts, deliveries, acknowledgements |
| `Outbox` | `outbox.py` | implements `ReliableDelivery` (`RefinesReliableDelivery`) |
| `OutboxProofs` | | six theorems |
| `InMemoryUnitOfWork`, `SqlAlchemyUnitOfWork` | the two units of work | an action per method, no `Next`: a client schedules them |
| `UnitOfWorkParity` | one service driven against both | instantiates both and compares what they return; `habits` says what the service does out of the ordinary |
| `UnitOfWorkParityProofs` | | five theorems |
| `EventPublication` | what publish-after-commit promises | abstract |
| `CreateService` | the generated project with concurrent callers | instantiates `InMemoryUnitOfWork`; implements `EventPublication` for one caller |
| `CreateServiceProofs` | | four theorems |
| `ContextGraph` | `checks/context_graph.py` | the depth-first search with its stack |
| `ContextGraphProofs` | | four theorems |
| `ProjectLayout` | `checks/base.py` | contexts and modules, from the paths of files; used by `ImportContracts` and `SourceRules` |
| `ImportContracts` | `checks/import_contracts.py` | the contracts written for a project, import-linter on them, and the reports; compared with the rules' descriptions |
| `ImportContractsProofs` | | four theorems |
| `SourceRules` | `checks/ast_rules.py`, `checks/structure.py`, `checks/banned_symbols.py` | operators only: the findings on a project |
| `SourceRepairs` | a developer who repairs what is found | the actions are external; instance of the rules of `SourceRules` |
| `SourceRepairsProofs` | | five theorems |
| `CheckRun` | `cli.py` `_run_check`, `report.py`, `adr_waivers.py`, the run of the checks | |
| `CheckRunProofs` | | four theorems |
| `CatalogRelease` | `release/`, the release commands of `cli.py`, `majors_crossed` | |
| `CatalogReleaseProofs` | | four theorems |
| `MC...` | instances for TLC | constants, symmetry, nothing else |

State and actions against the code:

- **Outbox.** `table` and `marked` are the committed rows and their
  `published_at`; `inserted[p]` and `pending[d]` are the uncommitted writes of a
  producer's and a drainer's transaction. `Select`, `Publish`, `Mark`, `Commit`
  are the statements of `drain`; each has its way of failing (`PublishRaises`,
  `MarkRaises`, `Crash`). A drain that raised leaves its session open: `Rollback`
  or a second `Select` on it may follow. `delivered`, `redelivered` and `seen`
  only observe. The database is external: committed rows and one's own writes
  are visible, a second writer of a row waits, a lock cycle is broken by
  aborting one of its members.
- **Units of work.** One action per method. The SQLAlchemy session is external
  and modelled by what the unit of work relies on, as described in the module's
  header. An aggregate stands for its row, an event is raised once at most.
- **CreateService.** A step per statement that touches what callers share, two
  per turn of the loop of `collect_new_events`, which a dict that changed
  meanwhile interrupts. `fate` and `published` only observe.
- **ContextGraph.** `stack` is the recursion's call stack, `todo` what the loop
  of each frame has left. The code's order (sorted, or the file's) is one of the
  orders the model takes.
- **ProjectLayout.** `files` are the paths below `src/`, of whatever kind: a directory is a
  prefix of one, and one that holds nothing but `.sql` files or `__pycache__` is a directory
  all the same, as for `Path.is_dir()`. `ImportContracts` gives it modules and other files,
  `SourceRules` the source files alone.
- **ImportContracts.** A project is the set of its modules' dotted paths and of its other
  files. The developer adds imports and `Check` runs. A
  contract is the rules it names, its sources, and the pairs of packages that no
  chain of imports may join; import-linter is external, and follows chains
  through every root package. `FrameworkModules` is what the ARCH-035 contract lists,
  `Libraries` what a project may import from third parties. `Forbids` and `PointsInward` are
  the references: the first has all that the rules' descriptions forbid of a single import, the second what
  `01-philosophy.md` says. Where a contract speaks of less than its rule, `IsOverlooked`
  names the imports by which it falls short.
- **SourceRules, SourceRepairs.** `sources` and `tests` are the files, each a record of
  what the rules read of it: its path, and for the rules that look for a pattern in a
  line a mark, the rule such a line breaks wherever it applies. Each rule is an operator
  that yields pairs of a rule and a place. A `commit()` is the chain of functions, `with`
  statements and other nodes around it, and a scan is the position in the chain where it
  starts. `Repair` does to a finding what its message says, where a message is silent what
  `02-structure.md` (2.3), `08-commons.md`, `11-testing-strategy.md` and `15-progressive-structure.md`
  say; importers and tests follow a file that moves. A repair starts from a project that is
  `LaidOut`: there is a context, a line that breaks a rule is where its like are (a service too
  long in `application/`, say), and no aggregate has a name the layout reserves. Every
  instance satisfies this, since TLC evaluates `LayoutAssumption`.
- **CheckRun.** `step` is the statement of `_run_check` (and of `collect`) that
  comes next; `project` is the input: what is on disk, which rules apply and
  which the project violates. The subprocess is a second actor. `exit` is "raised"
  for an exception nobody catches, whose exit code is Python's 1.
- **CatalogRelease.** `snapshots` is `.released/`, filled file by file. The
  maintainer and CI are external; the constant `Habits` says what the maintainer
  may do that no command prevents. `released` is what CI accepted. `--migration-notes` names
  nothing, a blank file or one with text (`NotesArguments`); the command asks for an argument,
  and the section has notes only if there is text (`HasNotes`).

## Runs

Each run asks one question of one instance. The runs that pass:

| Run | Instance | Distinct states | Shows |
|---|---|---|---|
| `OutboxRace` | 2 producers, 2 drainers, 3 rows of which 2 tie, batches of 2, 1 fault, fair | 41 000 | at least once, oldest first, final marks, implements `ReliableDelivery`; every committed row is marked in the end, though drainers may deadlock on the tied rows |
| `OutboxPoison` | 1 drainer, 3 rows in order, the middle one always raises, 2 faults, fair | 3 400 | what is older than the poison goes out; a second delivery has a cause |
| `UowParity` | 2 aggregates, 3 events, each of the 64 sets of habits a service can have | 87 000 | for which services the two units of work return the committed block's events, and none twice |
| `ServiceOneCaller` | 1 caller, 3 calls, exceptions up to the commit, fair | 1 000 | implements `EventPublication`; committed events arrive |
| `ServiceShared` | 2 callers, 4 calls, exceptions anywhere | 186 000 | what concurrency leaves intact |
| `ContextGraph` | every manifest and layout over 3 contexts, every order of the walk, fair | 226 000 | search and outcome are right; the walk ends |
| `ImportContracts` | a full aggregate module and up to 3 of 11 other parts (a second module; entrypoints, or one file next to an `__init__.py`; `read/`, with a module or with queries in `.sql`; a second context, or what `__pycache__` left of one; an underscore directory; own or vendored `commons`; `bootstrap/`), with and without arch-commons, 1 import; any 2 parts, 2 imports; `read/`, 3 imports; a library ARCH-035 lists and one it does not | 204 000 | but for what `IsOverlooked` names, nothing forbidden slips through; SKIP is vacuous; inward imports pass unless a directory is bare |
| `SourceRepairs` | a sound module with any 2 of 15 flaws, or 3 of the 4 that meet; a `commit()` in every nesting up to 3; every order of repairs, fair | 21 000 | no line that breaks a rule gets out of its reach unreported; one scan per stray commit; repairing ends with no findings |
| `CheckRun` | one rule of each kind, 3 catalogs, up to 2 waivers of every expiry, every mix of violations, fair | 2 350 000 | the exit code means what it says; a hanging linter does not hang the run |
| `ReleasePolicy` | 2 rules in 2 files, 4 levels, 4 versions, 2 edits, no, blank or real migration notes, interruption | 3 986 000 | the policy holds over the whole history of releases |

The runs that end in a counterexample, each a sentence of the repository that
the code does not keep (quoted in `PROJECT.json`, `findings`):

| Run | What happens |
|---|---|
| `CheckRunCatalog` | a rejected project-local rule file exits with 1, the code of violations |
| `ReleaseSnapshotFirst` | a snapshot in the push makes CI compare the catalog with itself |

Other places where code and text part, seen while modelling and without a run of
their own:

- `drain` marks in one transaction for the batch (`outbox.py:66`), while its
  docstring says "marking each on success": a row that raises takes the marks of
  the rows before it along. The model does so too; `RedeliveryHasCause` counts it
  as a cause.
- `rollback` in memory forgets the tracked aggregates but not their pending events
  (`in_memory_unit_of_work.py:30`): if a stored aggregate is loaded and tracked
  again, a later block that commits returns the failed block's event.
  `07-adapters.md:28` speaks of "rollback if commit() was not called". The habit
  "fail" is left out of `MemReturnsTheBlock`.
- Four contracts speak of less than their rules. `Forbids` has the rules, `IsOverlooked` the
  difference, which `NoneSlipsThrough` makes an exception of:
  - ARCH-017: "No module outside bootstrap/ imports from bootstrap/" (`dependencies.yaml:483`).
    The contract's sources are the contexts (`import_contracts.py:296`): a module of `commons`
    that does is not noticed.
  - ARCH-015: no import "from any application/ or adapters/ package" (`dependencies.yaml:429`).
    The contract keeps `commons.types` from contexts and the project's own modules, and not
    from `commons.adapters` (`import_contracts.py:323`).
  - ARCH-035: no "DI container, pydantic, or any other third-party runtime library"
    (`dependencies.yaml:523`). The contract lists `sqlalchemy`, `fastapi` and `pydantic`
    (`import_contracts.py:50`): in the run, `commons.types` imports `dishka` unnoticed.
  - ARCH-011: "No module under a context's entrypoints/ package imports or calls another
    entrypoint module" (`dependencies.yaml:337`). `__init__.py` files are left out
    (`import_contracts.py:380`), as sources and as targets, and with a single other file the rule is
    SKIP, although `entrypoints/web/__init__.py` may import `entrypoints/cli.py`. `SkipIsVacuous` has the
    same exception.
- A directory without a Python module is a directory to the checks (`base.py:19`,
  `import_contracts.py:166`, `:203`, `:337`) and no package to import-linter: with a `read/` of
  `.sql` files, or an `entrypoints/` of which a deleted context left `__pycache__`, it ends with an error, and
  every rule of the check FAILs in a project whose imports all point inward. `NoneIsBare` excludes
  this from `InwardProjectPasses`; the projects of the run that have such directories fail
  without it.
- A deleted aggregate has left the SQLAlchemy session when `commit` scans it
  (`sqlalchemy_unit_of_work.py:37`), so its last event is lost, and a second
  `collect_new_events` returns everything again there and nothing in memory. The
  habits "delete" and "again" are left out of the properties they would break.
- `build_container` makes one unit of work for all callers
  (`templates/src/bootstrap/__init__.py.jinja:25`). With two calls at a time, one that
  raises rolls the other's aggregate back, or interrupts its loop: a committed event never
  reaches the bus, and `CommittedReachesBus` fails in `ServiceShared`'s instance. The smoke
  test, whose words it uses, has one caller; it is checked for one.
- ARCH-041 tells an aggregate of more than 400 lines to "promote to a package"
  (`ast_rules.py:355`), while `15-progressive-structure.md:3` says "there is no promotion step". A package
  `model/aggregate/` has no file that `_aggregate_files` sees (`ast_rules.py:69`): ARCH-049 then
  finds no aggregate, and ARCH-018, ARCH-019 and ARCH-051 lose sight of it. For
  `ports.py` with too many protocols the message is "split into a ports/ package" (`ast_rules.py:360`),
  which ARCH-041 and ARCH-051 no longer look into (`ast_rules.py:353`, `structure.py:180`). `SplitAggregate` follows
  the standard in both cases, whose table has "Split into two aggregate modules" for the aggregate
  (`15-progressive-structure.md:10`) and "depends on too much of the outside world" for the ports (`:11`), and makes a
  second module. What is claimed of repairs holds for these two, not for what the messages say.
- ARCH-049 counts files, not classes: two roots in `aggregate.py` pass, and leave
  ARCH-051 and ARCH-054 without an aggregate name (`structure.py:173`).
- "There is no context-level code area at all" (`02-structure.md:160`); ARCH-048 looks for `application/` alone (`structure.py:55`), and a module with only
  `infrastructure/` is no module, so that its old layer is not reported.
- `is_scannable` promises SKIP for "a check that scans zero files" (`base.py:152`). A rule with no
  file to look at in a scannable project passes; and since `_SKIP_DIRS` is matched against
  the whole absolute path (`base.py:168`), so do the rules that walk files in any checkout below a
  directory named `venv`.
- An aggregate module may not be called `read`, `entrypoints` or `application`: the first two are
  skipped by name (`base.py:98`), and the third is taken for a layer of the context (`structure.py:55`).
  No rule says so. A file `model/read.py` next to `aggregate.py` is reported by ARCH-049, and moved to a module of its own,
  as the message asks, its code is out of the reach of ARCH-018 and reported nowhere. TLC finds
  this from such a project once the clause on names is taken out of `LaidOut`.
- A waiver's scope is read and never used (`adr_waivers.py:46`): a waiver for one path waives
  the rule for the whole project.
- Two callers of the shared service may both publish one event
  (`in_memory_unit_of_work.py:41`): `OncePerCaller` is the bound that is left.
- A list inside `depends_on` raises `TypeError` out of the context-graph check
  (`context_graph.py:89`). The model has it as the outcome "raised".
- `_fail_all` (`import_contracts.py:496`) FAILs all its rules, ARCH-013, a SHOULD,
  among them; its docstring says all are MUST.
- A linter that breaks down after it printed a BROKEN line would be taken for a
  complete run (`import_contracts.py:546`). `LinterDies` breaks down before it
  printed one only, and `GreenIsEarned` rests on that assumption.
- A version below the newest snapshot, as for a backport, counts as a major bump
  (`compatibility.py:28`). `SetVersion` only raises the version.
- `CHANGELOG.md:68-70` says that Section 16.3 "only sanctions a `SHOULD -> MUST` promotion as a minor
  bump when the rule was genuinely `SHOULD`" before, and lines 76-78 speak of "the minor-bump promotion
  path". There is none: `required_bump` asks for a major whenever a level becomes binding
  (`compatibility.py:11`), the tests agree, and so does the policy's text, "promoted to `MUST` in
  the next major" (`docs/superpowers/plans/2026-09-06-distribution-and-release-engineering.md:19`).
  `NoNewMustWithinMajor` states what the code enforces, against the changelog.
- The same section says that a rule which arrives binding "requires a major bump"
  (`CHANGELOG.md:71-75`). `find_unsanctioned_must_promotions` refuses it at any bump
  (`compatibility.py:41-56`), which is what `WarningWindow` rests on.
- `changelog` asks a promotion for `--migration-notes` and not for notes: a file that is empty or
  blank satisfies it (`cli.py:197-200`), and the section is written without notes
  (`changelog.py:47`). `PromotionsAskForNotes` says what is left: a file was named, and its text, if
  any, is in the section.
- An interrupted `release-snapshot` leaves part of a catalog, which is the newest
  snapshot from then on and is not written again (`snapshot.py:23`). `ReleasePolicy`
  includes it: `NoNewMustWithinMajor` survives; `WarningWindow` and
  `PromotionsAskForNotes` are stated for histories in which none was lost.

Bounds, all of them constants: `MaxFailures` (faults: a crash, a raise, a lost
acknowledgement), `BatchSize` (two of three rows, so that batches end early and
repeat), three rows (a tie and a later one), two drainers (every race and lock
cycle of the code is between two sessions), two callers and four calls (one caller
more than once, so that a bound per caller says something; a third caller has been
tried and shows nothing else), three contexts (self-loop, two-cycle, three-cycle,
diamond with an undeclared corner), `MaxEdits` = 2 (from any loadable catalog, a
rule needs two edits to become binding the announced way, or to leave and come
back), `MaxSections` = 2, four versions on both sides of a patch, a minor and a
major. A contract relates at most three parts of a project (two modules and
`entrypoints/` or `read/`), and the shortest chains that join parts by way of a
third take two imports; more imports are tried on one project. `MaxFlaws` = 2 takes every pair of
rules that may disturb each other, one more for the flaws that create, rename or refer to modules;
`MaxNesting` = 3 has a function in a `with` in a function and the reverse, and the theorem lifts
the bound. The checked rules of `CheckRun` are one of each kind the code treats
differently; `MaxAdrs` = 2 lets an active and a lapsed waiver of one rule meet.
Symmetry is used only in runs without liveness properties, over sets whose
elements the module does not tell apart.

Fairness. A drainer's process keeps being scheduled and restarted (weak fairness
of its steps), and the database queues for row locks (strong fairness of `Mark`
for each row a drainer waits with). A call that is under way is not abandoned
by its thread; callers need not call. Sequential code keeps running: the
context-graph check, and `_run_check`, whose 120-second timer goes off. The developer of
`SourceRepairs` goes on while anything is found, in any order. Nothing
is assumed of import-linter, of producers, of maintainers or of how often faults
come beyond the bound.

Deadlock is checked in the `CheckRun` runs. Elsewhere the system may stop: an
outbox with nothing to publish, a service nobody calls, a check that returned, a
maintainer who is done; each cfg says so.

## Proofs

TLAPS proves, for every value of the constants that satisfies the named
assumptions:

- **Outbox** (`OutboxProofs`, from `OutboxAssumption`). `TypeCorrect` is
  inductive as it stands. `MarkedMeansDelivered` needs `Custody`: batches are
  committed rows, and open marks and the current row were delivered; without
  the clauses on `batch` and `pending` the induction has no reason why `Commit`
  marks only delivered rows. `OutboxImplementsReliableDelivery` maps each step
  to a step or a stutter under `Custody`. `RedeliveryExplained` needs `Accounted`:
  with one undisturbed drainer, whatever was delivered is marked or held by its
  transaction, so no batch holds it again. `OlderRowsFirst` needs `OlderFirst`:
  what the SELECT saw and is older than a row still to publish is delivered or
  in the batch, which is where ORDER BY and LIMIT enter.
- **CreateService** (`CreateServiceProofs`, from `ServiceAssumption` and, for
  `AtMostOncePerCaller`, `CallersAssumption`).
  `StoredFirst` carries `Stored`: an event that is tracked, taken or collected
  belongs to a stored aggregate, except for the aggregate its own caller is just
  creating. `OneCallerImplementsPublication` assumes that all callers are equal
  and tracks where the caller's one event can be. `AtMostOncePerCaller` carries `Shares`: what is
  published of an event and the callers that hold it are together no more than the
  callers, and as long as an aggregate still has its event, whoever took it stands before the
  `clear()`, so that nobody has published it and takes it again. Without the second clause a
  caller that has published could be counted as a new holder.
- **ContextGraph** (`ContextGraphProofs`, from `ContextAssumption`).
  `CycleReported` needs that each node on the stack depends on the next;
  `NoneMeansAcyclic` needs that black nodes depend on black ones only and that
  the frames' `todo` account for the rest, so that a set closed under "depends
  on a member" cannot be black. `OutcomeIsRight` combines both.

- **SourceRepairs** (`SourceRepairsProofs`, from `ProjectsAssumption` and `LayoutAssumption`).
  The invariant is `Sorted`: files have the fields of files and a path each, and the
  project is `LaidOut`. `NothingHidden` is not inductive by itself: that a line is found now says
  nothing of where its file goes next. `LaidOut` says of each kind of line where it is, and the two
  halves of the argument are separate. `FitsAccounted`: a line in such a place is
  found, may be there, or is below a directory that ARCH-048 reports. And one lemma per
  repair: what it writes and moves fits where it comes to be, and it takes no context and no
  module away from the files that stay (`KeepsLayout`). The second is what the order of
  repairs could break: a layer without its module is not reported (`Fits` asks for the module),
  so that `OneAggregate` may move an aggregate into a module of its own only because another
  stays, and `SplitEntrypoint` may take an entrypoint away because its parts remain one.
  `GreenMeansClean` is what it comes to: when nothing is found, no line breaks a rule where that
  rule applies.
  For `TypeCorrect`, `PlaceIs` says of every rule what it reports: a file, a directory, or the model
  of a module that has no aggregate. `OneScanReports` rests on `ReportsOnce`: among the starts
  of a chain only the last function reaches the commit, and what that scan has open is
  what encloses the commit in its function. The last function exists because positions
  are well-founded.
  The assumptions are on the project to begin with. Code in a place that no rule knows
  (a file directly in a context, a service that is too long in `domain/`) is outside the theorems, as it is out of
  the code's reach; so is the aggregate of a module named `application`, see above.

- **CheckRun** (`CheckRunProofs`, from `RulesAssumption` and, for `GreenEarned` alone,
  `CoreAssumption`). `Verdict` is the row a rule is to have, from the project and from
  what became of the linter; the invariant `IInv` says at each step which rules have rows
  and that these are their verdicts, that `waivers` are the rules an ADR in force
  names, and that a linter that is trusted told the truth about the rules that
  apply. Without the last, a partial output could pass for a verdict; without the first two,
  the rows the exit code is made of have no tie to the project. `GreenEarned` needs a
  catalog with a core rule: with nothing to scan and `--core`, one without any leaves no
  row, and exit code 0. `WaivedOnlyIfFailed` rests on the checks' rules being disjoint.

- **Units of work** (`UnitOfWorkParityProofs`, from `ParityAssumption`). `ReturnedOnce` needs
  `OneOwner`: an event is on the one aggregate it was raised on until it is returned, and never
  again. `CachedIsCommitted` needs `SessionIsOpen`: what a commit would put into the cache is of
  the block that is open. `MemIsExact` and `SqlIsExact` rest on `MemCourse` and `SqlCourse`, which
  say for each stage of a block where its events are: pending on tracked aggregates, pending on
  objects the session knows and the service holds, in the cache, returned. Each is
  claimed for the habits that keep it true. The runs check the same formulas, and the
  hazards name the habits that break them.

- **CatalogRelease** (`CatalogReleaseProofs`, from `ReleaseAssumption`). Types are proved for
  every maintainer; the policy for those who take snapshots of checked trees, that is, without
  the habit "snapshot first", for which a run shows it broken. `PolicyInv` says that
  snapshots are older than the tree (so that the newest is the one `release-check` compares
  with), that a passed check still holds when the snapshot begins, and that between any
  two snapshots, and from any of them to the tree while it is being copied, a newly
  binding rule costs a major. The last is what makes it inductive over histories in
  which rules are removed and added again, or copied half-way: majors add up.
  `WindowInv` says the same of neighbouring snapshots for the warning and the notes, with what a
  directory holds after each file (`CopiesTree`), and that CI accepts whole snapshots only.
  `PromotionsAreTold` needs besides that a section has the notes of its file unless this is blank
  (`IsNoted`), and no more can be proved: nothing looks into the file.

- **ImportContracts** (`ImportContractsProofs`, from `ContractsAssumption` and
  `LayoutAssumption`). For each rule a lemma: two modules whose import its description
  forbids, and which `IsOverlooked` does not name, are within a pair of packages that a contract of
  `BuildContracts` keeps apart, and neither package contains the other. A direct import of the one by the other is a chain, so
  that this contract breaks, or the linter ends with an error and every rule fails:
  `NothingSlips`. The same lemmas give `SkippedIsVacuous`, since a rule that could be broken
  has a contract and is reported on; for ARCH-011 this takes two files other than `__init__.py`.
  `InwardPasses` follows chains: for each contract there is a
  region (`Encloses`) that holds its sources, that no inward import leads out of, and that meets
  nothing the contract keeps away; and its sources have Python modules, or the run would end with an error. The code
  does not check the latter: a source is a directory, and `NoneIsBare` is the assumption that
  the directories named have a module. `Reached`, import-linter's closure, is the least closed set,
  so that no induction on the length of chains is needed. `LayoutAssumption` says what
  a project looks like: no file is within another or in a directory named like a library, nothing in
  `__pycache__` is a module, and what the check knows by name (`commons`, `commons/types`, `bootstrap`, `entrypoints`, `read`) are
  directories. A file `entrypoints.py`, say, is outside the theorems.

Only model-checked: liveness, which is out of the prover's reach (`EventuallyMarked`,
`DeliveredUpToPoison`, `CommittedReachesBus`, `Terminates` of the context graph and of the check
run, and `Converges`, for which nothing is proved of how often repairs may bring
findings of their own). Every invariant and every action property of the passing runs is proved.

## Not modelled

`docgen.py`, `format_text`, the changelog's layout, `render-importlinter` and the
template's configuration files: text without state. Clock, identity generator and
base types: no state; identities are fresh. The text patterns of the source
rules (a frozen dataclass, a name in the past tense, a banned call) are abstracted to marks, their
scope and everything about places, names and imports is not; of the schema check only its rows
are modelled. `CheckRun` in turn takes which of those apply and are violated as its input. Of
import-linter only what the contracts rely on is modelled: its own bugs are not, and it is taken to see
every Python module below a root, for which it may need the `__init__.py` files ARCH-055 asks for.
Directories without a Python file are in `ImportContracts`, not in `SourceRules`. An empty directory counts
as one that holds some other file.
Where a check finds `lint-imports`, and the temporary file it writes, are left out. Recursion depth of the context search is not bounded. `collect_new_events`
returns a set: the order of an aggregate's events is left out.

## Plan

Done, in this order: outbox, units of work, service, context graph, check run,
releases, import contracts with the project layout, source rules and their repairs; proofs of
outbox, service, context graph, source repairs, check run, units of work, releases and
import contracts.

Next:

1. `CheckRun` takes which import rules apply from `ImportContracts`.
2. `VersionStamp`: `read_stamp` and the drift notice, and their advisory role in
   `CheckRun`.
3. Variants for what terminates: a measure that each step of the context search and of
   `_run_check` decreases, which is the part of `Terminates` that can be proved.
