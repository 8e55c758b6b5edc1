------------------------------ MODULE CheckRun ------------------------------
(***************************************************************************)
(* One run of `arch-standard check` (src/src/arch_standard/cli.py,         *)
(* _run_check): load the rule catalog, read the waivers kept in            *)
(* docs/adr/, let every check report on the rules it claims, add a row for *)
(* the rules nobody claims, keep the core rows when --core was given,      *)
(* soften the waived failures, and turn the rows into an exit code.        *)
(*                                                                         *)
(* The import contracts are decided by import-linter, run as a subprocess  *)
(* that may break down or hang; the other checks read the project's        *)
(* sources themselves and differ only in what they do with a finding.      *)
(* What a check looks for is abstracted to the set of the rules the        *)
(* project violates.                                                       *)
(***************************************************************************)
EXTENDS FiniteSets

CONSTANTS
    Linted,         \* rules ImportContractsCheck claims
    Scanned,        \* rules the AST, banned-symbol, structure and
                    \* context-graph checks claim
    Sketched,       \* rules the schema check claims: a heuristic, never a FAIL
    Reviewed,       \* unclaimed rules whose validation.tool is "review"
    Unimplemented,  \* unclaimed rules that name a tool all the same
    Binding,        \* rules of level MUST or MUST*
    Core,           \* rules of tier core
    Projects        \* the projects, catalogs, waivers and flags a run may meet

Claimed == Linted \cup Scanned \cup Sketched
Rules == Claimed \cup Reviewed \cup Unimplemented

\* The date an ADR's frontmatter gives as `expires`: still to come, past, a
\* timestamp (YAML reads it as a datetime), or a string.
Expiries == {"later", "lapsed", "timestamp", "text"}
Adrs == [waives : Rules, expires : Expiries]

\* rules: the `rules/` directory of the project, when it has one, may be no
\* catalog at all ("foreign"), or one pydantic or the YAML reader rejects.
ProjectType ==
    [scannable : BOOLEAN,
     parses : BOOLEAN,
     rules : {"catalog", "foreign", "malformed"},
     catalog : SUBSET Rules,
     applies : SUBSET Claimed,
     violates : SUBSET Rules,
     adrs : SUBSET Adrs,
     coreOnly : BOOLEAN]

\* No rule is claimed twice, whatever the rest of the tables say.
ASSUME RulesAssumption ==
    /\ Linted \cap (Scanned \cup Sketched \cup Reviewed \cup Unimplemented) = {}
    /\ Scanned \cap (Sketched \cup Reviewed \cup Unimplemented) = {}
    /\ Sketched \cap (Reviewed \cup Unimplemented) = {}
    /\ Reviewed \cap Unimplemented = {}
    /\ Binding \subseteq Rules
    /\ Core \subseteq Rules
    /\ Projects \subseteq ProjectType

\* Every catalog a run meets has a core rule, as the packaged one does.
ASSUME CoreAssumption == \A p \in Projects : p.catalog \cap Core # {}

Outcomes == {"PASS", "FAIL", "WARN", "SKIP", "ERROR", "N/A"}

VARIABLES
    project,    \* the input of the run, read but never written
    step,       \* where _run_check is
    waivers,    \* the rules with an active waiver
    linter,     \* the subprocess: what it printed and how it ended
    rows,       \* the outcome of every rule reported so far
    exit        \* the exit code of the process, or "none" while it runs

vars == <<project, step, waivers, linter, rows, exit>>

NotStarted == [state |-> "not started", covered |-> {}, broken |-> {}]

Steps == {"load", "waivers", "collect", "lint", "contracts", "scan", "sketch",
          "complete", "only", "waive", "exit", "done"}

NoRows == [r \in {} |-> "PASS"]

Init ==
    /\ project \in Projects
    /\ step = "load"
    /\ waivers = {}
    /\ linter = NotStarted
    /\ rows = NoRows
    /\ exit = "none"

-----------------------------------------------------------------------------
(* Ends of the process *)

Exit(code) ==
    /\ step' = "done"
    /\ exit' = code

\* An exception main() does not catch: a traceback, and Python's exit code 1.
Raise == Exit("raised")

GoTo(next) ==
    /\ step' = next
    /\ UNCHANGED exit

-----------------------------------------------------------------------------
(* Catalog and waivers *)

\* Catalog.load: a directory without rules is a CatalogError, exit code 2; a
\* file the YAML reader or the Rule model rejects raises something else.
LoadCatalog ==
    /\ step = "load"
    /\ \/ /\ project.rules = "malformed"
          /\ Raise
       \/ /\ project.rules = "foreign"
          /\ Exit("2")
       \/ /\ project.rules = "catalog"
          /\ GoTo("waivers")
    /\ UNCHANGED <<project, waivers, linter, rows>>

IsActive(adr) == adr.expires = "later"

\* A datetime is a date to isinstance, and cannot be compared with today.
Incomparable(adr) == adr.expires = "timestamp"

ActiveWaivers ==
    /\ step = "waivers"
    /\ IF \E adr \in project.adrs : Incomparable(adr)
       THEN Raise /\ UNCHANGED waivers
       ELSE /\ waivers' = {adr.waives : adr \in {a \in project.adrs : IsActive(a)}}
            /\ GoTo("collect")
    /\ UNCHANGED <<project, linter, rows>>

-----------------------------------------------------------------------------
(* Collecting the rows *)

\* The reports of a check join those of the checks before it.
WithReports(reports) ==
    [r \in DOMAIN reports \cup DOMAIN rows |->
        IF r \in DOMAIN reports THEN reports[r] ELSE rows[r]]

\* With nothing to scan every rule of the catalog is an ERROR.
Collect ==
    /\ step = "collect"
    /\ IF project.scannable
       THEN /\ GoTo("lint")
            /\ UNCHANGED rows
       ELSE /\ rows' = [r \in project.catalog |-> "ERROR"]
            /\ GoTo("only")
    /\ UNCHANGED <<project, waivers, linter>>

OutcomeFor(rule, hasFindings) ==
    IF ~hasFindings THEN "PASS"
    ELSE IF rule \in Binding THEN "FAIL" ELSE "WARN"

StartLinter ==
    /\ step = "lint"
    /\ linter' = [NotStarted EXCEPT !.state = "running"]
    /\ GoTo("contracts")
    /\ UNCHANGED <<project, waivers, rows>>

\* The linter prints one line for each contract build_contracts emitted and
\* exits with 1 when one of them is broken.
LinterFinishes ==
    /\ linter.state = "running"
    /\ LET broken == project.applies \cap Linted \cap project.violates
       IN  linter' = [state |-> IF broken = {} THEN "exited 0" ELSE "exited 1",
                      covered |-> project.applies \cap Linted,
                      broken |-> broken]
    /\ UNCHANGED <<project, step, waivers, rows, exit>>

\* It breaks down before the first of those lines or after some that say KEPT,
\* the breakdowns run() expects. (One cut off after a BROKEN line would be taken
\* for complete.)
LinterDies ==
    /\ linter.state = "running"
    /\ \E printed \in SUBSET (project.applies \cap Linted) :
         /\ printed \cap project.violates = {}
         /\ linter' = [state |-> "exited 1",
                       covered |-> printed,
                       broken |-> {}]
    /\ UNCHANGED <<project, step, waivers, rows, exit>>

\* Mutant: no timeout on the subprocess.
WaitsForEver == FALSE

\* subprocess.run kills the linter after 120 seconds.
LinterTimesOut ==
    /\ linter.state = "running"
    /\ linter' = [linter EXCEPT !.state = "timed out"]
    /\ UNCHANGED <<project, step, waivers, rows, exit>>

\* What makes ImportContractsCheck distrust the run altogether.
DidNotRun ==
    \/ linter.state = "timed out"
    \/ linter.covered = {}
    \/ linter.state = "exited 1" /\ linter.broken = {}

FailAll == [r \in Linted |-> "FAIL"]

ContractRows ==
    [r \in Linted |-> IF r \in linter.covered THEN OutcomeFor(r, r \in linter.broken)
                                              ELSE "SKIP"]

\* catalog.get raises KeyError for a claimed rule a project-local catalog lacks.
ReportContracts ==
    /\ step = "contracts"
    /\ linter.state \notin {"not started", "running"}
    /\ \/ /\ DidNotRun
          /\ rows' = WithReports(FailAll)
          /\ GoTo("scan")
       \/ /\ ~DidNotRun
          /\ linter.covered \subseteq project.catalog
          /\ rows' = WithReports(ContractRows)
          /\ GoTo("scan")
       \/ /\ ~DidNotRun
          /\ ~(linter.covered \subseteq project.catalog)
          /\ Raise
          /\ UNCHANGED rows
    /\ UNCHANGED <<project, waivers, linter>>

\* The checks that walk the sources: a file that does not parse, like a rule
\* the catalog does not know, ends the run with a traceback. (The context
\* graph's rule, alone of them, may not apply: a project of one context.)
ScannedRows ==
    [r \in Scanned |-> IF r \in project.applies THEN OutcomeFor(r, r \in project.violates)
                                                ELSE "SKIP"]

ScanSources ==
    /\ step = "scan"
    /\ IF project.parses /\ Scanned \cap project.applies \subseteq project.catalog
       THEN /\ rows' = WithReports(ScannedRows)
            /\ GoTo("sketch")
       ELSE Raise /\ UNCHANGED rows
    /\ UNCHANGED <<project, waivers, linter>>

\* The schema check: its findings are notes on a SKIP.
SketchedRows ==
    [r \in Sketched |-> IF r \in project.applies \ project.violates THEN "PASS" ELSE "SKIP"]

ReportSchemas ==
    /\ step = "sketch"
    /\ rows' = WithReports(SketchedRows)
    /\ GoTo("complete")
    /\ UNCHANGED <<project, waivers, linter>>

Unclaimed == project.catalog \ DOMAIN rows

ReportUnclaimed ==
    /\ step = "complete"
    /\ rows' = WithReports([r \in Unclaimed |-> IF r \in Reviewed THEN "N/A" ELSE "ERROR"])
    /\ GoTo("only")
    /\ UNCHANGED <<project, waivers, linter>>

-----------------------------------------------------------------------------
(* From the rows to the exit code *)

\* The rules the run answers for.
Scope == IF project.coreOnly THEN project.catalog \cap Core ELSE project.catalog

Only ==
    /\ step = "only"
    /\ rows' = IF project.coreOnly THEN [r \in DOMAIN rows \cap Scope |-> rows[r]]
                                   ELSE rows
    /\ GoTo("waive")
    /\ UNCHANGED <<project, waivers, linter>>

\* Mutants: waivers are ignored; an ERROR can be waived too.
NeverWaived(rule) == FALSE

WaivesErrors(rule) == rows[rule] \in {"FAIL", "ERROR"} /\ rule \in waivers

\* Only a FAIL is waived: an ERROR is the validator's, not the project's.
Waivable(rule) == rows[rule] = "FAIL" /\ rule \in waivers

WithWaivers ==
    /\ step = "waive"
    /\ rows' = [r \in DOMAIN rows |-> IF Waivable(r) THEN "WARN" ELSE rows[r]]
    /\ GoTo("exit")
    /\ UNCHANGED <<project, waivers, linter>>

\* Mutant: an ERROR is no reason to fail the build.
FatalFailures(rule) == rows[rule] = "FAIL" /\ rule \in Binding \cap project.catalog

Fatal(rule) ==
    \/ rows[rule] = "ERROR"
    \/ rows[rule] = "FAIL" /\ rule \in Binding \cap project.catalog

\* Mutant: _run_check falls through without returning the code.
ForgetsTheCode ==
    /\ step = "exit"
    /\ GoTo("done")
    /\ UNCHANGED <<project, waivers, linter, rows>>

\* exit_code; the drift notice printed before it swallows every exception.
ExitCode ==
    /\ step = "exit"
    /\ Exit(IF \E r \in DOMAIN rows : Fatal(r) THEN "1" ELSE "0")
    /\ UNCHANGED <<project, waivers, linter, rows>>

Done ==
    /\ step = "done"
    /\ UNCHANGED vars

RunStep ==
    \/ LoadCatalog
    \/ ActiveWaivers
    \/ Collect
    \/ StartLinter
    \/ LinterTimesOut
    \/ ReportContracts
    \/ ScanSources
    \/ ReportSchemas
    \/ ReportUnclaimed
    \/ Only
    \/ WithWaivers
    \/ ExitCode

Next == RunStep \/ LinterFinishes \/ LinterDies \/ Done

Spec == Init /\ [][Next]_vars

\* The process runs on, and its 120-second timer goes off; nothing obliges
\* the linter itself to end.
FairSpec == Spec /\ WF_vars(RunStep)

-----------------------------------------------------------------------------
(* Properties *)

\* Type invariant: the rows are outcomes of known rules, the waivers are rules
\* of the run's ADRs, and the exit code is there exactly when the run is over.
TypeOK ==
    /\ project \in Projects
    /\ step \in Steps
    /\ waivers \subseteq Rules
    /\ linter \in [state : {"not started", "running", "exited 0", "exited 1", "timed out"},
                   covered : SUBSET Linted, broken : SUBSET Linted]
    /\ linter.broken \subseteq linter.covered
    /\ DOMAIN rows \subseteq Rules
    /\ \A r \in DOMAIN rows : rows[r] \in Outcomes
    /\ exit \in {"none", "0", "1", "2", "raised"}
    /\ (step = "done") <=> (exit # "none")

\* A rule of the project the run really judged and found broken.
Violated(r) == r \in project.applies \cap project.violates \cap (Linted \cup Scanned)

HasActiveWaiver(r) == \E adr \in project.adrs : adr.waives = r /\ adr.expires = "later"

\* exit code 0 is earned (report.py exit_code, through every path before it):
\* there was something to scan, every source parsed, no rule in scope lacks an
\* implementation, and every MUST in scope that the project violates is waived
\* by an ADR still in force, whatever import-linter did meanwhile.
GreenIsEarned ==
    exit = "0" =>
        /\ project.scannable
        /\ project.parses
        /\ Scope \cap Unimplemented = {}
        /\ \A r \in Scope \cap Binding : Violated(r) => HasActiveWaiver(r)

\* exit code 1 without a traceback is never a false alarm: nothing could be
\* scanned, a rule in scope has no implementation, a MUST in scope is violated
\* and not waived, or import-linter was not to be trusted.
RedIsExplained ==
    exit = "1" =>
        \/ ~project.scannable
        \/ Scope \cap Unimplemented # {}
        \/ \E r \in Scope \cap Binding : Violated(r) /\ ~HasActiveWaiver(r)
        \/ DidNotRun

\* Once reported, an outcome is final but for a waiver, which softens a FAIL to
\* a WARN and only for a rule some ADR in force names: an ERROR, the
\* validator's own failure, cannot be waived away (report.py with_waivers).
OnlyFailuresAreWaived ==
    [][\A r \in DOMAIN rows \cap DOMAIN rows' :
          rows'[r] # rows[r] =>
              rows[r] = "FAIL" /\ rows'[r] = "WARN" /\ HasActiveWaiver(r)]_vars

\* import-linter may hang, and the run still ends (import_contracts.py, the
\* timeout of subprocess.run).
Terminates == <>(step = "done")

\* A catalog that cannot be loaded is reported with an exit code of its own,
\* never with the code of "violations found" (cli.py main).
BadCatalogHasItsOwnCode ==
    project.rules # "catalog" /\ exit # "none" => exit = "2"

=============================================================================
