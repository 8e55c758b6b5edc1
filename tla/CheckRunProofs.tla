--------------------------- MODULE CheckRunProofs ---------------------------
(***************************************************************************)
(* Proofs about CheckRun for every catalog and every project: any number   *)
(* of rules of each kind, waivers and violations.                          *)
(***************************************************************************)
EXTENDS CheckRun, TLAPS

\* The row a rule is to have before waivers are applied.
Verdict(r) ==
    IF ~project.scannable THEN "ERROR"
    ELSE IF r \in Linted THEN IF DidNotRun THEN "FAIL" ELSE ContractRows[r]
    ELSE IF r \in Scanned THEN ScannedRows[r]
    ELSE IF r \in Sketched THEN SketchedRows[r]
    ELSE IF r \in Reviewed THEN "N/A" ELSE "ERROR"

\* The rules a complete report has rows for, and those left by --core.
Reported == IF project.scannable THEN Claimed \cup project.catalog ELSE project.catalog

Kept == IF project.coreOnly THEN Reported \cap Scope ELSE Reported

\* The run got to its end without an exception.
Ended == exit \in {"0", "1"}

WaiversRead ==
    step \notin {"load", "waivers", "done"} \/ Ended =>
        \A r \in Rules : r \in waivers <=> HasActiveWaiver(r)

\* The linter runs only while the run waits for it, and what is trusted of it is
\* the truth about the rules that apply.
LinterIsTrue ==
    /\ step \in {"load", "waivers", "collect", "lint"} => linter.state = "not started"
    /\ linter.state = "running" => step = "contracts"
    /\ linter.state \in {"not started", "running"} => linter.covered = {}
    /\ ~DidNotRun =>
           /\ linter.covered = project.applies \cap Linted
           /\ linter.broken = linter.covered \cap project.violates

SourcesParsed ==
    /\ step \in {"lint", "contracts", "scan", "sketch", "complete"} => project.scannable
    /\ step \in {"sketch", "complete", "only", "waive", "exit"} \/ Ended =>
           (project.scannable => project.parses)

\* Which rules have rows by then, and that the rows are right.
RowsAre(rules) == DOMAIN rows = rules /\ \A r \in rules : rows[r] = Verdict(r)

Softened(r) == IF Verdict(r) = "FAIL" /\ r \in waivers THEN "WARN" ELSE Verdict(r)

RowsSoFar ==
    /\ step \in {"load", "waivers", "collect", "lint", "contracts"} => DOMAIN rows = {}
    /\ step = "scan" => RowsAre(Linted)
    /\ step = "sketch" => RowsAre(Linted \cup Scanned)
    /\ step = "complete" => RowsAre(Claimed)
    /\ step = "only" => RowsAre(Reported)
    /\ step = "waive" => RowsAre(Kept)
    /\ step = "exit" \/ Ended => DOMAIN rows = Kept /\ \A r \in Kept : rows[r] = Softened(r)

ExitIsRight == Ended => (exit = "1" <=> \E r \in DOMAIN rows : Fatal(r))

IInv ==
    /\ TypeOK
    /\ WaiversRead
    /\ LinterIsTrue
    /\ SourcesParsed
    /\ RowsSoFar
    /\ ExitIsRight

-----------------------------------------------------------------------------
(* Facts about rows *)

LEMMA KindsAreDisjoint ==
    /\ Linted \cap Scanned = {} /\ Linted \cap Sketched = {} /\ Scanned \cap Sketched = {}
    /\ Claimed \cap Reviewed = {} /\ Claimed \cap Unimplemented = {}
    /\ Reviewed \cap Unimplemented = {}
    /\ Claimed = Linted \cup Scanned \cup Sketched
    /\ Rules = Claimed \cup Reviewed \cup Unimplemented
BY RulesAssumption DEF Claimed, Rules

LEMMA VerdictIsOutcome == ASSUME NEW r PROVE Verdict(r) \in Outcomes
BY DEF Verdict, ContractRows, ScannedRows, SketchedRows, OutcomeFor, Outcomes

\* The verdicts follow from the project and what became of the linter.
LEMMA VerdictStays ==
  ASSUME UNCHANGED <<project, linter>>
  PROVE  /\ \A r : Verdict(r)' = Verdict(r)
         /\ Reported' = Reported /\ Kept' = Kept /\ Scope' = Scope
BY DEF Verdict, DidNotRun, ContractRows, ScannedRows, SketchedRows, OutcomeFor,
       Reported, Kept, Scope

\* Right reports on other rules extend right rows.
LEMMA RowsExtend ==
  ASSUME NEW done, NEW reports, RowsAre(done), DOMAIN reports \cap done = {},
         \A r \in DOMAIN reports : reports[r] = Verdict(r),
         UNCHANGED <<project, linter>>, rows' = WithReports(reports)
  PROVE  RowsAre(done \cup DOMAIN reports)'
BY VerdictStays DEF RowsAre, WithReports

\* Right rows are outcomes of rules.
LEMMA RightRowsAreTyped ==
  ASSUME NEW done \in SUBSET Rules, RowsAre(done)', UNCHANGED <<project, linter>>
  PROVE  DOMAIN rows' \subseteq Rules /\ \A r \in DOMAIN rows' : rows'[r] \in Outcomes
BY VerdictIsOutcome, VerdictStays DEF RowsAre

\* The project is one of those the assumptions speak of.
LEMMA ProjectTyped == ASSUME TypeOK PROVE project \in ProjectType
BY RulesAssumption DEF TypeOK

-----------------------------------------------------------------------------
(* The invariant, action by action *)

\* Until the run is over there is no exit code.
LEMMA NotOver == ASSUME IInv, step # "done" PROVE exit = "none" /\ ~Ended
BY DEF IInv, TypeOK, Ended

LEMMA InitEstablishes == ASSUME Init PROVE IInv
<1>1. step = "load" /\ exit = "none" /\ ~Ended /\ DOMAIN rows = {}
  BY DEF Init, NoRows, Ended
<1>2. linter.state = "not started" /\ linter.covered = {} /\ linter.broken = {}
  BY DEF Init, NotStarted
<1>3. linter \in [state : {"not started", "running", "exited 0", "exited 1", "timed out"},
                  covered : SUBSET Linted, broken : SUBSET Linted]
  BY DEF Init, NotStarted
<1>4. TypeOK
  BY <1>1, <1>2, <1>3 DEF Init, TypeOK, Steps
<1> QED
  BY <1>1, <1>2, <1>4 DEF IInv, WaiversRead, LinterIsTrue, SourcesParsed, RowsSoFar,
                          ExitIsRight, DidNotRun

LEMMA LoadCatalogKeeps == ASSUME IInv, LoadCatalog PROVE IInv'
<1>1. ~Ended' /\ step' \in {"waivers", "done"}
  BY NotOver DEF LoadCatalog, Raise, Exit, GoTo, Ended
<1>2. TypeOK'
  BY DEF LoadCatalog, Raise, Exit, GoTo, IInv, TypeOK, Steps
<1>3. LinterIsTrue'
  BY <1>1 DEF LoadCatalog, IInv, LinterIsTrue, DidNotRun
<1> QED
  BY <1>1, <1>2, <1>3 DEF LoadCatalog, IInv, WaiversRead, SourcesParsed, RowsSoFar, ExitIsRight

LEMMA ActiveWaiversKeeps == ASSUME IInv, ActiveWaivers PROVE IInv'
<1>1. ~Ended' /\ step' \in {"collect", "done"}
  BY NotOver DEF ActiveWaivers, Raise, Exit, GoTo, Ended
<1>2. step' # "done" => waivers' = {adr.waives : adr \in {a \in project.adrs : IsActive(a)}}
  BY DEF ActiveWaivers, Raise, Exit, GoTo
<1>3. \A adr \in project.adrs : adr.waives \in Rules
  BY ProjectTyped DEF IInv, ProjectType, Adrs
<1>4. TypeOK'
  <2>1. waivers' = waivers \/ waivers' = {adr.waives : adr \in {a \in project.adrs : IsActive(a)}}
    BY DEF ActiveWaivers
  <2>2. {adr.waives : adr \in {a \in project.adrs : IsActive(a)}} \subseteq Rules
    BY <1>3
  <2>3. waivers' \subseteq Rules
    BY <2>1, <2>2 DEF IInv, TypeOK
  <2> QED
    BY <2>3 DEF ActiveWaivers, Raise, Exit, GoTo, IInv, TypeOK, Steps
<1>5. WaiversRead'
  BY <1>1, <1>2 DEF ActiveWaivers, WaiversRead, HasActiveWaiver, IsActive
<1>6. LinterIsTrue'
  BY <1>1 DEF ActiveWaivers, IInv, LinterIsTrue, DidNotRun
<1> QED
  BY <1>1, <1>4, <1>5, <1>6 DEF ActiveWaivers, IInv, SourcesParsed, RowsSoFar, ExitIsRight

LEMMA CollectKeeps == ASSUME IInv, Collect PROVE IInv'
<1>1. ~Ended' /\ step' = IF project.scannable THEN "lint" ELSE "only"
  BY NotOver DEF Collect, GoTo, Ended
<1>2. TypeOK'
  BY ProjectTyped DEF Collect, GoTo, IInv, TypeOK, Steps, ProjectType, Outcomes
<1>3. WaiversRead'
  BY <1>1 DEF Collect, IInv, WaiversRead, HasActiveWaiver
<1>4. LinterIsTrue'
  BY <1>1 DEF Collect, IInv, LinterIsTrue, DidNotRun
<1>5. SourcesParsed'
  BY <1>1 DEF Collect, SourcesParsed
<1>6. RowsSoFar'
  BY <1>1 DEF Collect, IInv, RowsSoFar, RowsAre, Reported, Verdict
<1> QED
  BY <1>1, <1>2, <1>3, <1>4, <1>5, <1>6 DEF IInv, ExitIsRight

LEMMA StartLinterKeeps == ASSUME IInv, StartLinter PROVE IInv'
<1>1. ~Ended' /\ step' = "contracts"
  BY NotOver DEF StartLinter, GoTo, Ended
<1>2. TypeOK'
  BY DEF StartLinter, GoTo, IInv, TypeOK, Steps, NotStarted
<1>3. WaiversRead'
  BY <1>1 DEF StartLinter, IInv, WaiversRead, HasActiveWaiver
<1>4. LinterIsTrue'
  BY <1>1 DEF StartLinter, LinterIsTrue, DidNotRun, NotStarted
<1>5. SourcesParsed'
  BY <1>1 DEF StartLinter, IInv, SourcesParsed
<1> QED
  BY <1>1, <1>2, <1>3, <1>4, <1>5 DEF StartLinter, IInv, RowsSoFar, ExitIsRight

\* The linter runs only at "contracts", and what it does changes nothing else.
LEMMA LinterKeeps ==
  ASSUME IInv, LinterFinishes \/ LinterDies \/ LinterTimesOut
  PROVE  IInv'
<1>1. step = "contracts" /\ ~Ended /\ exit = "none"
  BY NotOver DEF IInv, LinterIsTrue, LinterFinishes, LinterDies, LinterTimesOut
<1>2. UNCHANGED <<project, step, waivers, rows, exit>> /\ ~Ended'
  BY <1>1 DEF LinterFinishes, LinterDies, LinterTimesOut, Ended
<1>3. TypeOK' /\ LinterIsTrue'
  <2>1. CASE LinterFinishes
    BY <1>1, <1>2, <2>1 DEF LinterFinishes, IInv, TypeOK, LinterIsTrue, DidNotRun
  <2>2. CASE LinterDies
    <3>1. PICK printed \in SUBSET (project.applies \cap Linted) :
            linter' = [state |-> "exited 1", covered |-> printed, broken |-> {}]
      BY <2>2 DEF LinterDies
    <3>2. linter'.state = "exited 1" /\ linter'.covered \subseteq Linted /\ linter'.broken = {}
      BY <3>1
    <3>3. DidNotRun'
      BY <3>2 DEF DidNotRun
    <3>4. TypeOK'
      BY <1>1, <1>2, <3>1 DEF IInv, TypeOK
    <3> QED
      BY <1>1, <1>2, <3>2, <3>3, <3>4 DEF LinterIsTrue
  <2>3. CASE LinterTimesOut
    BY <1>1, <1>2, <2>3 DEF LinterTimesOut, IInv, TypeOK, LinterIsTrue, DidNotRun
  <2> QED
    BY <2>1, <2>2, <2>3
<1> QED
  BY <1>1, <1>2, <1>3 DEF IInv, WaiversRead, HasActiveWaiver, SourcesParsed, RowsSoFar, ExitIsRight
LEMMA ReportContractsKeeps == ASSUME IInv, ReportContracts PROVE IInv'
<1>1. ~Ended' /\ step' \in {"scan", "done"} /\ step = "contracts"
  BY NotOver DEF ReportContracts, Raise, Exit, GoTo, Ended
<1>2. project.scannable /\ RowsAre({})
  BY <1>1 DEF IInv, SourcesParsed, RowsSoFar, RowsAre
<1>3. step' = "scan" => RowsAre(Linted)'
  <2> SUFFICES ASSUME step' = "scan"
               PROVE  RowsAre(Linted)'
    OBVIOUS
  <2> DEFINE reports == IF DidNotRun THEN FailAll ELSE ContractRows
  <2>1. rows' = WithReports(reports) /\ UNCHANGED <<project, linter>>
    BY DEF ReportContracts, Raise, Exit
  <2>2. DOMAIN reports = Linted /\ \A r \in Linted : reports[r] = Verdict(r)
    BY <1>2 DEF FailAll, ContractRows, Verdict
  <2> HIDE DEF reports
  <2> QED
    BY <1>2, <2>1, <2>2, RowsExtend
<1>4. DOMAIN rows' \subseteq Rules /\ \A r \in DOMAIN rows' : rows'[r] \in Outcomes
  <2>1. CASE step' = "scan"
    BY <1>3, <2>1, KindsAreDisjoint, RightRowsAreTyped DEF ReportContracts
  <2>2. CASE step' # "scan"
    BY <2>2 DEF ReportContracts, GoTo, IInv, TypeOK
  <2> QED
    BY <2>1, <2>2
<1>5. TypeOK'
  BY <1>4 DEF ReportContracts, Raise, Exit, GoTo, IInv, TypeOK, Steps
<1>6. WaiversRead' /\ SourcesParsed'
  BY <1>1 DEF ReportContracts, IInv, WaiversRead, HasActiveWaiver, SourcesParsed
<1>7. LinterIsTrue'
  BY <1>1 DEF ReportContracts, IInv, LinterIsTrue, DidNotRun
<1> QED
  BY <1>1, <1>3, <1>5, <1>6, <1>7 DEF IInv, RowsSoFar, ExitIsRight
LEMMA ScanSourcesKeeps == ASSUME IInv, ScanSources PROVE IInv'
<1>1. ~Ended' /\ step' \in {"sketch", "done"} /\ step = "scan"
  BY NotOver DEF ScanSources, Raise, Exit, GoTo, Ended
<1>2. project.scannable /\ RowsAre(Linted)
  BY <1>1 DEF IInv, SourcesParsed, RowsSoFar
<1>3. step' = "sketch" => project.parses /\ RowsAre(Linted \cup Scanned)'
  <2> SUFFICES ASSUME step' = "sketch"
               PROVE  project.parses /\ RowsAre(Linted \cup Scanned)'
    OBVIOUS
  <2>1. project.parses /\ rows' = WithReports(ScannedRows) /\ UNCHANGED <<project, linter>>
    BY DEF ScanSources, Raise, Exit
  <2>2. DOMAIN ScannedRows = Scanned /\ \A r \in Scanned : ScannedRows[r] = Verdict(r)
    BY <1>2, KindsAreDisjoint DEF ScannedRows, Verdict
  <2> QED
    BY <1>2, <2>1, <2>2, RowsExtend, KindsAreDisjoint
<1>4. DOMAIN rows' \subseteq Rules /\ \A r \in DOMAIN rows' : rows'[r] \in Outcomes
  <2>1. CASE step' = "sketch"
    BY <1>3, <2>1, KindsAreDisjoint, RightRowsAreTyped DEF ScanSources
  <2>2. CASE step' # "sketch"
    BY <2>2 DEF ScanSources, GoTo, IInv, TypeOK
  <2> QED
    BY <2>1, <2>2
<1>5. TypeOK'
  BY <1>4 DEF ScanSources, Raise, Exit, GoTo, IInv, TypeOK, Steps
<1>6. WaiversRead'
  BY <1>1 DEF ScanSources, IInv, WaiversRead, HasActiveWaiver
<1>7. SourcesParsed'
  BY <1>1, <1>2, <1>3 DEF ScanSources, SourcesParsed
<1>8. LinterIsTrue'
  BY <1>1 DEF ScanSources, IInv, LinterIsTrue, DidNotRun
<1> QED
  BY <1>1, <1>3, <1>5, <1>6, <1>7, <1>8 DEF IInv, RowsSoFar, ExitIsRight

LEMMA ReportSchemasKeeps == ASSUME IInv, ReportSchemas PROVE IInv'
<1>1. ~Ended' /\ step' = "complete" /\ step = "sketch"
  BY NotOver DEF ReportSchemas, GoTo, Ended
<1>2. project.scannable /\ RowsAre(Linted \cup Scanned)
  BY <1>1 DEF IInv, SourcesParsed, RowsSoFar
<1>3. RowsAre(Claimed)'
  <2>1. DOMAIN SketchedRows = Sketched /\ \A r \in Sketched : SketchedRows[r] = Verdict(r)
    BY <1>2, KindsAreDisjoint DEF SketchedRows, Verdict
  <2>2. RowsAre((Linted \cup Scanned) \cup Sketched)'
    BY <1>2, <2>1, RowsExtend, KindsAreDisjoint DEF ReportSchemas
  <2> QED
    BY <2>2 DEF Claimed
<1>4. DOMAIN rows' \subseteq Rules /\ \A r \in DOMAIN rows' : rows'[r] \in Outcomes
  BY <1>3, KindsAreDisjoint, RightRowsAreTyped DEF ReportSchemas
<1>5. TypeOK'
  BY <1>4 DEF ReportSchemas, GoTo, IInv, TypeOK, Steps
<1>6. WaiversRead' /\ SourcesParsed'
  BY <1>1, <1>2 DEF ReportSchemas, IInv, WaiversRead, HasActiveWaiver, SourcesParsed
<1>7. LinterIsTrue'
  BY <1>1 DEF ReportSchemas, IInv, LinterIsTrue, DidNotRun
<1> QED
  BY <1>1, <1>3, <1>5, <1>6, <1>7 DEF IInv, RowsSoFar, ExitIsRight

LEMMA ReportUnclaimedKeeps == ASSUME IInv, ReportUnclaimed PROVE IInv'
<1>1. ~Ended' /\ step' = "only" /\ step = "complete"
  BY NotOver DEF ReportUnclaimed, GoTo, Ended
<1>2. project.scannable /\ RowsAre(Claimed)
  BY <1>1 DEF IInv, SourcesParsed, RowsSoFar
<1>3. project.catalog \subseteq Rules
  BY ProjectTyped DEF IInv, ProjectType
<1>4. RowsAre(Reported)'
  <2> DEFINE reports == [r \in Unclaimed |-> IF r \in Reviewed THEN "N/A" ELSE "ERROR"]
  <2>1. Unclaimed = project.catalog \ Claimed
    BY <1>2 DEF Unclaimed, RowsAre
  <2>2. DOMAIN reports = Unclaimed /\ \A r \in Unclaimed : reports[r] = Verdict(r)
    BY <1>2, <2>1, KindsAreDisjoint DEF Verdict
  <2>3. rows' = WithReports(reports) /\ UNCHANGED <<project, linter>>
    BY DEF ReportUnclaimed
  <2> HIDE DEF reports
  <2>4. PICK added : added = Unclaimed
    OBVIOUS
  <2>5. RowsAre(Claimed \cup added)'
    BY <1>2, <2>1, <2>2, <2>3, <2>4, RowsExtend
  <2>6. Reported' = Claimed \cup added
    BY <1>2, <2>1, <2>3, <2>4 DEF Reported
  <2> QED
    BY <2>5, <2>6
<1>5. DOMAIN rows' \subseteq Rules /\ \A r \in DOMAIN rows' : rows'[r] \in Outcomes
  BY <1>3, <1>4, KindsAreDisjoint, RightRowsAreTyped, VerdictStays DEF ReportUnclaimed, Reported
<1>6. TypeOK'
  BY <1>5 DEF ReportUnclaimed, GoTo, IInv, TypeOK, Steps
<1>7. WaiversRead' /\ SourcesParsed'
  BY <1>1 DEF ReportUnclaimed, IInv, WaiversRead, HasActiveWaiver, SourcesParsed
<1>8. LinterIsTrue'
  BY <1>1 DEF ReportUnclaimed, IInv, LinterIsTrue, DidNotRun
<1> QED
  BY <1>1, <1>4, <1>6, <1>7, <1>8 DEF IInv, RowsSoFar, ExitIsRight
LEMMA OnlyKeeps == ASSUME IInv, Only PROVE IInv'
<1>1. ~Ended' /\ step' = "waive" /\ step = "only" /\ RowsAre(Reported)
  BY NotOver DEF Only, GoTo, Ended, IInv, RowsSoFar
<1>2. RowsAre(Kept)'
  <2>1. DOMAIN rows' = Kept /\ \A r \in Kept : rows'[r] = Verdict(r)
    BY <1>1 DEF Only, RowsAre, Kept
  <2> QED
    BY <2>1, VerdictStays DEF Only, RowsAre
<1>3. DOMAIN rows' \subseteq Rules /\ \A r \in DOMAIN rows' : rows'[r] \in Outcomes
  BY DEF Only, IInv, TypeOK
<1>4. TypeOK'
  BY <1>3 DEF Only, GoTo, IInv, TypeOK, Steps
<1>5. WaiversRead' /\ SourcesParsed'
  BY <1>1 DEF Only, IInv, WaiversRead, HasActiveWaiver, SourcesParsed
<1>6. LinterIsTrue'
  BY <1>1 DEF Only, IInv, LinterIsTrue, DidNotRun
<1> QED
  BY <1>1, <1>2, <1>4, <1>5, <1>6 DEF IInv, RowsSoFar, ExitIsRight

LEMMA WithWaiversKeeps == ASSUME IInv, WithWaivers PROVE IInv'
<1>1. ~Ended' /\ step' = "exit" /\ step = "waive" /\ RowsAre(Kept)
  BY NotOver DEF WithWaivers, GoTo, Ended, IInv, RowsSoFar
<1>2. DOMAIN rows' = Kept /\ \A r \in Kept : rows'[r] = Softened(r)
  BY <1>1 DEF WithWaivers, Waivable, RowsAre, Softened
<1>3. RowsSoFar'
  BY <1>1, <1>2, VerdictStays DEF WithWaivers, RowsSoFar, Softened
<1>4. DOMAIN rows' \subseteq Rules /\ \A r \in DOMAIN rows' : rows'[r] \in Outcomes
  BY DEF WithWaivers, Outcomes, IInv, TypeOK
<1>5. TypeOK'
  BY <1>4 DEF WithWaivers, GoTo, IInv, TypeOK, Steps
<1>6. WaiversRead' /\ SourcesParsed'
  BY <1>1 DEF WithWaivers, IInv, WaiversRead, HasActiveWaiver, SourcesParsed
<1>7. LinterIsTrue'
  BY <1>1 DEF WithWaivers, IInv, LinterIsTrue, DidNotRun
<1> QED
  BY <1>1, <1>3, <1>5, <1>6, <1>7 DEF IInv, ExitIsRight

LEMMA ExitCodeKeeps == ASSUME IInv, ExitCode PROVE IInv'
<1>1. step' = "done" /\ step = "exit" /\ exit' \in {"0", "1"} /\ Ended'
  BY DEF ExitCode, Exit, Ended
<1>2. exit' = "1" <=> \E r \in DOMAIN rows : Fatal(r)
  BY DEF ExitCode, Exit
<1>3. ExitIsRight'
  BY <1>2 DEF ExitCode, ExitIsRight, Fatal
<1>4. TypeOK'
  BY <1>1 DEF ExitCode, IInv, TypeOK, Steps
<1>5. WaiversRead' /\ SourcesParsed'
  BY <1>1 DEF ExitCode, IInv, WaiversRead, HasActiveWaiver, SourcesParsed
<1>6. LinterIsTrue'
  BY <1>1 DEF ExitCode, IInv, LinterIsTrue, DidNotRun
<1>7. RowsSoFar'
  BY <1>1, VerdictStays DEF ExitCode, IInv, RowsSoFar, RowsAre, Softened
<1> QED
  BY <1>3, <1>4, <1>5, <1>6, <1>7 DEF IInv

\* A run that is over, like a stutter, changes nothing.
LEMMA StutterKeeps == ASSUME IInv, UNCHANGED vars PROVE IInv'
<1>1. UNCHANGED <<project, step, waivers, linter, rows, exit>> /\ Ended' = Ended
  BY DEF vars, Ended
<1>2. TypeOK' /\ WaiversRead' /\ SourcesParsed'
  BY <1>1 DEF IInv, TypeOK, WaiversRead, HasActiveWaiver, SourcesParsed
<1>3. LinterIsTrue'
  BY <1>1 DEF IInv, LinterIsTrue, DidNotRun
<1>4. RowsSoFar'
  BY <1>1, VerdictStays DEF IInv, RowsSoFar, RowsAre, Softened
<1>5. ExitIsRight'
  BY <1>1 DEF IInv, ExitIsRight, Fatal
<1> QED
  BY <1>2, <1>3, <1>4, <1>5 DEF IInv

LEMMA Invariance == Spec => []IInv
<1>1. ASSUME IInv, [Next]_vars PROVE IInv'
  <2>1. CASE RunStep
    BY <1>1, <2>1, LoadCatalogKeeps, ActiveWaiversKeeps, CollectKeeps, StartLinterKeeps,
       LinterKeeps, ReportContractsKeeps, ScanSourcesKeeps, ReportSchemasKeeps,
       ReportUnclaimedKeeps, OnlyKeeps, WithWaiversKeeps, ExitCodeKeeps DEF RunStep
  <2>2. CASE LinterFinishes \/ LinterDies
    BY <1>1, <2>2, LinterKeeps
  <2>3. CASE Done \/ UNCHANGED vars
    BY <1>1, <2>3, StutterKeeps DEF Done
  <2> QED
    BY <1>1, <2>1, <2>2, <2>3 DEF Next
<1> QED
  BY <1>1, InitEstablishes, PTL DEF Spec

-----------------------------------------------------------------------------
(* What a run's exit code says *)

\* Every state of a run is typed: rows are outcomes of known rules, and the exit
\* code is there exactly when _run_check is over (cli.py).
THEOREM TypeCorrect == Spec => []TypeOK
BY Invariance, PTL DEF IInv

\* A rule that is judged and broken is reported as a failure, whatever became of
\* the linter, and nothing else but an untrusted linter reports one.
LEMMA FailureIsViolation ==
  ASSUME IInv, project.scannable, NEW r \in Binding
  PROVE  /\ Violated(r) => Verdict(r) = "FAIL"
         /\ Verdict(r) = "FAIL" /\ ~DidNotRun => Violated(r)
<1>1. ~DidNotRun => /\ linter.covered = project.applies \cap Linted
                    /\ linter.broken = linter.covered \cap project.violates
  BY DEF IInv, LinterIsTrue
<1>2. CASE r \in Linted
  BY <1>1, <1>2 DEF Violated, Verdict, ContractRows, OutcomeFor
<1>3. CASE r \in Scanned
  BY <1>3, KindsAreDisjoint DEF Violated, Verdict, ScannedRows, OutcomeFor
<1>4. CASE r \notin Linted \cup Scanned
  BY <1>4 DEF Violated, Verdict, SketchedRows
<1> QED
  BY <1>2, <1>3, <1>4

\* The only errors of a run that could scan are rules nobody implements.
LEMMA ErrorIsUnimplemented ==
  ASSUME project.scannable, NEW r \in Rules
  PROVE  Verdict(r) = "ERROR" <=> r \in Unimplemented
<1>1. CASE r \in Claimed
  BY <1>1, KindsAreDisjoint
     DEF Verdict, ContractRows, ScannedRows, SketchedRows, OutcomeFor
<1>2. CASE r \notin Claimed
  BY <1>2, KindsAreDisjoint DEF Verdict
<1> QED
  BY <1>1, <1>2

\* Exit code 0 is earned whatever import-linter did (report.py, exit_code).
LEMMA GreenFollows == ASSUME IInv PROVE GreenIsEarned
<1> SUFFICES ASSUME exit = "0"
             PROVE  /\ project.scannable /\ project.parses
                    /\ Scope \cap Unimplemented = {}
                    /\ \A r \in Scope \cap Binding : Violated(r) => HasActiveWaiver(r)
  BY DEF GreenIsEarned
<1>1. /\ Ended /\ DOMAIN rows = Kept
      /\ \A r \in Kept : rows[r] = Softened(r) /\ ~Fatal(r)
  BY DEF Ended, IInv, RowsSoFar, ExitIsRight
<1>2. Scope \subseteq Kept /\ Scope \subseteq Rules /\ Scope \subseteq project.catalog
  BY ProjectTyped DEF IInv, ProjectType, Kept, Reported, Scope
<1>3. project.scannable
  <2>1. PICK r \in project.catalog \cap Core : TRUE
    BY CoreAssumption DEF IInv, TypeOK
  <2>2. r \in Kept
    BY <1>2 DEF Kept, Reported, Scope
  <2> QED
    BY <1>1, <2>2 DEF Softened, Verdict, Fatal
<1>4. project.parses
  BY <1>1, <1>3 DEF IInv, SourcesParsed
<1>5. Scope \cap Unimplemented = {}
  <2> SUFFICES ASSUME NEW r \in Scope, r \in Unimplemented
               PROVE  FALSE
    OBVIOUS
  <2>1. Softened(r) = "ERROR"
    BY <1>2, <1>3, ErrorIsUnimplemented DEF Softened
  <2> QED
    BY <1>1, <1>2, <2>1 DEF Fatal
<1>6. ASSUME NEW r \in Scope \cap Binding, Violated(r)
      PROVE  HasActiveWaiver(r)
  <2>1. r \in Kept /\ r \in Rules /\ r \in Binding \cap project.catalog /\ Verdict(r) = "FAIL"
    BY <1>2, <1>3, <1>6, FailureIsViolation
  <2>2. r \in waivers
    BY <1>1, <2>1 DEF Softened, Fatal
  <2> QED
    BY <1>1, <2>1, <2>2 DEF IInv, WaiversRead
<1> QED
  BY <1>3, <1>4, <1>5, <1>6

\* Exit code 1 is never a false alarm (report.py, exit_code).
LEMMA RedFollows == ASSUME IInv PROVE RedIsExplained
<1> SUFFICES ASSUME exit = "1", project.scannable, Scope \cap Unimplemented = {}, ~DidNotRun
             PROVE  \E r \in Scope \cap Binding : Violated(r) /\ ~HasActiveWaiver(r)
  BY DEF RedIsExplained
<1>1. /\ Ended /\ DOMAIN rows = Kept /\ \A r \in Kept : rows[r] = Softened(r)
      /\ \E r \in Kept : Fatal(r)
  BY DEF Ended, IInv, RowsSoFar, ExitIsRight
<1>2. PICK r \in Kept : Fatal(r)
  BY <1>1
<1>3. r \in Rules /\ (r \in project.catalog => r \in Scope)
  BY ProjectTyped, KindsAreDisjoint DEF IInv, ProjectType, Kept, Reported, Scope
<1>4. Softened(r) # "ERROR"
  <2> SUFFICES ASSUME Softened(r) = "ERROR"
               PROVE  FALSE
    OBVIOUS
  <2>1. r \in Unimplemented
    BY <1>3, ErrorIsUnimplemented DEF Softened
  <2>2. r \in project.catalog
    BY <2>1, KindsAreDisjoint DEF Kept, Reported, Scope
  <2> QED
    BY <1>3, <2>1, <2>2
<1>5. Softened(r) = "FAIL" /\ r \in Binding \cap project.catalog
  BY <1>1, <1>2, <1>4 DEF Fatal
<1>6. Verdict(r) = "FAIL" /\ r \notin waivers
  BY <1>5 DEF Softened
<1>7. Violated(r)
  BY <1>5, <1>6, FailureIsViolation
<1>8. ~HasActiveWaiver(r)
  BY <1>1, <1>3, <1>6 DEF IInv, WaiversRead
<1> QED
  BY <1>3, <1>5, <1>7, <1>8

\* A run that exits with 0 had something to scan, parsed it, implements every
\* rule in scope, and found no binding rule violated without a waiver in force.
THEOREM GreenEarned == Spec => []GreenIsEarned
BY Invariance, GreenFollows, PTL

\* A run that exits with 1 has a reason: nothing to scan, an unimplemented rule,
\* an unwaived violation, or a linter that could not be trusted.
THEOREM RedExplained == Spec => []RedIsExplained
BY Invariance, RedFollows, PTL

-----------------------------------------------------------------------------
(* Outcomes are final but for a waiver *)

RowsStay == \A r \in DOMAIN rows \cap DOMAIN rows' : rows'[r] = rows[r]

\* Each check reports on rules the checks before it did not, so that no report
\* replaces another, whatever order a later release calls the checks in.
LEMMA ReportsReplaceNone == ASSUME IInv, RunStep, ~WithWaivers PROVE RowsStay
<1>1. CASE Collect \/ ReportContracts
  BY <1>1 DEF Collect, ReportContracts, IInv, RowsSoFar, RowsStay
<1>2. CASE ScanSources
  <2>1. DOMAIN rows = Linted /\ DOMAIN ScannedRows = Scanned
    BY <1>2 DEF ScanSources, ScannedRows, IInv, RowsSoFar, RowsAre
  <2> QED
    BY <1>2, <2>1, KindsAreDisjoint DEF ScanSources, WithReports, RowsStay
<1>3. CASE ReportSchemas
  <2>1. DOMAIN rows = Linted \cup Scanned /\ DOMAIN SketchedRows = Sketched
    BY <1>3 DEF ReportSchemas, SketchedRows, IInv, RowsSoFar, RowsAre
  <2> QED
    BY <1>3, <2>1, KindsAreDisjoint DEF ReportSchemas, WithReports, RowsStay
<1>4. CASE ReportUnclaimed
  BY <1>4 DEF ReportUnclaimed, Unclaimed, WithReports, RowsStay
<1>5. CASE Only
  BY <1>5 DEF Only, RowsStay
<1>6. CASE LoadCatalog \/ ActiveWaivers \/ StartLinter \/ LinterTimesOut \/ ExitCode
  BY <1>6 DEF LoadCatalog, ActiveWaivers, StartLinter, LinterTimesOut, ExitCode, RowsStay
<1> QED
  BY <1>1, <1>2, <1>3, <1>4, <1>5, <1>6 DEF RunStep

\* No step of a run changes a reported outcome, but that of softening a failure
\* some ADR in force waives (report.py, with_waivers).
THEOREM WaivedOnlyIfFailed == Spec => OnlyFailuresAreWaived
<1> DEFINE Softening ==
      \A r \in DOMAIN rows \cap DOMAIN rows' :
         rows'[r] # rows[r] =>
            rows[r] = "FAIL" /\ rows'[r] = "WARN" /\ HasActiveWaiver(r)
<1>1. ASSUME IInv, [Next]_vars PROVE Softening
  <2>1. CASE WithWaivers
    <3>1. \A r \in Rules : r \in waivers <=> HasActiveWaiver(r)
      BY <1>1, <2>1 DEF WithWaivers, IInv, WaiversRead
    <3> QED
      BY <1>1, <2>1, <3>1 DEF WithWaivers, Waivable, IInv, TypeOK
  <2>2. CASE RunStep /\ ~WithWaivers
    BY <1>1, <2>2, ReportsReplaceNone DEF RowsStay
  <2>3. CASE LinterFinishes \/ LinterDies \/ Done \/ UNCHANGED vars
    BY <2>3 DEF LinterFinishes, LinterDies, Done, vars
  <2> QED
    BY <1>1, <2>1, <2>2, <2>3 DEF Next
<1>2. ASSUME IInv, [Next]_vars PROVE [Softening]_vars
  BY <1>1, <1>2
<1>3. Spec => [][Softening]_vars
  BY <1>2, Invariance, PTL DEF Spec
<1> QED
  BY <1>3 DEF OnlyFailuresAreWaived
=============================================================================
