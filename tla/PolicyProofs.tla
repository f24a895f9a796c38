---------------------------- MODULE PolicyProofs ----------------------------
(***************************************************************************)
(* What the repository's policies on its own code add up to: a pass of the *)
(* mutation gate, for any number of packages and files, any concurrency    *)
(* and baselines, however often the tree is edited and commands are        *)
(* interrupted; chains of allowed imports of any length; and accepted role *)
(* files of any number of statements.                                      *)
(***************************************************************************)
EXTENDS MutationGate, ImportRules, RoleFileChecks, FiniteSetTheorems, WellFoundedInduction, TLAPS

-----------------------------------------------------------------------------
ReportContents == UNION {[D -> Statuses] : D \in SUBSET Files}

FileTypes ==
    /\ tree \in [Packages -> Package]
    /\ reports \in [Packages -> {NoReport} \cup {Report(m) : m \in ReportContents}]
    /\ DOMAIN timing \subseteq Packages

RunnerTypes ==
    /\ running \cup queue \cup DOMAIN results \subseteq Packages
    /\ packageConcurrency \in Nat
    /\ Cardinality(running) <= packageConcurrency
    /\ running # {} => phase = "run"

\* What a package's run has told, as long as the tree is what it was run on.
told(p) ==
    (results[p].exitCode = 0 /\ tree[p].script = "stryker") =>
        /\ tree[p].breaks => undetected(p) = {}
        /\ tree[p].json => reports[p] = Report(reported(p))

pastLint == phase \in {"run", "policies", "passed"}

Linted == (pastLint /\ command = "check") => lintPasses

Told == phase \in {"lint", "run", "policies", "passed"} => \A p \in DOMAIN results : told(p)

\* Every package has its turn, and the policies only run when all went well.
AllRun ==
    /\ phase \in {"lint", "run"} => present \subseteq queue \cup running \cup DOMAIN results
    /\ phase \in {"policies", "passed"} => present \subseteq DOMAIN results /\ ~ hasPackageFailure

\* Only reports have been looked at since the runner ended, and none was written.
Healthy ==
    /\ phase \in {"lint", "run"} => DOMAIN codes = {}
    /\ (phase = "policies" /\ "report-health" \in DOMAIN codes) =>
            (codes["report-health"] = 0 => reportHealth)
    /\ phase = "passed" => reportHealth

GInv == FileTypes /\ RunnerTypes /\ Linted /\ Told /\ AllRun /\ Healthy

-----------------------------------------------------------------------------
(***************************************************************************)
(* A package with one edit is a package.                                   *)
(***************************************************************************)
LEMMA ChangedType ==
    ASSUME NEW package \in Package, NEW other \in changed(package)
    PROVE  other \in Package
<1>1. /\ package.mutants \in [Files -> Statuses \cup {NoMutant}]
      /\ package.excluded \in SUBSET Files
  BY DEF Package
<1>2. CASE \E f \in Files : other = [package EXCEPT !.excluded = (@ \cup {f}) \ (@ \cap {f})]
  BY <1>1, <1>2 DEF Package
<1>3. CASE \E f \in Files, s \in Statuses : other = [package EXCEPT !.mutants[f] = s]
  <2>1. PICK f \in Files, s \in Statuses : other = [package EXCEPT !.mutants[f] = s]
    BY <1>3
  <2> DEFINE mutants == [package.mutants EXCEPT ![f] = s]
  <2>2. mutants \in [Files -> Statuses \cup {NoMutant}]
    BY <1>1
  <2>3. other = [package EXCEPT !.mutants = mutants]
    BY <2>1
  <2> HIDE DEF mutants
  <2> QED BY <2>2, <2>3 DEF Package
<1>4. CASE \E s \in {"stryker", "noop", "missing"} : other = [package EXCEPT !.script = s]
  BY <1>4 DEF Package
<1>5. CASE other \in {[package EXCEPT !.present = ~ @], [package EXCEPT !.broad = ~ @],
                      [package EXCEPT !.breaks = ~ @], [package EXCEPT !.json = ~ @]}
  BY <1>5 DEF Package
<1> QED BY <1>2, <1>3, <1>4, <1>5 DEF changed

(***************************************************************************)
(* What the tool reports of a package is a report.                         *)
(***************************************************************************)
LEMMA ReportedType ==
    ASSUME NEW p \in Packages, tree \in [Packages -> Package]
    PROVE  reported(p) \in ReportContents
<1>1. tree[p].mutants \in [Files -> Statuses \cup {NoMutant}]
  BY DEF Package
<1>2. mutated(p) \in SUBSET Files
  BY DEF mutated
<1>3. reported(p) \in [mutated(p) -> Statuses]
  BY <1>1 DEF mutated, reported
<1> QED BY <1>2, <1>3 DEF ReportContents

-----------------------------------------------------------------------------
\* Before the first command nothing has been run.
LEMMA GateInitially == InitGate => GInv
<1> SUFFICES ASSUME InitGate PROVE GInv
  OBVIOUS
<1> USE DEF InitGate
<1>1. FileTypes
  <2>1. \A p \in Packages : tree[p] \in Package
    BY GateAssumption DEF Package, Statuses, Undetected
  <2>2. DOMAIN timing = {}
    BY DEF none
  <2> QED BY <2>1, <2>2 DEF FileTypes
<1>2. RunnerTypes
  <2>1. DOMAIN results = {}
    BY DEF none
  <2>2. Cardinality(running) = 0
    BY FS_EmptySet
  <2>3. packageConcurrency \in Nat
    BY GateAssumption
  <2> QED BY <2>1, <2>2, <2>3 DEF RunnerTypes
<1>3. Linted /\ Told /\ AllRun /\ Healthy
  BY DEF Linted, Told, AllRun, Healthy, pastLint
<1> QED BY <1>1, <1>2, <1>3 DEF GInv

(***************************************************************************)
(* An action that leaves the tree and the reports alone leaves all that is *)
(* said of them as it was.                                                 *)
(***************************************************************************)
LEMMA SameFiles ==
    ASSUME UNCHANGED <<tree, reports>>
    PROVE  /\ present' = present /\ lintPasses' = lintPasses /\ reportHealth' = reportHealth
           /\ \A p : undetected(p)' = undetected(p) /\ reported(p)' = reported(p)
<1>1. present' = present
  BY DEF present
<1>2. lintPasses' = lintPasses
  BY <1>1 DEF lintPasses, noopScripts, missingScripts, badThresholds, mutationScope, strykerConfig
<1>3. reportHealth' = reportHealth
  BY DEF reportHealth, reportPaths, countStatus
<1>4. \A p : undetected(p)' = undetected(p) /\ reported(p)' = reported(p)
  BY DEF undetected, reported, mutated
<1> QED BY <1>1, <1>2, <1>3, <1>4

\* Starting a gate forgets what the last one found.
LEMMA BeginStep ==
    ASSUME GInv, NEW c \in {"check", "mutation"}, Begin(c)
    PROVE  GInv'
<1> USE DEF GInv, Begin
<1>1. present \subseteq Packages
  BY DEF present
<1>2. DOMAIN results' = {}
  BY DEF none
<1>3. RunnerTypes'
  <2>1. Cardinality({}) = 0
    BY FS_EmptySet
  <2>2. packageConcurrency' \in Nat
    BY GateAssumption
  <2> QED BY <1>1, <1>2, <2>1, <2>2 DEF RunnerTypes
<1>4. FileTypes'
  BY DEF FileTypes
<1>5. Linted' /\ Told' /\ Healthy'
  BY <1>2 DEF Linted, Told, Healthy, pastLint, none
<1>6. AllRun'
  BY SameFiles DEF AllRun
<1> QED BY <1>3, <1>4, <1>5, <1>6

\* Past the lint, the tree is one that it passes.
LEMMA LintStep ==
    ASSUME GInv, Lint
    PROVE  GInv'
<1> USE DEF GInv, Lint
<1>1. FileTypes' /\ RunnerTypes'
  BY DEF FileTypes, RunnerTypes
<1>2. Linted'
  BY SameFiles DEF Linted, pastLint
<1>3. Told'
  BY SameFiles DEF Told, told
<1>4. AllRun'
  BY SameFiles DEF AllRun
<1>5. Healthy'
  BY DEF Healthy
<1> QED BY <1>1, <1>2, <1>3, <1>4, <1>5

\* A batch starts packages that had no turn yet.
LEMMA RunBatchStep ==
    ASSUME GInv, RunBatch
    PROVE  GInv'
<1> USE DEF GInv, RunBatch
<1>1. PICK batch \in SUBSET queue :
            /\ Cardinality(batch) = min(packageConcurrency, Cardinality(queue))
            /\ running' = batch
            /\ queue' = queue \ batch
  BY DEF runBatch
<1>2. RunnerTypes'
  <2>1. IsFiniteSet(queue)
    BY GateAssumption, FS_Subset DEF RunnerTypes
  <2>2. Cardinality(queue) \in Nat
    BY <2>1, FS_CardinalityType
  <2>3. Cardinality(batch) <= packageConcurrency
    BY <1>1, <2>2 DEF min, RunnerTypes
  <2> QED BY <1>1, <2>3 DEF RunnerTypes
<1>3. FileTypes'
  BY DEF FileTypes
<1>4. Linted' /\ Told'
  BY SameFiles DEF Linted, Told, told, pastLint
<1>5. AllRun'
  BY <1>1, SameFiles DEF AllRun
<1>6. Healthy'
  BY DEF Healthy
<1> QED BY <1>2, <1>3, <1>4, <1>5, <1>6

(***************************************************************************)
(* A package that is done leaves room for others.                          *)
(***************************************************************************)
LEMMA ExitTypes ==
    ASSUME GInv, NEW p \in Packages, NEW code, NEW elapsed, exits(p, code, elapsed)
    PROVE  RunnerTypes'
<1>1. IsFiniteSet(running)
  BY GateAssumption, FS_Subset DEF GInv, RunnerTypes
<1>2. Cardinality(running) \in Nat /\ Cardinality(running \ {p}) = Cardinality(running) - 1
  BY <1>1, FS_CardinalityType, FS_RemoveElement DEF exits
<1>3. DOMAIN results' = DOMAIN results \cup {p}
  BY DEF exits
<1> QED BY <1>2, <1>3 DEF GInv, RunnerTypes, exits

\* A run that ends says the truth in its report or its exit code.
LEMMA MutateStep ==
    ASSUME GInv, NEW p \in Packages, Mutate(p)
    PROVE  GInv'
<1>1. PICK elapsed \in Durations :
            /\ exits(p, exitCode(p), elapsed)
            /\ reports' = IF tree[p].script = "stryker" /\ tree[p].json
                          THEN [reports EXCEPT ![p] = Report(reported(p))] ELSE reports
  BY DEF Mutate
<1>2. /\ UNCHANGED <<tree, timing, command, phase, packageConcurrency, queue, codes>>
      /\ running' = running \ {p} /\ p \in running
      /\ DOMAIN results' = DOMAIN results \cup {p}
      /\ results'[p] = [exitCode |-> exitCode(p), elapsed |-> elapsed]
      /\ \A q \in DOMAIN results : q # p => results'[q] = results[q]
  BY <1>1 DEF exits
<1>3. DOMAIN reports = Packages
  BY DEF GInv, FileTypes
<1>4. FileTypes'
  <2>1. Report(reported(p)) \in {Report(m) : m \in ReportContents}
    BY ReportedType DEF GInv, FileTypes
  <2>2. reports' \in [Packages -> {NoReport} \cup {Report(m) : m \in ReportContents}]
    BY <1>1, <2>1 DEF GInv, FileTypes
  <2> QED BY <1>2, <2>2 DEF GInv, FileTypes
<1>5. RunnerTypes'
  BY <1>1, ExitTypes
<1>6. present' = present /\ lintPasses' = lintPasses
  BY <1>2 DEF present, lintPasses, noopScripts, missingScripts, badThresholds, mutationScope,
              strykerConfig
<1>7. Linted'
  BY <1>2, <1>6 DEF GInv, Linted, pastLint
<1>8. \A q : undetected(q)' = undetected(q) /\ reported(q)' = reported(q)
  BY <1>2 DEF undetected, reported, mutated
<1>9. Told'
  <2>1. told(p)'
    <3>1. (exitCode(p) = 0 /\ tree[p].script = "stryker" /\ tree[p].breaks) => undetected(p) = {}
      BY DEF exitCode
    <3>2. (tree[p].script = "stryker" /\ tree[p].json) => reports'[p] = Report(reported(p))
      BY <1>1, <1>3
    <3> QED BY <1>2, <1>8, <3>1, <3>2 DEF told
  <2>2. ASSUME NEW q \in DOMAIN results, q # p, told(q) PROVE told(q)'
    <3>1. reports'[q] = reports[q]
      BY <1>1, <1>3, <2>2
    <3> QED BY <1>2, <1>8, <2>2, <3>1 DEF told
  <2> QED BY <1>2, <2>1, <2>2 DEF GInv, Told
<1>10. AllRun' /\ Healthy'
  <2>1. phase = "run"
    BY <1>2 DEF GInv, RunnerTypes
  <2> QED BY <1>2, <1>6, <2>1 DEF GInv, AllRun, Healthy
<1> QED BY <1>4, <1>5, <1>7, <1>9, <1>10 DEF GInv

\* A run that is killed says so by its exit code.
LEMMA BreakDownStep ==
    ASSUME GInv, NEW p \in Packages, BreakDown(p)
    PROVE  GInv'
<1>1. PICK elapsed \in Durations : exits(p, breakdown, elapsed)
  BY DEF BreakDown
<1>2. /\ UNCHANGED <<tree, reports, timing, command, phase, packageConcurrency, queue, codes>>
      /\ running' = running \ {p} /\ p \in running
      /\ DOMAIN results' = DOMAIN results \cup {p}
      /\ results'[p].exitCode = 137
      /\ \A q \in DOMAIN results : q # p => results'[q] = results[q]
  BY <1>1 DEF BreakDown, exits, breakdown
<1>3. FileTypes'
  BY <1>2 DEF GInv, FileTypes
<1>4. RunnerTypes'
  BY <1>1, ExitTypes
<1>5. Linted'
  BY <1>2, SameFiles DEF GInv, Linted, pastLint
<1>6. Told'
  BY <1>2, SameFiles DEF GInv, Told, told
<1>7. AllRun' /\ Healthy'
  <2>1. phase = "run"
    BY <1>2 DEF GInv, RunnerTypes
  <2> QED BY <1>2, <2>1, SameFiles DEF GInv, AllRun, Healthy
<1> QED BY <1>3, <1>4, <1>5, <1>6, <1>7 DEF GInv

\* The summary is written once every package had its turn.
LEMMA SummarizeStep ==
    ASSUME GInv, Summarize
    PROVE  GInv'
<1> USE DEF GInv, Summarize
<1>1. FileTypes' /\ RunnerTypes'
  BY DEF FileTypes, RunnerTypes, timingSummary
<1>2. Linted' /\ Told'
  BY SameFiles DEF Linted, Told, told, pastLint
<1>3. AllRun'
  BY SameFiles DEF AllRun, hasPackageFailure
<1>4. Healthy'
  BY DEF Healthy
<1> QED BY <1>1, <1>2, <1>3, <1>4

\* The health check reads the reports of the runs as they are.
LEMMA ReportHealthStep ==
    ASSUME GInv, RunReportHealth
    PROVE  GInv'
<1> USE DEF GInv, RunReportHealth, ends
<1>1. FileTypes' /\ RunnerTypes'
  BY DEF FileTypes, RunnerTypes
<1>2. Linted' /\ Told'
  BY SameFiles DEF Linted, Told, told, pastLint
<1>3. AllRun'
  BY SameFiles DEF AllRun, hasPackageFailure
<1>4. Healthy'
  <2>1. codes'["report-health"] = IF reportHealth THEN 0 ELSE 1
    OBVIOUS
  <2> QED BY <2>1, SameFiles DEF Healthy
<1> QED BY <1>1, <1>2, <1>3, <1>4

\* The baseline lint leaves its exit code.
LEMMA MutationBaselinesStep ==
    ASSUME GInv, RunMutationBaselines
    PROVE  GInv'
<1> USE DEF GInv, RunMutationBaselines, ends
<1>1. FileTypes' /\ RunnerTypes'
  BY DEF FileTypes, RunnerTypes
<1>2. Linted' /\ Told'
  BY SameFiles DEF Linted, Told, told, pastLint
<1>3. AllRun'
  BY SameFiles DEF AllRun, hasPackageFailure
<1>4. Healthy'
  <2>1. /\ DOMAIN codes' = DOMAIN codes \cup {"mutation-baselines"}
        /\ "report-health" \in DOMAIN codes => codes'["report-health"] = codes["report-health"]
    OBVIOUS
  <2> QED BY <2>1, SameFiles DEF Healthy
<1> QED BY <1>1, <1>2, <1>3, <1>4

\* The verdict is reached.
LEMMA ConcludeStep ==
    ASSUME GInv, Conclude
    PROVE  GInv'
<1> USE DEF GInv, Conclude
<1>1. FileTypes' /\ RunnerTypes'
  BY DEF FileTypes, RunnerTypes
<1>2. Linted' /\ Told'
  BY SameFiles DEF Linted, Told, told, pastLint
<1>3. AllRun'
  BY SameFiles DEF AllRun, hasPackageFailure
<1>4. Healthy'
  BY SameFiles DEF Healthy
<1> QED BY <1>1, <1>2, <1>3, <1>4

(***************************************************************************)
(* A command that was interrupted, and an edit, leave nothing to be said.  *)
(***************************************************************************)
LEMMA NothingUnderWay ==
    ASSUME GInv, phase' \in {"interrupted", "edited"},
           running' = {}, queue' = {}, results' = none, UNCHANGED packageConcurrency
    PROVE  RunnerTypes' /\ Linted' /\ Told' /\ AllRun' /\ Healthy'
<1>1. DOMAIN results' = {}
  BY DEF none
<1>2. Cardinality({}) = 0
  BY FS_EmptySet
<1>3. RunnerTypes'
  BY <1>1, <1>2 DEF GInv, RunnerTypes
<1> QED BY <1>3 DEF Linted, Told, AllRun, Healthy, pastLint

\* A gate that is interrupted claims nothing.
LEMMA InterruptStep ==
    ASSUME GInv, Interrupt
    PROVE  GInv'
<1>1. FileTypes'
  BY DEF GInv, Interrupt, FileTypes
<1> QED BY <1>1, NothingUnderWay DEF GInv, Interrupt

\* The developer edits the tree between commands.
LEMMA EditStep ==
    ASSUME GInv, NEW p \in Packages, Edit(p)
    PROVE  GInv'
<1>1. PICK package \in changed(tree[p]) : tree' = [tree EXCEPT ![p] = package]
  BY DEF Edit
<1>2. package \in Package
  BY ChangedType DEF GInv, FileTypes
<1>3. FileTypes'
  BY <1>1, <1>2 DEF GInv, FileTypes, Edit
<1> QED BY <1>3, NothingUnderWay DEF GInv, Edit

\* Doing nothing keeps the invariant.
LEMMA GateStutters ==
    ASSUME GInv, UNCHANGED gateVars
    PROVE  GInv'
<1> USE DEF GInv, gateVars
<1>1. FileTypes' /\ RunnerTypes'
  BY DEF FileTypes, RunnerTypes
<1>2. Linted' /\ Told' /\ AllRun' /\ Healthy'
  BY SameFiles DEF Linted, Told, told, AllRun, Healthy, pastLint, hasPackageFailure
<1> QED BY <1>1, <1>2

-----------------------------------------------------------------------------
(***************************************************************************)
(* The inductive invariant of the gate: a package whose run ended well has *)
(* told the truth about the tree as it is, by its exit code or its report; *)
(* every package has its turn, and nothing is edited in between.           *)
(***************************************************************************)
THEOREM GateInvariance == SpecGate => []GInv
<1>1. InitGate => GInv
  BY GateInitially
<1>2. GInv /\ [NextGate]_gateVars => GInv'
  <2> SUFFICES ASSUME GInv, [NextGate]_gateVars PROVE GInv'
    OBVIOUS
  <2>1. CASE \E c \in {"check", "mutation"} : Begin(c)
    BY <2>1, BeginStep
  <2>2. CASE Lint
    BY <2>2, LintStep
  <2>3. CASE RunBatch
    BY <2>3, RunBatchStep
  <2>4. CASE \E p \in Packages : Mutate(p)
    BY <2>4, MutateStep
  <2>5. CASE \E p \in Packages : BreakDown(p)
    BY <2>5, BreakDownStep
  <2>6. CASE Summarize
    BY <2>6, SummarizeStep
  <2>7. CASE RunReportHealth
    BY <2>7, ReportHealthStep
  <2>8. CASE RunMutationBaselines
    BY <2>8, MutationBaselinesStep
  <2>9. CASE Conclude
    BY <2>9, ConcludeStep
  <2>10. CASE Interrupt
    BY <2>10, InterruptStep
  <2>11. CASE \E p \in Packages : Edit(p)
    BY <2>11, EditStep
  <2>12. CASE UNCHANGED gateVars
    BY <2>12, GateStutters
  <2> QED BY <2>1, <2>2, <2>3, <2>4, <2>5, <2>6, <2>7, <2>8, <2>9, <2>10, <2>11, <2>12
          DEF NextGate
<1> QED BY <1>1, <1>2, PTL DEF SpecGate

(***************************************************************************)
(* A healthy report has neither a survivor nor an uncovered mutant.        *)
(***************************************************************************)
LEMMA HealthyReport ==
    ASSUME GInv, reportHealth, NEW p \in Packages, reports[p] = Report(reported(p))
    PROVE  undetected(p) = {}
<1> DEFINE with(status) == {f \in DOMAIN reported(p) : reported(p)[f] = status}
<1>1. p \in reportPaths /\ reports[p].mutants = reported(p)
  BY DEF reportPaths, Report, NoReport
<1>2. IsFiniteSet(with("Survived")) /\ IsFiniteSet(with("NoCoverage"))
  <2>1. DOMAIN reported(p) \subseteq Files
    BY DEF reported, mutated
  <2> QED BY <2>1, GateAssumption, FS_Subset
<1>3. with("Survived") = {} /\ with("NoCoverage") = {}
  <2>1. Cardinality(with("Survived")) = 0 /\ Cardinality(with("NoCoverage")) = 0
    BY <1>1 DEF reportHealth, countStatus
  <2> HIDE DEF with
  <2> QED BY <1>2, <2>1, FS_EmptySet
<1> QED BY <1>3 DEF undetected, Undetected, reported

(***************************************************************************)
(* A pass means that every mutant is detected (package.json, scripts).     *)
(***************************************************************************)
THEOREM PassIsDetection == SpecGate => []PassMeansDetected
<1>1. GInv => PassMeansDetected
  <2> SUFFICES ASSUME GInv, phase = "passed", NEW p \in present
               PROVE  /\ command = "check" =>
                            \A f \in Files \ Exempt : tree[p].mutants[f] \notin Undetected
                      /\ tree[p].script = "stryker" /\ (tree[p].breaks \/ tree[p].json) =>
                            undetected(p) = {}
    BY DEF PassMeansDetected
  <2>1. p \in Packages /\ tree[p] \in Package
    BY DEF present, GInv, FileTypes
  <2>2. told(p) /\ results[p].exitCode = 0
    BY DEF GInv, AllRun, Told, hasPackageFailure
  <2>3. tree[p].script = "stryker" /\ (tree[p].breaks \/ tree[p].json) => undetected(p) = {}
    BY <2>1, <2>2, HealthyReport DEF told, GInv, Healthy
  <2>4. ASSUME command = "check", NEW f \in Files \ Exempt
        PROVE  tree[p].mutants[f] \notin Undetected
    <3>1. /\ noopScripts(p) /\ ~ missingScripts(p) /\ ~ badThresholds(p)
          /\ mutationScope(p) /\ strykerConfig(p)
      BY <2>4 DEF GInv, Linted, pastLint, lintPasses
    <3>2. tree[p].script = "stryker" /\ tree[p].breaks
      BY <2>1, <3>1 DEF noopScripts, missingScripts, badThresholds, Package
    <3>3. tree[p].broad /\ f \notin tree[p].excluded
      BY <3>1 DEF mutationScope
    <3>4. f \notin undetected(p)
      BY <2>3, <3>2
    <3> QED BY <3>3, <3>4 DEF undetected, mutated, Undetected, NoMutant
  <2> QED BY <2>3, <2>4
<1> QED BY <1>1, GateInvariance, PTL

(***************************************************************************)
(* No batch is larger than the set package concurrency.                    *)
(***************************************************************************)
THEOREM GateTypes == SpecGate => []GateTypeOK
<1>1. GInv => GateTypeOK
  <2> SUFFICES ASSUME GInv PROVE GateTypeOK
    OBVIOUS
  <2>1. ASSUME NEW p \in reportPaths
        PROVE  /\ DOMAIN reports[p].mutants \subseteq Files
               /\ \A f \in DOMAIN reports[p].mutants : reports[p].mutants[f] \in Statuses
    <3>1. PICK m \in ReportContents : reports[p] = Report(m)
      BY DEF reportPaths, GInv, FileTypes
    <3>2. reports[p].mutants = m
      BY <3>1 DEF Report
    <3> QED BY <3>2 DEF ReportContents
  <2> QED BY <2>1 DEF GateTypeOK, GInv, FileTypes, RunnerTypes
<1> QED BY <1>1, GateInvariance, PTL
-----------------------------------------------------------------------------
(***************************************************************************)
(* Why a command fails.                                                    *)
(***************************************************************************)

\* Every report is of a package that is there and writes one itself.
ownReports == \A p \in reportPaths : tree[p].present /\ tree[p].json /\ tree[p].script # "noop"

hasCause == ownReports => \E p \in present : lacking(p)

\* Only packages that are there are run, and their exit codes are the tool's.
RunnerTold ==
    underWay =>
        /\ queue \cup running \cup DOMAIN results \subseteq present
        /\ \A p \in DOMAIN results : results[p].exitCode \in {breakdown, exitCode(p)}

\* The policies read the timings of this run, and refuse for a cause.
PoliciesTold ==
    phase = "policies" =>
        /\ timing = timingSummary
        /\ \A s \in DOMAIN codes : codes[s] # 0 => hasCause

(***************************************************************************)
(* The inductive invariant of failing, on top of GInv.                     *)
(***************************************************************************)
FInv ==
    /\ phase = "lint" => command = "check"
    /\ RunnerTold /\ PoliciesTold
    /\ phase = "failed" => hasCause

LEMMA CausedFailure == FInv => FailureHasCause
BY DEF FInv, hasCause, ownReports, FailureHasCause

\* What is there and lacking depends on the tree and the run alone.
LEMMA SameCause ==
    ASSUME UNCHANGED <<tree, reports, command, results>>
    PROVE  hasCause' = hasCause /\ present' = present /\ \A p : exitCode(p)' = exitCode(p)
<1>1. \A p : lacking(p)' = lacking(p)
  BY DEF lacking, noopScripts, mutationScope, strykerConfig, missingScripts, undetected, mutated,
         currentViolations, reported, countStatus, tooHigh, isWallTimeRegression
<1>2. present' = present /\ ownReports' = ownReports
  BY DEF present, ownReports, reportPaths
<1>3. \A p : exitCode(p)' = exitCode(p)
  BY DEF exitCode, undetected, mutated
<1> QED BY <1>1, <1>2, <1>3 DEF hasCause

\* The lint refuses a package that lacks what it asks for.
LEMMA LintCause ==
    ASSUME command = "check", ~ lintPasses
    PROVE  hasCause
<1>1. PICK p \in present : ~ (/\ noopScripts(p) /\ ~ missingScripts(p) /\ ~ badThresholds(p)
                              /\ mutationScope(p) /\ strykerConfig(p))
  BY DEF lintPasses
<1>2. lacking(p)
  BY <1>1 DEF lacking, badThresholds, strykerConfig
<1> QED BY <1>2 DEF hasCause

\* A package fails for a mutant that is not detected, or because the tool broke down.
LEMMA PackageCause ==
    ASSUME GInv, RunnerTold, underWay, hasPackageFailure
    PROVE  hasCause
<1>1. PICK p \in DOMAIN results : results[p].exitCode # 0
  BY DEF hasPackageFailure
<1>2. p \in present /\ results[p].exitCode \in {breakdown, exitCode(p)}
  BY DEF RunnerTold
<1>3. exitCode(p) # 0 => missingScripts(p) \/ undetected(p) # {}
  BY DEF exitCode, missingScripts
<1>4. lacking(p)
  BY <1>1, <1>2, <1>3 DEF lacking
<1> QED BY <1>2, <1>4 DEF hasCause

\* A report the policies look at is that of this run, if its package lacks nothing.
LEMMA ReportIsOfThisRun ==
    ASSUME GInv, phase = "policies", ownReports, NEW p \in reportPaths, ~ missingScripts(p)
    PROVE  p \in present /\ p \in DOMAIN results /\ reports[p].mutants = reported(p)
<1>1. p \in present /\ tree[p] \in Package /\ tree[p].json /\ tree[p].script # "noop"
  BY DEF ownReports, reportPaths, present, GInv, FileTypes
<1>2. tree[p].script = "stryker"
  BY <1>1 DEF missingScripts, Package
<1>3. p \in DOMAIN results /\ results[p].exitCode = 0 /\ told(p)
  BY <1>1 DEF GInv, AllRun, Told, hasPackageFailure
<1>4. reports[p] = Report(reported(p))
  BY <1>1, <1>2, <1>3 DEF told
<1> QED BY <1>1, <1>3, <1>4 DEF Report

LEMMA HealthCause ==
    ASSUME GInv, phase = "policies", ~ reportHealth
    PROVE  hasCause
<1> SUFFICES ASSUME ownReports PROVE \E p \in present : lacking(p)
  BY DEF hasCause
<1>1. PICK p \in reportPaths : \/ countStatus(reports[p].mutants, "Survived") # 0
                               \/ countStatus(reports[p].mutants, "NoCoverage") # 0
  BY DEF reportHealth
<1>2. p \in present
  BY DEF ownReports, reportPaths, present
<1>3. CASE missingScripts(p)
  BY <1>2, <1>3 DEF lacking
<1>4. CASE ~ missingScripts(p)
  <2>1. PICK status \in Undetected : countStatus(reported(p), status) # 0
    BY <1>1, <1>4, ReportIsOfThisRun DEF Undetected
  <2>2. {f \in DOMAIN reported(p) : reported(p)[f] = status} # {}
    <3>1. Cardinality({}) = 0
      BY FS_EmptySet
    <3> QED BY <2>1, <3>1 DEF countStatus
  <2>3. undetected(p) # {}
    BY <2>2 DEF undetected, reported
  <2> QED BY <1>2, <2>3 DEF lacking
<1> QED BY <1>3, <1>4

LEMMA BaselineCause ==
    ASSUME GInv, phase = "policies", timing = timingSummary, ~ mutationBaselines
    PROVE  hasCause
<1> SUFFICES ASSUME ownReports PROVE \E p \in present : lacking(p)
  BY DEF hasCause
<1>1. PICK p \in reportPaths :
         ~ (/\ tree[p].present
            /\ p \in DOMAIN Baselines
            /\ ~ currentViolations(p, reports[p].mutants)
            /\ Strict => ~ timingWarnings(p, reports[p].mutants))
  BY DEF mutationBaselines
<1>2. p \in present /\ tree[p].present
  BY DEF ownReports, reportPaths, present
<1>3. CASE missingScripts(p)
  BY <1>2, <1>3 DEF lacking
<1>4. CASE ~ missingScripts(p)
  <2>1. p \in DOMAIN results /\ reports[p].mutants = reported(p)
    BY <1>4, ReportIsOfThisRun
  <2>2. timing[p] = results[p].elapsed
    BY <2>1 DEF timingSummary
  <2>3. timingWarnings(p, reported(p)) =>
           \/ isWallTimeRegression(p, results[p].elapsed)
           \/ countStatus(reported(p), "Timeout") > Baselines[p].timeouts
    BY <2>2 DEF timingWarnings
  <2>4. lacking(p)
    BY <1>1, <1>2, <2>1, <2>3, Zenon DEF lacking
  <2> QED BY <1>2, <2>4
<1> QED BY <1>3, <1>4

-----------------------------------------------------------------------------
\* A policy leaves its exit code, and a cause for it if it is not zero.
LEMMA PolicyStep ==
    ASSUME FInv, NEW script, NEW passes, ends(script, passes), ~ passes => hasCause
    PROVE  FInv'
<1>1. /\ phase = "policies" /\ phase' = "policies"
      /\ DOMAIN codes' = DOMAIN codes \cup {script}
      /\ codes'[script] # 0 => ~ passes
      /\ \A s \in DOMAIN codes : codes'[s] = codes[s]
  BY DEF ends
<1>2. UNCHANGED <<tree, reports, timing, command, queue, running, results>>
  BY DEF ends
<1>3. PoliciesTold'
  <2>1. \A s \in DOMAIN codes' : codes'[s] # 0 => hasCause
    BY <1>1 DEF FInv, PoliciesTold
  <2> QED BY <1>1, <1>2, <2>1, SameCause DEF FInv, PoliciesTold, timingSummary
<1>4. RunnerTold'
  BY <1>1, <1>2, SameCause DEF FInv, RunnerTold, underWay
<1> QED BY <1>1, <1>3, <1>4 DEF FInv

\* A package that ends says what the tool said, or that it broke down.
LEMMA PackageStep ==
    ASSUME GInv, FInv, NEW p \in Packages, Mutate(p) \/ BreakDown(p)
    PROVE  FInv'
<1>1. PICK code \in {breakdown, exitCode(p)}, elapsed \in Durations : exits(p, code, elapsed)
  BY DEF Mutate, BreakDown
<1>2. /\ phase = "run" /\ phase' = "run" /\ p \in running /\ running' \subseteq running
      /\ UNCHANGED <<tree, command, queue>>
      /\ DOMAIN results' = DOMAIN results \cup {p}
      /\ \A q \in DOMAIN results' : IF q = p THEN results'[q].exitCode = code
                                    ELSE results'[q] = results[q]
  BY <1>1 DEF exits, GInv, RunnerTypes
<1>3. present' = present /\ \A q : exitCode(q)' = exitCode(q)
  BY <1>2 DEF present, exitCode, undetected, mutated
<1>4. RunnerTold'
  BY <1>1, <1>2, <1>3 DEF FInv, RunnerTold, underWay
<1> QED BY <1>2, <1>4 DEF FInv, PoliciesTold

LEMMA CauseStep == ASSUME GInv, FInv, [NextGate]_gateVars PROVE FInv'
<1>1. CASE \E c \in {"check", "mutation"} : Begin(c)
  <2>1. DOMAIN results' = {} /\ phase' \in {"lint", "run"} /\ (phase' = "lint" => command' = "check")
    BY <1>1 DEF Begin, none
  <2>2. RunnerTold'
    BY <1>1, <2>1 DEF Begin, RunnerTold, present
  <2> QED BY <2>1, <2>2 DEF FInv, PoliciesTold
<1>2. CASE Lint
  <2>1. UNCHANGED <<tree, reports, timing, command, queue, running, results>>
    BY <1>2 DEF Lint
  <2>2. phase = "lint" /\ phase' \in {"run", "failed"} /\ (phase' = "failed" => ~ lintPasses)
    BY <1>2 DEF Lint
  <2>3. phase' = "failed" => hasCause'
    BY <2>1, <2>2, LintCause, SameCause DEF FInv
  <2>4. RunnerTold'
    BY <2>1, <2>2, SameCause DEF FInv, RunnerTold, underWay
  <2> QED BY <2>2, <2>3, <2>4 DEF FInv, PoliciesTold
<1>3. CASE RunBatch
  <2>1. /\ UNCHANGED <<tree, reports, command, results, phase>>
        /\ phase = "run" /\ running' \cup queue' \subseteq queue
    BY <1>3 DEF RunBatch, runBatch
  <2>2. RunnerTold'
    BY <2>1, SameCause DEF FInv, RunnerTold, underWay
  <2> QED BY <2>1, <2>2 DEF FInv, PoliciesTold
<1>4. CASE \E p \in Packages : Mutate(p) \/ BreakDown(p)
  BY <1>4, PackageStep
<1>5. CASE Summarize
  <2>1. UNCHANGED <<tree, reports, command, queue, running, results, codes>>
    BY <1>5 DEF Summarize
  <2>2. /\ phase = "run" /\ phase' \in {"policies", "failed"}
        /\ phase' = "failed" => hasPackageFailure
    BY <1>5 DEF Summarize
  <2>3. phase' = "failed" => hasCause'
    BY <2>1, <2>2, PackageCause, SameCause DEF FInv, underWay
  <2>4. RunnerTold'
    BY <2>1, <2>2, SameCause DEF FInv, RunnerTold, underWay
  <2>5. DOMAIN codes' = {}
    BY <2>1, <2>2 DEF GInv, Healthy
  <2>6. timing' = timingSummary'
    BY <1>5 DEF Summarize, timingSummary
  <2> QED BY <2>2, <2>3, <2>4, <2>5, <2>6 DEF FInv, PoliciesTold
<1>6. CASE RunReportHealth
  BY <1>6, PolicyStep, HealthCause DEF RunReportHealth, ends
<1>7. CASE RunMutationBaselines
  BY <1>7, PolicyStep, BaselineCause DEF RunMutationBaselines, ends, FInv, PoliciesTold
<1>8. CASE Conclude
  <2>1. UNCHANGED <<tree, reports, command, results>>
    BY <1>8 DEF Conclude
  <2>2. /\ phase = "policies" /\ phase' \in {"passed", "failed"}
        /\ phase' = "failed" => \E s \in DOMAIN codes : codes[s] # 0
    BY <1>8 DEF Conclude
  <2>3. phase' = "failed" => hasCause'
    BY <2>1, <2>2, SameCause DEF FInv, PoliciesTold
  <2> QED BY <2>2, <2>3 DEF FInv, RunnerTold, PoliciesTold, underWay
<1>9. CASE Interrupt \/ \E p \in Packages : Edit(p)
  BY <1>9 DEF Interrupt, Edit, FInv, RunnerTold, PoliciesTold, underWay
<1>10. CASE UNCHANGED gateVars
  BY <1>10, SameCause DEF gateVars, FInv, RunnerTold, PoliciesTold, underWay, timingSummary
<1> QED BY <1>1, <1>2, <1>3, <1>4, <1>5, <1>6, <1>7, <1>8, <1>9, <1>10 DEF NextGate

(***************************************************************************)
(* A command that fails has a cause in the tree as it is or in its own     *)
(* run, and none in a report or a timing an earlier run left on disk,      *)
(* unless that report has outlived its package or stands in for one.       *)
(***************************************************************************)
THEOREM FailureIsCaused == SpecGate => []FailureHasCause
<1>1. InitGate => FInv
  BY DEF InitGate, FInv, RunnerTold, PoliciesTold, underWay
<1>2. GInv /\ FInv /\ [NextGate]_gateVars => FInv'
  BY CauseStep
<1> QED BY GateInvariance, CausedFailure, <1>1, <1>2, PTL DEF SpecGate

-----------------------------------------------------------------------------
(***************************************************************************)
(* The import rules, for chains of any length.  Packages have a height, and *)
(* no import through src goes up.                                          *)
(***************************************************************************)
height(package) ==
    CASE package = "web" -> 5
      [] package = "cli" -> 4
      [] package = "application" -> 3
      [] package = "domain" -> 2
      [] package = "event-sourcing" -> 1
      [] OTHER -> 0

SourcePackages == {"application", "event-sourcing", "cli", "test-support", "domain", "web"}

fileShape(f) ==
    /\ f.area \in {"src", "bin", "test", "npm"}
    /\ f.area = "src" => f.package \in SourcePackages
    /\ f.area = "npm" <=> f.package = "npm"
    /\ f.role \in {"dev", "effectful", "core"} <=> f.area = "npm"
    /\ f.layer = "controls" => isWeb(f, SlicedRoles)
    /\ isWeb(f, SlicedRoles) => f.layer \in {"pages", "controls"}

LEMMA FilesHaveShape ==
    ASSUME NEW f \in SourceFiles
    PROVE  fileShape(f)
<1>1. CASE \E p \in {"application", "event-sourcing", "cli", "test-support"},
              role \in {"public", "deep"} : f = inSrc(p, role)
    BY <1>1 DEF inSrc, File, fileShape, isWeb, isSrcOf, SlicedRoles, SourcePackages
<1>2. CASE \E role \in {"public", "Events", "Identifiers", "deep"} : f = inSrc("domain", role)
    BY <1>2 DEF inSrc, File, fileShape, isWeb, isSrcOf, SlicedRoles, SourcePackages
<1>3. CASE \E role \in {"public", "controller", "server", "routes", "render", "deep"} :
              f = inSrc("web", role)
    BY <1>3 DEF inSrc, File, fileShape, isWeb, isSrcOf, SlicedRoles, SourcePackages
<1>4. CASE \E role \in SlicedRoles, layer \in {"pages", "controls"} : f = File("web", "src", role, layer)
    BY <1>4 DEF File, fileShape, isWeb, isSrcOf, SlicedRoles, SourcePackages
<1>5. CASE \E p \in {"application", "event-sourcing", "cli", "web"} : f = File(p, "bin", "deep", "none")
    BY <1>5 DEF File, fileShape, isWeb, isSrcOf, SlicedRoles, SourcePackages
<1>6. CASE f = File("web", "test", "deep", "none")
    BY <1>6 DEF File, fileShape, isWeb, isSrcOf, SlicedRoles, SourcePackages
<1>7. CASE \E role \in {"effectful", "core", "dev"} : f = File("npm", "npm", role, "none")
    BY <1>7 DEF File, fileShape, isWeb, isSrcOf, SlicedRoles, SourcePackages
<1> QED BY <1>1, <1>2, <1>3, <1>4, <1>5, <1>6, <1>7 DEF SourceFiles

\* No import through src goes to a higher package.
LEMMA ImportsGoDown ==
    ASSUME NEW f, NEW t, NEW kind, fileShape(f), fileShape(t), isSrc(f), isSrc(t),
           ~ forbidden(f, t, kind)
    PROVE  height(t.package) <= height(f.package)
<1>1. ~ layersAbove(f, t)
    BY DEF forbidden, excluded, isSrc
<1>2. f.package \in SourcePackages /\ t.package \in SourcePackages
    BY DEF fileShape, isSrc
<1>3. isProduction(f) /\ f.area = "src" /\ t.area = "src"
    BY DEF isProduction, isSrc
<1>4. CASE f.package = "web"
    BY <1>2, <1>4 DEF height, SourcePackages
<1>5. CASE f.package = "cli"
    BY <1>1, <1>2, <1>3, <1>5 DEF height, SourcePackages, layersAbove, isOwned
<1>6. CASE f.package = "application"
    BY <1>1, <1>2, <1>3, <1>6 DEF height, SourcePackages, layersAbove, isOwned, isSrcOf
<1>7. CASE f.package = "domain"
    BY <1>1, <1>2, <1>3, <1>7 DEF height, SourcePackages, layersAbove, isOwned, isSrcOf
<1>8. CASE f.package = "event-sourcing"
    BY <1>1, <1>2, <1>3, <1>8 DEF height, SourcePackages, layersAbove, isOwned, isSrcOf
<1>9. CASE f.package = "test-support"
    BY <1>1, <1>2, <1>3, <1>9 DEF height, SourcePackages, layersAbove, isOwned, isSrcOf
<1> QED BY <1>2, <1>4, <1>5, <1>6, <1>7, <1>8, <1>9 DEF SourcePackages

LEMMA HeightTellsPackage ==
    ASSUME NEW p \in SourcePackages, NEW q \in SourcePackages, height(p) = height(q)
    PROVE  p = q
BY DEF SourcePackages, height

LEMMA HeightIsNumber == ASSUME NEW p PROVE height(p) \in Nat
BY DEF height

\* What a file of domain or of event-sourcing can get at.
LEMMA DomainImports ==
    ASSUME NEW f, NEW t, NEW kind, fileShape(f), fileShape(t), isSrc(f), isSrcOrNpm(t),
           f.package \in {"domain", "event-sourcing"}, ~ forbidden(f, t, kind)
    PROVE  /\ t.package \in {"domain", "event-sourcing", "npm"}
           /\ t.role = "core" => f.package = "event-sourcing"
<1>1. \/ excluded(t)
      \/ ~ layersAbove(f, t) /\ ~ domainStaysPure(f, t)
    BY DEF forbidden
<1>2. t.area \in {"src", "npm"} /\ f.area = "src"
    BY DEF isSrcOrNpm, isSrc
<1>3. t.package \in {"domain", "event-sourcing", "npm"}
    BY <1>1, <1>2 DEF excluded, layersAbove, isOwned, isSrcOf, fileShape, SourcePackages
<1>4. t.role = "core" => f.package = "event-sourcing"
    BY <1>1, <1>2 DEF excluded, domainStaysPure, isSrcOf
<1> QED BY <1>3, <1>4

\* What the parts of a page can get at.
LEMMA PartImports ==
    ASSUME NEW f, NEW t, NEW kind, fileShape(f), fileShape(t), isMvc(f), isMvc(t),
           ~ forbidden(f, t, kind)
    PROVE  /\ t.role \in {"view", "controller"} => f.role = t.role
           /\ f.role = "model" => t.role = "model"
           /\ f.layer = "controls" => t.layer = "controls"
           /\ f.role = "view" => t.role \in {"view", "model"}
           /\ f.role = "view" /\ t.role = "model" => kind = "type"
<1>1. /\ ~ mvcModelsDoNotImportViews(f, t)
      /\ ~ mvcModelsAreRenderSchemaOnly(f, t)
      /\ ~ mvcViewsImportModelsTypeOnly(f, t, kind)
      /\ ~ mvcViewsImportRenderSurfaceOnly(f, t)
      /\ ~ mvcFactoriesDoNotImportRenderOrIo(f, t)
      /\ ~ mvcControllersDoNotImportViews(f, t)
      /\ ~ webControlsDoNotImportPages(f, t)
    BY DEF forbidden, excluded, isMvc, isWeb, isSrcOf
<1>2. /\ f.role \in {"model", "factory", "view", "controller"}
      /\ t.role \in {"model", "factory", "view", "controller"}
      /\ isSrcOf(f, {"web"}) /\ isSrcOf(t, {"web"})
    BY DEF isMvc, isWeb, SlicedRoles
<1>3. t.role \in {"view", "controller"} => f.role = t.role
    BY <1>1, <1>2 DEF mvcModelsDoNotImportViews, mvcModelsAreRenderSchemaOnly,
          mvcViewsImportRenderSurfaceOnly, mvcFactoriesDoNotImportRenderOrIo,
          mvcControllersDoNotImportViews, isWeb
<1>4. f.role = "model" => t.role = "model"
    BY <1>1, <1>2 DEF mvcModelsDoNotImportViews, mvcModelsAreRenderSchemaOnly, isWeb
<1>5. f.role = "view" => t.role \in {"view", "model"}
    BY <1>1, <1>2 DEF mvcViewsImportRenderSurfaceOnly, isWeb
<1>6. f.role = "view" /\ t.role = "model" => kind = "type"
    BY <1>1, <1>2 DEF mvcViewsImportModelsTypeOnly, isWeb
<1>7. f.layer = "controls" => t.layer = "controls"
    BY <1>1, <1>2 DEF webControlsDoNotImportPages, isWeb, fileShape, SlicedRoles
<1> QED BY <1>3, <1>4, <1>5, <1>6, <1>7

\* A stretch of a chain, all of one sort.
stretch(files, i, j, sort) == i <= j /\ \A k \in i .. j : files[k] \in sort

SrcFiles == {f \in SourceFiles : isSrc(f)}
SrcOrNpmFiles == {f \in SourceFiles : isSrcOrNpm(f)}
PageFiles == {f \in SourceFiles : isMvc(f)}

goesDown(files) ==
    \A i, j \in DOMAIN files :
        stretch(files, i, j, SrcFiles) => height(files[j].package) <= height(files[i].package)

npmComesLast(files) == \A k \in DOMAIN files : k < Len(files) => files[k].area # "npm"

domainIsPure(files) ==
    \A i, j \in DOMAIN files :
        stretch(files, i, j, SrcOrNpmFiles) /\ files[i].package = "domain" =>
            /\ files[j].package \in {"domain", "event-sourcing", "npm"}
            /\ files[j].role = "core" => \E k \in i .. j : files[k].package = "event-sourcing"

\* The second conjunct is what PagePartsInOrder lacks to be inductive.
partsInOrder(files, ofValues) ==
    \A i, j \in DOMAIN files :
        stretch(files, i, j, PageFiles) =>
            /\ files[j].role \in {"view", "controller"} => files[i].role = files[j].role
            /\ files[i].role = "view" => files[j].role \in {"view", "model"}
            /\ files[i].role = "model" => files[j].role = "model"
            /\ files[i].layer = "controls" => files[j].layer = "controls"
            /\ files[i].role = "view" /\ files[j].role = "model" => ~ ofValues

ImportInv ==
    /\ chain.files \in Seq(SourceFiles) /\ chain.ofValues \in BOOLEAN
    /\ goesDown(chain.files)
    /\ npmComesLast(chain.files)
    /\ domainIsPure(chain.files)
    /\ partsInOrder(chain.files, chain.ofValues)

\* A longer chain has the stretches of the shorter one, and those that end at its last file.
LEMMA StretchesOfLonger ==
    ASSUME NEW sort, NEW files \in Seq(SourceFiles), NEW t,
           NEW i \in DOMAIN Append(files, t), NEW j \in DOMAIN Append(files, t),
           stretch(Append(files, t), i, j, sort)
    PROVE  \/ i \in DOMAIN files /\ j \in DOMAIN files /\ stretch(files, i, j, sort)
           \/ i = Len(files) + 1 /\ j = Len(files) + 1
           \/ /\ j = Len(files) + 1 /\ i \in DOMAIN files /\ Len(files) \in DOMAIN files
              /\ stretch(files, i, Len(files), sort)
              /\ files[Len(files)] \in sort /\ t \in sort
<1> DEFINE n == Len(files)
<1>1. /\ n \in Nat /\ DOMAIN files = 1 .. n /\ DOMAIN Append(files, t) = 1 .. n + 1
      /\ \A k \in 1 .. n : Append(files, t)[k] = files[k]
      /\ Append(files, t)[n + 1] = t
    OBVIOUS
<1>2. i \in 1 .. n + 1 /\ j \in 1 .. n + 1 /\ i <= j
      /\ \A k \in i .. j : Append(files, t)[k] \in sort
    BY <1>1 DEF stretch
<1>3. CASE j \in 1 .. n
    <2>1. \A k \in i .. j : k \in 1 .. n
        BY <1>1, <1>2, <1>3
    <2>2. \A k \in i .. j : files[k] \in sort
        BY <1>1, <1>2, <2>1
    <2> QED BY <1>1, <1>2, <1>3, <2>2 DEF stretch
<1>4. CASE j = n + 1 /\ i \in 1 .. n
    <2>1. \A k \in i .. n : k \in 1 .. n /\ k \in i .. j
        BY <1>1, <1>2, <1>4
    <2>2. \A k \in i .. n : files[k] \in sort
        BY <1>1, <1>2, <2>1
    <2>3. n \in i .. n /\ j \in i .. j /\ i <= n /\ n \in 1 .. n
        BY <1>1, <1>4
    <2>4. files[n] \in sort /\ t \in sort
        BY <1>1, <1>2, <1>4, <2>2, <2>3
    <2> QED BY <1>1, <1>4, <2>2, <2>3, <2>4 DEF stretch
<1> QED BY <1>1, <1>2, <1>3, <1>4


LEMMA DownStep ==
    ASSUME NEW files \in Seq(SourceFiles), NEW t \in SourceFiles, NEW kind, files # <<>>,
           goesDown(files), ~ forbidden(files[Len(files)], t, kind)
    PROVE  goesDown(Append(files, t))
<1> DEFINE n == Len(files)
           longer == Append(files, t)
<1>1. /\ n \in Nat \ {0} /\ DOMAIN files = 1 .. n
      /\ \A k \in 1 .. n : longer[k] = files[k] /\ files[k] \in SourceFiles
      /\ longer[n + 1] = t
    OBVIOUS
<1> SUFFICES ASSUME NEW i \in DOMAIN longer, NEW j \in DOMAIN longer,
                    stretch(longer, i, j, SrcFiles)
             PROVE  height(longer[j].package) <= height(longer[i].package)
    BY DEF goesDown
<1>2. CASE i \in DOMAIN files /\ j \in DOMAIN files /\ stretch(files, i, j, SrcFiles)
    BY <1>1, <1>2 DEF goesDown
<1>3. CASE i = n + 1 /\ j = n + 1
    BY <1>3, HeightIsNumber
<1>4. CASE /\ j = n + 1 /\ i \in DOMAIN files /\ n \in DOMAIN files
           /\ stretch(files, i, n, SrcFiles) /\ files[n] \in SrcFiles /\ t \in SrcFiles
    <2>1. height(files[n].package) <= height(files[i].package)
        BY <1>4 DEF goesDown
    <2>2. height(t.package) <= height(files[n].package)
        BY <1>1, <1>4, FilesHaveShape, ImportsGoDown DEF SrcFiles
    <2>3. /\ height(t.package) \in Nat /\ height(files[n].package) \in Nat
          /\ height(files[i].package) \in Nat
        BY HeightIsNumber
    <2>4. longer[i] = files[i] /\ longer[j] = t
        BY <1>1, <1>4
    <2> QED BY <2>1, <2>2, <2>3, <2>4
<1> QED BY <1>2, <1>3, <1>4, StretchesOfLonger

LEMMA PureStep ==
    ASSUME NEW files \in Seq(SourceFiles), NEW t \in SourceFiles, NEW kind, files # <<>>,
           npmComesLast(files), files[Len(files)].area # "npm",
           domainIsPure(files), ~ forbidden(files[Len(files)], t, kind)
    PROVE  domainIsPure(Append(files, t))
<1> DEFINE n == Len(files)
           longer == Append(files, t)
<1>1. /\ n \in Nat \ {0} /\ DOMAIN files = 1 .. n
      /\ \A k \in 1 .. n : longer[k] = files[k] /\ files[k] \in SourceFiles
      /\ longer[n + 1] = t
    OBVIOUS
<1> SUFFICES ASSUME NEW i \in DOMAIN longer, NEW j \in DOMAIN longer,
                    stretch(longer, i, j, SrcOrNpmFiles), longer[i].package = "domain"
             PROVE  /\ longer[j].package \in {"domain", "event-sourcing", "npm"}
                    /\ longer[j].role = "core" =>
                            \E k \in i .. j : longer[k].package = "event-sourcing"
    BY DEF domainIsPure
<1>2. CASE i \in DOMAIN files /\ j \in DOMAIN files /\ stretch(files, i, j, SrcOrNpmFiles)
    <2>1. longer[i] = files[i] /\ longer[j] = files[j] /\ \A k \in i .. j : longer[k] = files[k]
        BY <1>1, <1>2
    <2>2. /\ files[j].package \in {"domain", "event-sourcing", "npm"}
          /\ files[j].role = "core" =>
                    \E k \in i .. j : files[k].package = "event-sourcing"
        BY <1>2, <2>1 DEF domainIsPure
    <2> QED BY <2>1, <2>2
<1>3. CASE i = n + 1 /\ j = n + 1
    <2>1. fileShape(t) /\ t.package = "domain"
        BY <1>1, <1>3, FilesHaveShape
    <2> QED BY <1>1, <1>3, <2>1 DEF fileShape
<1>4. CASE /\ j = n + 1 /\ i \in DOMAIN files /\ n \in DOMAIN files
           /\ stretch(files, i, n, SrcOrNpmFiles)
           /\ files[n] \in SrcOrNpmFiles /\ t \in SrcOrNpmFiles
    <2>1. longer[i] = files[i] /\ longer[j] = t /\ longer[n] = files[n] /\ n \in i .. j
        BY <1>1, <1>4 DEF stretch
    <2>2. files[n].package \in {"domain", "event-sourcing", "npm"}
        BY <1>4, <2>1 DEF domainIsPure
    <2>3. fileShape(files[n]) /\ fileShape(t)
        BY <1>1, <1>4, FilesHaveShape
    <2>4. isSrc(files[n]) /\ isSrcOrNpm(t)
        BY <1>4 DEF SrcOrNpmFiles, isSrcOrNpm, isSrc
    <2>5. files[n].package \in {"domain", "event-sourcing"}
        BY <2>2, <2>3, <2>4 DEF fileShape, isSrc
    <2>6. /\ t.package \in {"domain", "event-sourcing", "npm"}
          /\ t.role = "core" => files[n].package = "event-sourcing"
        BY <2>3, <2>4, <2>5, DomainImports
    <2> QED BY <2>1, <2>6
<1> QED BY <1>2, <1>3, <1>4, StretchesOfLonger

LEMMA OrderStep ==
    ASSUME NEW files \in Seq(SourceFiles), NEW t \in SourceFiles, NEW kind, files # <<>>,
           NEW ofValues \in BOOLEAN,
           partsInOrder(files, ofValues), ~ forbidden(files[Len(files)], t, kind)
    PROVE  partsInOrder(Append(files, t), ofValues /\ kind # "type")
<1> DEFINE n == Len(files)
           longer == Append(files, t)
           stillOfValues == ofValues /\ kind # "type"
           inOrder(f, g, values) ==
            /\ g.role \in {"view", "controller"} => f.role = g.role
            /\ f.role = "view" => g.role \in {"view", "model"}
            /\ f.role = "model" => g.role = "model"
            /\ f.layer = "controls" => g.layer = "controls"
            /\ f.role = "view" /\ g.role = "model" => ~ values
<1>1. /\ n \in Nat \ {0} /\ DOMAIN files = 1 .. n
      /\ \A k \in 1 .. n : longer[k] = files[k] /\ files[k] \in SourceFiles
      /\ longer[n + 1] = t
    OBVIOUS
<1> SUFFICES ASSUME NEW i \in DOMAIN longer, NEW j \in DOMAIN longer,
                    stretch(longer, i, j, PageFiles)
             PROVE  inOrder(longer[i], longer[j], stillOfValues)
    BY DEF partsInOrder
<1>2. CASE i \in DOMAIN files /\ j \in DOMAIN files /\ stretch(files, i, j, PageFiles)
    <2>1. inOrder(files[i], files[j], ofValues)
        BY <1>2 DEF partsInOrder
    <2>2. longer[i] = files[i] /\ longer[j] = files[j]
        BY <1>1, <1>2
    <2> QED BY <2>1, <2>2
<1>3. CASE i = n + 1 /\ j = n + 1
    BY <1>3
<1>4. CASE /\ j = n + 1 /\ i \in DOMAIN files /\ n \in DOMAIN files
           /\ stretch(files, i, n, PageFiles)
           /\ files[n] \in PageFiles /\ t \in PageFiles
    <2>1. inOrder(files[i], files[n], ofValues)
        BY <1>4 DEF partsInOrder
    <2>2. longer[i] = files[i] /\ longer[j] = t
        BY <1>1, <1>4
    <2>3. inOrder(files[n], t, kind # "type")
        BY <1>1, <1>4, FilesHaveShape, PartImports DEF PageFiles
    <2> QED BY <2>1, <2>2, <2>3
<1> QED BY <1>2, <1>3, <1>4, StretchesOfLonger

LEMMA ImportInvInit == InitImports => ImportInv
<1> SUFFICES ASSUME NEW f \in SourceFiles, chain = [files |-> <<f>>, ofValues |-> TRUE]
             PROVE  ImportInv
    BY DEF InitImports
<1>1. /\ chain.files = <<f>> /\ chain.ofValues = TRUE /\ DOMAIN chain.files = {1}
      /\ chain.files[1] = f /\ Len(chain.files) = 1
    OBVIOUS
<1>2. goesDown(chain.files)
    BY <1>1, HeightIsNumber DEF goesDown
<1>3. npmComesLast(chain.files)
    BY <1>1 DEF npmComesLast
<1>4. domainIsPure(chain.files)
    BY <1>1, FilesHaveShape DEF domainIsPure, fileShape
<1>5. partsInOrder(chain.files, chain.ofValues)
    BY <1>1 DEF partsInOrder
<1>6. chain.files \in Seq(SourceFiles) /\ chain.ofValues \in BOOLEAN
    BY <1>1
<1> QED BY <1>2, <1>3, <1>4, <1>5, <1>6 DEF ImportInv

LEMMA ImportInvNext == ImportInv /\ [Import]_chain => ImportInv'
<1> SUFFICES ASSUME ImportInv, [Import]_chain PROVE ImportInv'
    OBVIOUS
<1>1. CASE chain' = chain
    BY <1>1 DEF ImportInv
<1>2. CASE Import
    <2>1. PICK t \in SourceFiles, kind \in Kinds :
            /\ ~ forbidden(Last(chain.files), t, kind)
            /\ chain' = [files |-> Append(chain.files, t),
                         ofValues |-> chain.ofValues /\ kind # "type"]
        BY <1>2 DEF Import
    <2> DEFINE files == chain.files
               longer == Append(files, t)
    <2>2. /\ files \in Seq(SourceFiles) /\ files # <<>>
          /\ files[Len(files)].area # "npm" /\ ~ forbidden(files[Len(files)], t, kind)
        BY <1>2, <2>1 DEF Import, ImportInv, Last
    <2>3. chain'.files = longer /\ chain'.ofValues = (chain.ofValues /\ kind # "type")
        BY <2>1
    <2>4. longer \in Seq(SourceFiles) /\ chain'.ofValues \in BOOLEAN
        BY <2>2, <2>3
    <2>5. goesDown(longer)
        BY <2>2, DownStep DEF ImportInv
    <2>6. npmComesLast(longer)
        BY <2>2 DEF ImportInv, npmComesLast
    <2>7. domainIsPure(longer)
        BY <2>2, PureStep DEF ImportInv
    <2>8. partsInOrder(longer, chain.ofValues /\ kind # "type")
        BY <2>2, OrderStep DEF ImportInv
    <2> QED BY <2>3, <2>4, <2>5, <2>6, <2>7, <2>8, Zenon DEF ImportInv
<1> QED BY <1>1, <1>2

LEMMA LayersFromInv == ImportInv => PackagesAreLayers
<1> SUFFICES ASSUME ImportInv, NEW i \in DOMAIN chain.files, NEW j \in DOMAIN chain.files
             PROVE  /\ leadsTo(i, j, isSrc) /\ at(i).package = at(j).package =>
                            \A k \in i .. j : at(k).package = at(i).package
                    /\ leadsTo(i, j, isSrcOrNpm) /\ at(i).package = "domain" =>
                            /\ at(j).package \in {"domain", "event-sourcing", "npm"}
                            /\ at(j).role = "core" =>
                                    \E k \in i .. j : at(k).package = "event-sourcing"
    BY DEF PackagesAreLayers
<1> DEFINE files == chain.files
<1>1. files \in Seq(SourceFiles) /\ DOMAIN files = 1 .. Len(files) /\ Len(files) \in Nat
    BY DEF ImportInv
<1>2. \A k \in i .. j : k \in DOMAIN files /\ files[k] \in SourceFiles
    BY <1>1
<1>3. ASSUME leadsTo(i, j, isSrc), at(i).package = at(j).package, NEW k \in i .. j
      PROVE  at(k).package = at(i).package
    <2>1. /\ i \in Int /\ j \in Int /\ k \in Int /\ i <= k /\ k <= j
          /\ \A m \in i .. j : files[m] \in SrcFiles
        BY <1>1, <1>2, <1>3 DEF leadsTo, at, SrcFiles
    <2>2. stretch(files, i, k, SrcFiles) /\ stretch(files, k, j, SrcFiles)
        BY <2>1 DEF stretch
    <2>3. /\ height(files[k].package) <= height(files[i].package)
          /\ height(files[j].package) <= height(files[k].package)
        BY <1>2, <2>2 DEF ImportInv, goesDown
    <2>4. /\ height(files[i].package) \in Nat /\ height(files[k].package) \in Nat
          /\ files[i].package = files[j].package
        BY <1>3, HeightIsNumber DEF at
    <2>5. height(files[k].package) = height(files[i].package)
        BY <2>3, <2>4
    <2>6. files[k].package \in SourcePackages /\ files[i].package \in SourcePackages
        BY <1>2, <2>1, FilesHaveShape DEF SrcFiles, fileShape, isSrc
    <2> QED BY <2>5, <2>6, HeightTellsPackage DEF at
<1>4. ASSUME leadsTo(i, j, isSrcOrNpm), at(i).package = "domain"
      PROVE  /\ at(j).package \in {"domain", "event-sourcing", "npm"}
             /\ at(j).role = "core" =>
                    \E k \in i .. j : at(k).package = "event-sourcing"
    <2>1. stretch(files, i, j, SrcOrNpmFiles)
        BY <1>1, <1>2, <1>4 DEF leadsTo, at, SrcOrNpmFiles, stretch
    <2> QED BY <1>4, <2>1 DEF ImportInv, domainIsPure, at
<1> QED BY <1>3, <1>4

LEMMA OrderFromInv == ImportInv => PagePartsInOrder
<1> SUFFICES ASSUME ImportInv, NEW i \in DOMAIN chain.files, NEW j \in DOMAIN chain.files,
                    leadsTo(i, j, isMvc)
             PROVE  /\ at(j).role \in {"view", "controller"} => at(i).role = at(j).role
                    /\ at(i).role = "model" => at(j).role = "model"
                    /\ at(i).layer = "controls" => at(j).layer = "controls"
                    /\ at(i).role = "view" /\ at(j).role = "model" => ~ chain.ofValues
    BY DEF PagePartsInOrder
<1>1. /\ chain.files \in Seq(SourceFiles) /\ DOMAIN chain.files = 1 .. Len(chain.files)
      /\ Len(chain.files) \in Nat
    BY DEF ImportInv
<1>2. stretch(chain.files, i, j, PageFiles)
    BY <1>1 DEF leadsTo, at, PageFiles, stretch
<1> QED BY <1>2 DEF ImportInv, partsInOrder, at

(***************************************************************************)
(* However long a chain of allowed imports through src gets, it never      *)
(* comes back to a package it left, and from domain it gets to a module of *)
(* the platform by way of event-sourcing only: what no single rule says.   *)
(***************************************************************************)
THEOREM LayersHold == SpecImports => []PackagesAreLayers
<1>1. SpecImports => []ImportInv
    BY ImportInvInit, ImportInvNext, PTL DEF SpecImports
<1> QED BY <1>1, LayersFromInv, PTL

(***************************************************************************)
(* However long a chain through the parts of pages gets, no view and no    *)
(* controller is at its end that was not at its beginning, models lead to  *)
(* models, and views lead to models by their types alone.                  *)
(***************************************************************************)
THEOREM PartsStayInOrder == SpecImports => []PagePartsInOrder
<1>1. SpecImports => []ImportInv
    BY ImportInvInit, ImportInvNext, PTL DEF SpecImports
<1> QED BY <1>1, OrderFromInv, PTL

-----------------------------------------------------------------------------
(***************************************************************************)
(* The rule on role files, for files of any number of statements.          *)
(***************************************************************************)
Tags == {"Import", "ExportDefault", "ExportAll", "ExportName", "Declaration"}

\* What the rule relies on of a statement.
statementShape(s) ==
    /\ s.tag \in Tags
    /\ s.tag \in {"ExportAll", "ExportName"} => s.kind \in {"value", "type"}
    /\ s.tag = "Declaration" => s.exported \in BOOLEAN /\ s.form \in Forms
    /\ s.tag = "Import" => s.stem \in {OwnStem, OtherStem, StrangeStem, <<>>}

LEMMA ExportsHaveShape ==
    ASSUME NEW names, NEW s \in Exports(names)
    PROVE  statementShape(s)
BY DEF Exports, ExportDefault, ExportAll, ExportName, statementShape, Tags

LEMMA DeclarationsHaveShape ==
    ASSUME NEW exported \in BOOLEAN, NEW form \in Forms, NEW name, NEW parameter, NEW viewOf,
           NEW of, NEW makes
    PROVE  statementShape(Declaration(exported, form, name, parameter, viewOf, of, makes))
BY DEF Declaration, statementShape, Tags

LEMMA ImportsHaveShape ==
    ASSUME NEW s \in Imports
    PROVE  statementShape(s)
<1> DEFINE stems == {OwnStem, OtherStem, StrangeStem, <<>>}
<1> HIDE DEF stems
<1>1. ASSUME NEW layer, NEW stem \in stems, NEW name, NEW kind
      PROVE  statementShape(ImportOf(layer, stem, name, kind))
    BY <1>1 DEF ImportOf, statementShape, Tags, stems
<1>2. \A m \in Models : m.stem \in stems
    BY DEF Models, OwnModel, OtherModel, Name, stems
<1>3. OwnStem \in stems /\ OtherStem \in stems /\ <<>> \in stems
    BY DEF stems
<1>4. CASE s \in {ImportOf("pages", m.stem, m, kind) : m \in Models, kind \in {"value", "type"}}
    <2>1. \E m \in Models, kind \in {"value", "type"} : s = ImportOf("pages", m.stem, m, kind)
        BY <1>4, SMT
    <2> QED BY <1>1, <1>2, <2>1
<1>5. CASE s \in {ImportOf("pages", OwnStem, OwnModel, "type-specifier"),
                 ImportOf("controls", OwnStem, OwnModel, "value"),
                 ImportOf("pages", OtherStem, OwnModel, "value"),
                 ImportOf("none", <<>>, OwnModel, "type")}
    BY <1>1, <1>3, <1>5, Zenon
<1> QED BY <1>4, <1>5 DEF Imports

LEMMA StatementsHaveShape ==
    ASSUME NEW role \in Roles, NEW s \in Statements[role]
    PROVE  statementShape(s)
<1>1. ASSUME s \in ModelStatements PROVE statementShape(s)
    <2>1. \/ s \in Exports({OwnModel, OtherModel})
          \/ \E exported \in BOOLEAN, n \in {OwnModel, OtherModel}, form \in Forms \ {"typeof", "enum"} :
                s = plain(exported, form, n)
          \/ \E m \in Models : s = Declaration(TRUE, "typeof", OwnModel, "none", NoName, m, NoName)
          \/ \E form \in {"arrow", "function"} : s = plain(TRUE, form, Name(OwnStem, "makeModel"))
        BY <1>1, SMT DEF ModelStatements, plain, Declaration
    <2>2. "typeof" \in Forms /\ {"arrow", "function"} \subseteq Forms
        BY DEF Forms
    <2> QED BY <2>1, <2>2, ExportsHaveShape, DeclarationsHaveShape, Zenon DEF plain
<1>2. ASSUME s \in FactoryStatements PROVE statementShape(s)
    <2>1. \/ s \in Imports \/ s \in Exports({Name(OwnStem, "makeModel")})
          \/ \E exported \in BOOLEAN, form \in {"function", "arrow"}, stem \in {OwnStem, OtherStem},
                of \in {NoName, OwnModel, OtherModel}, makes \in {NoName, OwnModel} :
                s = Declaration(exported, form, Name(stem, "makeModel"), "none", NoName, of, makes)
          \/ \E form \in {"value", "type", "enum"} : s = plain(TRUE, form, Name(OwnStem, "makeModel"))
        BY <1>2, SMT DEF FactoryStatements, plain, Declaration
    <2>2. {"arrow", "function"} \subseteq Forms /\ {"value", "type", "enum"} \subseteq Forms
        BY DEF Forms
    <2>3. CASE \E exported \in BOOLEAN, form \in {"function", "arrow"}, stem \in {OwnStem, OtherStem},
                  of \in {NoName, OwnModel, OtherModel}, makes \in {NoName, OwnModel} :
                    s = Declaration(exported, form, Name(stem, "makeModel"), "none", NoName, of, makes)
        BY <2>2, <2>3, DeclarationsHaveShape
    <2>4. CASE \E form \in {"value", "type", "enum"} : s = plain(TRUE, form, Name(OwnStem, "makeModel"))
        BY <2>2, <2>4, DeclarationsHaveShape, Zenon DEF plain
    <2> QED BY <2>1, <2>3, <2>4, ExportsHaveShape, ImportsHaveShape
<1>3. ASSUME s \in ViewStatements PROVE statementShape(s)
    BY <1>3, ExportsHaveShape, ImportsHaveShape, DeclarationsHaveShape
       DEF ViewStatements, plain, Forms
<1>4. ASSUME s \in ControllerStatements PROVE statementShape(s)
    BY <1>4, ExportsHaveShape, DeclarationsHaveShape DEF ControllerStatements, plain, Forms
<1> QED BY <1>1, <1>2, <1>3, <1>4 DEF Statements, Roles

FileInv ==
    /\ file = [role |-> file.role, layer |-> "pages", stem |-> OwnStem, body |-> file.body]
    /\ file.role \in Roles
    /\ file.stem = OwnStem
    /\ file.body \in Seq(Statements[file.role])

LEMMA LeastElement ==
    ASSUME NEW S, S \subseteq Nat, S # {}
    PROVE  \E m \in S : \A k \in S : m <= k
<1> DEFINE less == {p \in Nat \X Nat : p[1] < p[2]}
<1>1. IsWellFoundedOn(less, Nat)
    BY ONLY NatLessThanWellFounded, SMT DEF OpToRel
<1>2. PICK m \in S : \A k \in S : ~ (<<k, m>> \in less)
    BY <1>1, WFMin, Zenon
<1> HIDE DEF less
<1>3. ASSUME NEW k \in S PROVE m <= k
    <2>1. <<k, m>> \notin less /\ k \in Nat /\ m \in Nat
        BY <1>2
    <2> QED BY <2>1 DEF less
<1> QED BY <1>3

LEMMA FirstIsMember ==
    ASSUME NEW S, S \subseteq Nat, S # {}
    PROVE  Min(S) \in S /\ \A k \in S : Min(S) <= k
BY LeastElement, Zenon DEF Min

-----------------------------------------------------------------------------
\* What is true of a file of each role that the rule says nothing of.
goodModel(f) ==
    LET own == Name(f.stem, "Model")
    IN  /\ \E i \in DOMAIN f.body : exportedSchema(f.body[i]) /\ f.body[i].name = own
        /\ \E i \in DOMAIN f.body : /\ exportedModelType(f.body[i]) /\ f.body[i].name = own
                                    /\ f.body[i].of = own
        /\ \A i \in DOMAIN f.body : ~ exportedFactory(f.body[i])
        /\ \A i \in DOMAIN f.body : exportedSchema(f.body[i]) => f.body[i].name = own

goodFactory(f) ==
    /\ Cardinality(ownedFactoryBindings(f)) = 1
    /\ importsOwnedModel(f)
    /\ programCallsOwnedConstructor(f)
    /\ \A i \in DOMAIN f.body : reportBinding(f.body[i], Name(f.stem, "Model")) = {}

goodView(f) ==
    LET view == f.body[Min(ownedViews(f))]
    IN  /\ \A i \in DOMAIN f.body : ~ exportsType(f.body[i])
        /\ Cardinality(ownedViews(f)) = 1
        /\ view.parameter = "model"
        /\ viewTypeModelName(view) # NoName
        /\ validModelImport(f, viewTypeModelName(view))
        /\ \E i \in DOMAIN f.body : exportsName(f.body[i], view.name)

goodController(f) ==
    /\ Cardinality(having(f, isController)) = 1
    /\ \A i \in DOMAIN f.body : exportedBinding(f.body[i]) => isController(f.body[i])

LEMMA ModelVerdict == ASSUME NEW f PROVE modelMessages(f) = {} <=> goodModel(f)
BY DEF modelMessages, messageIf, some, having, stemOwnership, goodModel

LEMMA FactoryVerdict == ASSUME NEW f PROVE factoryMessages(f) = {} <=> goodFactory(f)
BY DEF factoryMessages, messageIf, stemOwnership, goodFactory

LEMMA ViewVerdict == ASSUME NEW f PROVE viewMessages(f) = {} <=> goodView(f)
<1> DEFINE view == f.body[Min(ownedViews(f))]
<1>1. viewMessages(f) = {} <=> (\A i \in DOMAIN f.body : ~ exportsType(f.body[i])) /\ viewFault(f) = {}
    BY DEF viewMessages, messageIf, some, having
<1>2. viewFault(f) = {} <=>
            /\ Cardinality(ownedViews(f)) = 1
            /\ view.parameter = "model"
            /\ viewTypeModelName(view) # NoName
            /\ validModelImport(f, viewTypeModelName(view))
            /\ some(f, LAMBDA s : exportsName(s, view.name))
    BY DEF viewFault, messageIf
<1>3. some(f, LAMBDA s : exportsName(s, view.name)) <=>
            \E i \in DOMAIN f.body : exportsName(f.body[i], view.name)
    BY DEF some, having
<1> QED BY <1>1, <1>2, <1>3, Zenon DEF goodView

LEMMA ControllerVerdict == ASSUME NEW f PROVE controllerMessages(f) = {} <=> goodController(f)
BY DEF controllerMessages, messageIf, some, having, goodController

LEMMA Verdict ==
    ASSUME NEW f
    PROVE  /\ f.role = "model" => (accepted(f) <=> goodModel(f))
           /\ f.role = "factory" => (accepted(f) <=> goodFactory(f))
           /\ f.role = "view" => (accepted(f) <=> goodView(f))
           /\ f.role = "controller" => (accepted(f) <=> goodController(f))
BY ModelVerdict, FactoryVerdict, ViewVerdict, ControllerVerdict DEF accepted, check, Roles

\* What can be imported by a statement, sort by sort.
LEMMA VisibleBySort ==
    ASSUME NEW s, statementShape(s)
    PROVE  /\ s.tag = "Import" => visible(s) = {}
           /\ s.tag = "ExportDefault" => visible(s) = {"value"}
           /\ s.tag \in {"ExportAll", "ExportName"} => visible(s) = {s.kind}
           /\ s.tag = "Declaration" /\ ~ s.exported => visible(s) = {}
           /\ s.tag = "Declaration" /\ s.exported =>
                /\ visible(s) # {}
                /\ "value" \in visible(s) <=> s.form \in Forms \ {"typeof", "type"}
                /\ "type" \in visible(s) <=> s.form \in {"typeof", "type", "enum"}
<1>1. s.tag \in Tags /\ (s.tag = "Declaration" => s.exported \in BOOLEAN /\ s.form \in Forms)
    BY DEF statementShape
<1>2. CASE s.tag \in {"Import", "ExportDefault", "ExportAll", "ExportName"}
    BY <1>2 DEF visible
<1>3. CASE s.tag = "Declaration" /\ s.exported
    <2>1. visible(s) = meanings(s)
        BY <1>3 DEF visible
    <2>2. meanings(s) = IF s.form = "enum" THEN {"value", "type"}
                        ELSE IF s.form \in {"typeof", "type"} THEN {"type"} ELSE {"value"}
        BY <1>3 DEF meanings
    <2>3. s.form \in Forms
        BY <1>1, <1>3
    <2> QED BY <1>3, <2>1, <2>2, <2>3
<1>4. CASE s.tag = "Declaration" /\ ~ s.exported
    BY <1>4 DEF visible
<1> QED BY <1>1, <1>2, <1>3, <1>4 DEF Tags

\* The statements of a file that is written.
LEMMA BodiesHaveShape ==
    ASSUME FileInv
    PROVE  /\ Len(file.body) \in Nat /\ DOMAIN file.body = 1 .. Len(file.body)
           /\ \A i \in DOMAIN file.body : statementShape(file.body[i])
<1>1. file.body \in Seq(Statements[file.role]) /\ file.role \in Roles
    BY DEF FileInv
<1>2. Len(file.body) \in Nat /\ DOMAIN file.body = 1 .. Len(file.body)
      /\ \A i \in DOMAIN file.body : file.body[i] \in Statements[file.role]
    BY <1>1
<1> QED BY <1>1, <1>2, StatementsHaveShape

body == {file.body[i] : i \in DOMAIN file.body}

LEMMA ModelsOwnTheirSchema ==
    ASSUME FileInv, file.role = "model", accepted(file)
    PROVE  /\ \A s \in body : "value" \in visible(s) /\ s.tag = "Declaration" =>
                    s.form # "function" /\ (s.form = "schema" => s.name = OwnModel)
           /\ \E s \in body : /\ s.tag = "Declaration" /\ s.form = "schema" /\ visible(s) # {}
                              /\ s.name = OwnModel
           /\ \E s \in body : /\ s.tag = "Declaration" /\ s.form = "typeof" /\ visible(s) # {}
                              /\ s.name = OwnModel
<1>1. goodModel(file) /\ Name(file.stem, "Model") = OwnModel
    BY Verdict DEF FileInv, OwnModel
<1>2. ASSUME NEW s \in body, "value" \in visible(s), s.tag = "Declaration"
      PROVE  s.form # "function" /\ (s.form = "schema" => s.name = OwnModel)
    <2>1. PICK i \in DOMAIN file.body : s = file.body[i]
        BY DEF body
    <2>2. statementShape(s)
        BY <2>1, BodiesHaveShape
    <2>3. s.exported
        BY <1>2, <2>2, VisibleBySort DEF statementShape
    <2>4. ~ exportedFactory(s) /\ (exportedSchema(s) => s.name = OwnModel)
        BY <1>1, <2>1 DEF goodModel
    <2> QED BY <1>2, <2>3, <2>4 DEF exportedFactory, exportedSchema, exports, declares
<1>3. ASSUME NEW i \in DOMAIN file.body, exportedSchema(file.body[i]) \/ exportedModelType(file.body[i])
      PROVE  /\ file.body[i] \in body /\ file.body[i].tag = "Declaration"
             /\ visible(file.body[i]) # {}
    <2>1. statementShape(file.body[i])
        BY BodiesHaveShape
    <2>2. file.body[i].tag = "Declaration" /\ file.body[i].exported
        BY <1>3 DEF exportedSchema, exportedModelType, exports, declares
    <2> QED BY <2>1, <2>2, VisibleBySort DEF body
<1>4. \E s \in body : s.tag = "Declaration" /\ s.form = "schema" /\ visible(s) # {} /\ s.name = OwnModel
    <2>1. PICK i \in DOMAIN file.body : exportedSchema(file.body[i]) /\ file.body[i].name = OwnModel
        BY <1>1 DEF goodModel
    <2>2. file.body[i].form = "schema"
        BY <2>1 DEF exportedSchema, exports, declares
    <2> QED BY <1>3, <2>1, <2>2
<1>5. \E s \in body : s.tag = "Declaration" /\ s.form = "typeof" /\ visible(s) # {} /\ s.name = OwnModel
    <2>1. PICK i \in DOMAIN file.body : exportedModelType(file.body[i]) /\ file.body[i].name = OwnModel
        BY <1>1 DEF goodModel
    <2>2. file.body[i].form = "typeof"
        BY <2>1 DEF exportedModelType, exports, declares
    <2> QED BY <1>3, <2>1, <2>2
<1> QED BY <1>2, <1>4, <1>5

\* What is shown by a factory file is a function, or the rule says something.
LEMMA BindingsOfFactories ==
    ASSUME NEW s, statementShape(s), NEW modelName, visible(s) # {}, reportBinding(s, modelName) = {}
    PROVE  s.tag = "Declaration" /\ s.form \in {"function", "arrow"} /\ s.of = modelName
<1>1. bindingKind(s) # "none"
    BY VisibleBySort DEF bindingKind, exports, declares, statementShape, Tags, Forms, Variables
<1>2. isExportedFunction(s) /\ s.of = modelName
    BY <1>1 DEF reportBinding, messageIf
<1>3. \/ bindingKind(s) = "function"
      \/ bindingKind(s) = "variable" /\ s.form = "arrow"
    BY <1>2 DEF isExportedFunction
<1>4. s.tag = "Declaration"
    BY <1>3 DEF bindingKind, exports, declares, statementShape, Tags
<1>5. s.form \in {"function", "arrow"}
    BY <1>3, <1>4 DEF bindingKind, exports, declares, Variables
<1> QED BY <1>2, <1>4, <1>5

LEMMA FactoriesOwnTheirMaker ==
    ASSUME FileInv, file.role = "factory", accepted(file)
    PROVE  /\ \E s \in body : /\ s.tag = "Declaration" /\ s.form \in {"function", "arrow"}
                              /\ visible(s) # {} /\ s.name = Name(OwnStem, "makeModel")
           /\ \A s \in body : visible(s) # {} =>
                    s.tag = "Declaration" /\ s.form \in {"function", "arrow"} /\ s.of = OwnModel
<1>1. goodFactory(file) /\ file.stem = OwnStem /\ Name(file.stem, "Model") = OwnModel
    BY Verdict DEF FileInv, OwnModel
<1>2. ASSUME NEW s \in body, visible(s) # {}
      PROVE  s.tag = "Declaration" /\ s.form \in {"function", "arrow"} /\ s.of = OwnModel
    <2>1. PICK i \in DOMAIN file.body : s = file.body[i]
        BY DEF body
    <2> QED BY <1>1, <1>2, <2>1, BodiesHaveShape, BindingsOfFactories DEF goodFactory
<1>3. \E s \in body : /\ s.tag = "Declaration" /\ s.form \in {"function", "arrow"}
                      /\ visible(s) # {} /\ s.name = Name(OwnStem, "makeModel")
    <2>1. ownedFactoryBindings(file) # {}
        BY <1>1, FS_EmptySet DEF goodFactory
    <2>2. PICK i \in DOMAIN file.body :
                /\ bindingKind(file.body[i]) \in {"function", "variable"}
                /\ file.body[i].name = Name(OwnStem, "makeModel")
        BY <1>1, <2>1 DEF ownedFactoryBindings, having, stemOwnership
    <2> DEFINE s == file.body[i]
    <2>3. statementShape(s)
        BY BodiesHaveShape
    <2>4. s.tag = "Declaration" /\ s.exported
        BY <2>2, <2>3 DEF bindingKind, exports, declares, statementShape, Tags
    <2>5. visible(s) # {} /\ s \in body
        BY <2>3, <2>4, VisibleBySort DEF body
    <2> QED BY <1>2, <2>2, <2>5
<1> QED BY <1>2, <1>3

LEMMA ControllersOwnOneValue ==
    ASSUME FileInv, file.role = "controller", accepted(file)
    PROVE  \E s \in body : /\ {t \in body : "value" \in visible(t)} = {s}
                           /\ s.tag = "Declaration" /\ s.name.of = "Controller"
<1>1. goodController(file)
    BY Verdict
<1> DEFINE controllers == having(file, isController)
<1>2. controllers = {i \in DOMAIN file.body : isController(file.body[i])}
    BY DEF having
<1>3. IsFiniteSet(controllers)
    BY <1>2, BodiesHaveShape, FS_Interval, FS_Subset
<1>4. PICK c : controllers = {c}
    BY <1>1, <1>3, FS_Singleton DEF goodController
<1>5. c \in DOMAIN file.body /\ isController(file.body[c])
    BY <1>2, <1>4
<1>6. ASSUME NEW i \in DOMAIN file.body, "value" \in visible(file.body[i])
      PROVE  exportedBinding(file.body[i])
    <2> DEFINE s == file.body[i]
    <2>1. statementShape(s) /\ s.tag \in Tags
        BY BodiesHaveShape DEF statementShape
    <2>2. CASE s.tag = "Import"
        BY <1>6, <2>1, <2>2, VisibleBySort
    <2>3. CASE s.tag \in {"ExportDefault", "ExportAll", "ExportName"}
        BY <1>6, <2>1, <2>3, VisibleBySort DEF exportedBinding
    <2>4. CASE s.tag = "Declaration"
        <3>1. s.exported /\ s.form \in Forms \ {"typeof", "type"}
            BY <1>6, <2>1, <2>4, VisibleBySort DEF statementShape
        <3> QED BY <2>4, <3>1 DEF exportedBinding, exports, declares, Forms, Variables
    <2> QED BY <2>1, <2>2, <2>3, <2>4 DEF Tags
<1>7. \A i \in DOMAIN file.body : "value" \in visible(file.body[i]) => i = c
    BY <1>1, <1>2, <1>4, <1>6 DEF goodController
<1>8. "value" \in visible(file.body[c])
    BY <1>5, BodiesHaveShape, VisibleBySort
       DEF isController, exports, declares, statementShape, Forms
<1>9. {t \in body : "value" \in visible(t)} = {file.body[c]}
    BY <1>5, <1>7, <1>8 DEF body
<1>10. file.body[c].tag = "Declaration" /\ file.body[c].name.of = "Controller" /\ file.body[c] \in body
    BY <1>5 DEF isController, exports, declares, body
<1> QED BY <1>9, <1>10

\* Of the stems there are, a view's own and its beginning are the ones it may take a model from.
LEMMA StemsOfViews ==
    ASSUME NEW stem \in {OwnStem, OtherStem, StrangeStem, <<>>}, stem # <<>>,
           viewOwnershipFromModelStem(OwnStem, stem)
    PROVE  stem \in {OwnStem, OtherStem}
<1>1. CASE stem = StrangeStem
    <2>1. SubSeq(stem, 1, Len(stem)) = SubSeq(OwnStem, 1, Len(stem)) /\ Len(stem) = 1
        BY <1>1 DEF viewOwnershipFromModelStem, IsPrefix, StrangeStem
    <2>2. SubSeq(stem, 1, 1)[1] = "Bar" /\ SubSeq(OwnStem, 1, 1)[1] = "Foo"
        BY <1>1 DEF StrangeStem, OwnStem
    <2> QED BY <2>1, <2>2
<1> QED BY <1>1

LEMMA ViewsOwnTheirView ==
    ASSUME FileInv, file.role = "view", accepted(file)
    PROVE  /\ {s \in body : "type" \in visible(s)} = {}
           /\ \E s \in {t \in body : "value" \in visible(t)} :
                    /\ s.tag # "ExportDefault" /\ s.tag # "ExportAll"
                    /\ s.name = Name(OwnStem, "View")
           /\ \E s \in body, i \in body :
                    /\ s.tag = "Declaration" /\ s.name = Name(OwnStem, "View")
                    /\ i.tag = "Import" /\ i.name = s.viewOf /\ i.name = Name(i.stem, "Model")
                    /\ i.stem \in {OwnStem, OtherStem}
<1> DEFINE view == file.body[Min(ownedViews(file))]
           own == Name(OwnStem, "View")
<1>1. goodView(file) /\ file.stem = OwnStem
    BY Verdict DEF FileInv
<1>2. /\ ownedViews(file) # {} /\ ownedViews(file) \subseteq DOMAIN file.body
      /\ \A i \in ownedViews(file) : viewDeclaration(file.body[i]) /\ file.body[i].name = own
    <2>1. ownedViews(file) # {}
        BY <1>1, FS_EmptySet DEF goodView
    <2> QED BY <1>1, <2>1 DEF ownedViews, having, stemOwnership
<1>3. Min(ownedViews(file)) \in ownedViews(file)
    BY <1>2, BodiesHaveShape, FirstIsMember
<1>4. view \in body /\ view.tag = "Declaration" /\ view.name = own
    BY <1>2, <1>3 DEF body, viewDeclaration, declares
<1>5. {s \in body : "type" \in visible(s)} = {}
    <2> SUFFICES ASSUME NEW i \in DOMAIN file.body, "type" \in visible(file.body[i]) PROVE FALSE
        BY DEF body
    <2>1. ~ exportsType(file.body[i])
        BY <1>1 DEF goodView
    <2> QED BY <2>1, BodiesHaveShape, VisibleBySort DEF exportsType, exports, declares, statementShape, Tags
<1>6. \E s \in {t \in body : "value" \in visible(t)} :
            s.tag # "ExportDefault" /\ s.tag # "ExportAll" /\ s.name = own
    <2>1. PICK i \in DOMAIN file.body : exportsName(file.body[i], own)
        BY <1>1, <1>4 DEF goodView
    <2> DEFINE s == file.body[i]
    <2>2. statementShape(s) /\ ~ exportsType(s)
        BY <1>1, BodiesHaveShape DEF goodView
    <2>3. CASE s.tag = "ExportName" /\ s.name = own
        <3>1. s.kind = "value"
            BY <2>2, <2>3 DEF statementShape, exportsType
        <3> QED BY <2>2, <2>3, <3>1, VisibleBySort DEF body
    <2>4. CASE exports(s, {"function"} \cup Variables) /\ s.name = own
        <3>1. s.tag = "Declaration" /\ s.exported /\ s.form \in Forms \ {"typeof", "type"}
            BY <2>4 DEF exports, declares, Variables, Forms
        <3> QED BY <2>2, <2>4, <3>1, VisibleBySort DEF body
    <2> QED BY <2>1, <2>3, <2>4 DEF exportsName
<1>7. \E i \in body : /\ i.tag = "Import" /\ i.name = view.viewOf /\ i.name = Name(i.stem, "Model")
                      /\ i.stem \in {OwnStem, OtherStem}
    <2> DEFINE modelName == viewTypeModelName(view)
               imports == importsForModelName(file, modelName)
               i == file.body[Min(imports)]
    <2>1. modelName # NoName /\ validModelImport(file, modelName)
        BY <1>1 DEF goodView
    <2>2. modelName = view.viewOf
        BY <2>1 DEF viewTypeModelName
    <2>3. /\ imports # {}
          /\ viewOwnershipFromModelStem(OwnStem, i.stem) /\ modelName = Name(i.stem, "Model")
        BY <1>1, <2>1 DEF validModelImport
    <2>4. imports \subseteq DOMAIN file.body
          /\ \A k \in imports : /\ file.body[k].tag = "Import" /\ file.body[k].stem # <<>>
                                /\ file.body[k].name = modelName
        BY DEF importsForModelName, having
    <2>5. Min(imports) \in imports
        BY <2>3, <2>4, BodiesHaveShape, FirstIsMember
    <2>6. /\ i \in body /\ i.tag = "Import" /\ i.stem # <<>> /\ i.name = modelName
          /\ statementShape(i)
        BY <2>4, <2>5, BodiesHaveShape DEF body
    <2>7. i.stem \in {OwnStem, OtherStem}
        BY <2>3, <2>6, StemsOfViews DEF statementShape
    <2> QED BY <2>2, <2>3, <2>6, <2>7
<1> QED BY <1>4, <1>5, <1>6, <1>7

LEMMA OwnersFromInv == FileInv => AcceptedFilesOwnTheirThing
<1> SUFFICES ASSUME FileInv, accepted(file) PROVE AcceptedFilesOwnTheirThing
    BY DEF AcceptedFilesOwnTheirThing
<1>1. file.role \in {"model", "factory", "view", "controller"}
    BY DEF FileInv, Roles
<1>2. CASE file.role = "model"
    BY <1>2, ModelsOwnTheirSchema DEF AcceptedFilesOwnTheirThing, body
<1>3. CASE file.role = "factory"
    BY <1>3, FactoriesOwnTheirMaker DEF AcceptedFilesOwnTheirThing, body
<1>4. CASE file.role = "view"
    BY <1>4, ViewsOwnTheirView DEF AcceptedFilesOwnTheirThing, body
<1>5. CASE file.role = "controller"
    BY <1>5, ControllersOwnOneValue DEF AcceptedFilesOwnTheirThing, body
<1> QED BY <1>1, <1>2, <1>3, <1>4, <1>5

-----------------------------------------------------------------------------
\* A file and the same with one statement more.
grows(f, g, s) ==
    /\ g.role = f.role /\ g.layer = f.layer /\ g.stem = f.stem
    /\ \E n \in Nat : /\ DOMAIN f.body = 1 .. n /\ DOMAIN g.body = 1 .. n + 1
                      /\ g.body[n + 1] = s
                      /\ \A i \in 1 .. n : g.body[i] = f.body[i]

\* What is kept is an import, or a declaration that is not exported.
LEMMA PrivateStatements ==
    ASSUME NEW s, statementShape(s), visible(s) = {}
    PROVE  s.tag = "Import" \/ (s.tag = "Declaration" /\ ~ s.exported)
<1>1. s.tag \in Tags
    BY DEF statementShape
<1>2. s.tag # "ExportDefault" /\ s.tag \notin {"ExportAll", "ExportName"}
    BY VisibleBySort
<1>3. ~ (s.tag = "Declaration" /\ s.exported)
    BY VisibleBySort
<1> QED BY <1>1, <1>2, <1>3 DEF Tags

LEMMA PrivateExportsNothing ==
    ASSUME NEW s, statementShape(s), visible(s) = {}
    PROVE  /\ \A forms : ~ exports(s, forms)
           /\ s.tag \notin {"ExportDefault", "ExportAll", "ExportName"}
           /\ bindingKind(s) = "none"
<1>1. s.tag = "Import" \/ (s.tag = "Declaration" /\ ~ s.exported)
    BY PrivateStatements
<1>2. s.tag \notin {"ExportDefault", "ExportAll", "ExportName"}
    BY <1>1
<1>3. \A forms : ~ exports(s, forms)
    BY <1>1 DEF exports, declares
<1> QED BY <1>2, <1>3 DEF bindingKind

LEMMA Grown ==
    ASSUME NEW f, NEW g, NEW s, grows(f, g, s)
    PROVE  /\ g.stem = f.stem
           /\ \A i \in DOMAIN f.body : i \in DOMAIN g.body /\ g.body[i] = f.body[i]
           /\ \A i \in DOMAIN g.body : i \in DOMAIN f.body \/ g.body[i] = s
<1>1. PICK n \in Nat : /\ DOMAIN f.body = 1 .. n /\ DOMAIN g.body = 1 .. n + 1
                       /\ g.body[n + 1] = s
                       /\ \A i \in 1 .. n : g.body[i] = f.body[i]
    BY DEF grows
<1>2. g.stem = f.stem
    BY DEF grows
<1> QED BY <1>1, <1>2

LEMMA PrivateInModel ==
    ASSUME NEW f, NEW g, NEW s, grows(f, g, s), statementShape(s), visible(s) = {}, goodModel(f)
    PROVE  goodModel(g)
<1>1. ~ exportedSchema(s) /\ ~ exportedFactory(s)
    BY PrivateExportsNothing DEF exportedSchema, exportedFactory
<1> QED BY <1>1, Grown DEF goodModel

LEMMA PrivateInController ==
    ASSUME NEW f, NEW g, NEW s, grows(f, g, s), statementShape(s), visible(s) = {}, goodController(f)
    PROVE  goodController(g)
<1>1. ~ isController(s) /\ ~ exportedBinding(s)
    BY PrivateExportsNothing DEF isController, exportedBinding
<1>2. having(g, isController) = having(f, isController)
    BY <1>1, Grown DEF having
<1> QED BY <1>1, <1>2, Grown DEF goodController

LEMMA PrivateInFactory ==
    ASSUME NEW f, NEW g, NEW s, grows(f, g, s), statementShape(s), visible(s) = {}, goodFactory(f)
    PROVE  goodFactory(g)
<1>1. bindingKind(s) = "none" /\ reportBinding(s, Name(g.stem, "Model")) = {}
    <2>1. bindingKind(s) = "none"
        BY PrivateExportsNothing
    <2> QED BY <2>1 DEF reportBinding, isExportedFunction
<1>2. ownedFactoryBindings(g) = ownedFactoryBindings(f)
    BY <1>1, Grown DEF ownedFactoryBindings, having
<1>3. importsOwnedModel(g) /\ programCallsOwnedConstructor(g)
    <2>1. importsOwnedModel(g)
        BY Grown DEF goodFactory, grows, importsOwnedModel, some, having
    <2>2. programCallsOwnedConstructor(g)
        BY Grown DEF goodFactory, programCallsOwnedConstructor, some, having
    <2> QED BY <2>1, <2>2
<1>4. \A i \in DOMAIN g.body : reportBinding(g.body[i], Name(g.stem, "Model")) = {}
    <2>1. \A i \in DOMAIN f.body : reportBinding(f.body[i], Name(g.stem, "Model")) = {}
        BY Grown DEF goodFactory
    <2> QED BY <1>1, <2>1, Grown
<1> QED BY <1>2, <1>3, <1>4 DEF goodFactory

\* A place after all others is not the first one.
LEMMA FirstOfLonger ==
    ASSUME NEW n \in Nat, NEW S, NEW T, S \subseteq 1 .. n, S # {},
           S \subseteq T, T \subseteq S \cup {n + 1}
    PROVE  Min(T) = Min(S) /\ Min(S) \in S
<1>1. /\ \A k \in S : k \in T /\ k \in Nat /\ k <= n
      /\ \A k \in T : (k \in S \/ k = n + 1) /\ k \in Nat
    <2>1. \A k \in S : k \in T /\ k \in 1 .. n
        OBVIOUS
    <2>2. \A k \in T : k \in S \/ k \in {n + 1}
        OBVIOUS
    <2> QED BY <2>1, <2>2
<1>a. S \subseteq Nat /\ T \subseteq Nat /\ T # {}
    BY <1>1
<1>2. Min(S) \in S /\ \A k \in S : Min(S) <= k
    BY <1>a, FirstIsMember
<1>3. Min(T) \in T /\ \A k \in T : Min(T) <= k
    BY <1>a, FirstIsMember
<1>4. Min(S) \in T /\ Min(S) \in Nat /\ Min(S) <= n /\ Min(T) \in Nat
    BY <1>1, <1>2, <1>3
<1>5. Min(T) <= Min(S)
    BY <1>3, <1>4
<1>6. Min(T) \in S
    BY <1>1, <1>3, <1>4, <1>5
<1>7. Min(S) <= Min(T)
    BY <1>2, <1>6
<1> QED BY <1>2, <1>4, <1>5, <1>7

LEMMA PrivateInView ==
    ASSUME NEW f, NEW g, NEW s, grows(f, g, s), statementShape(s), visible(s) = {}, goodView(f),
           \A i \in DOMAIN f.body : ~ clash(f.body[i], s)
    PROVE  goodView(g)
<1> DEFINE own == stemOwnership(f.stem).viewName
           view == f.body[Min(ownedViews(f))]
           modelName == viewTypeModelName(view)
<1>1. PICK n \in Nat : /\ DOMAIN f.body = 1 .. n /\ DOMAIN g.body = 1 .. n + 1
                       /\ g.body[n + 1] = s
                       /\ \A i \in 1 .. n : g.body[i] = f.body[i]
    BY DEF grows
<1>2. g.stem = f.stem
    BY DEF grows
<1>3. /\ ownedViews(f) = {i \in DOMAIN f.body : viewDeclaration(f.body[i]) /\ f.body[i].name = own}
      /\ ownedViews(g) = {i \in DOMAIN g.body : viewDeclaration(g.body[i]) /\ g.body[i].name = own}
    BY <1>2 DEF ownedViews, having
<1>4. ownedViews(f) # {}
    BY FS_EmptySet DEF goodView
<1>5. Min(ownedViews(f)) \in ownedViews(f)
    <2>1. ownedViews(f) \subseteq Nat
        BY <1>1, <1>3
    <2> QED BY <1>4, <2>1, FirstIsMember
<1>6. ~ (viewDeclaration(s) /\ s.name = own)
    <2> SUFFICES ASSUME viewDeclaration(s), s.name = own PROVE FALSE
        OBVIOUS
    <2>1. viewDeclaration(view) /\ view.name = own /\ ~ clash(view, s)
        BY <1>3, <1>5
    <2>2. meanings(view) = {"value"} /\ meanings(s) = {"value"}
        BY <2>1 DEF meanings, viewDeclaration, declares
    <2> QED BY <2>1, <2>2 DEF clash, viewDeclaration, declares
<1>7. ownedViews(g) = ownedViews(f)
    BY <1>1, <1>3, <1>6
<1>8. g.body[Min(ownedViews(g))] = view
    BY <1>1, <1>3, <1>5, <1>7
<1>9. \A i \in DOMAIN g.body : ~ exportsType(g.body[i])
    <2>1. ~ exportsType(s)
        BY PrivateExportsNothing DEF exportsType
    <2> QED BY <1>1, <2>1 DEF goodView
<1>10. \E i \in DOMAIN g.body : exportsName(g.body[i], view.name)
    BY <1>1 DEF goodView
<1>11. validModelImport(g, modelName)
    <2> DEFINE imports == importsForModelName(f, modelName)
               longer == importsForModelName(g, modelName)
    <2>1. validModelImport(f, modelName)
        BY DEF goodView
    <2>2. imports # {} /\ imports \subseteq 1 .. n
        BY <1>1, <2>1 DEF validModelImport, importsForModelName, having
    <2>3. longer \subseteq imports \cup {n + 1} /\ imports \subseteq longer
        BY <1>1 DEF importsForModelName, having
    <2> HIDE DEF imports, longer
    <2>4. Min(longer) = Min(imports) /\ Min(imports) \in imports
        BY <2>2, <2>3, FirstOfLonger
    <2>5. g.body[Min(longer)] = f.body[Min(imports)]
        BY <1>1, <2>2, <2>4
    <2> QED BY <1>2, <2>1, <2>2, <2>3, <2>5 DEF validModelImport, imports, longer
<1> QED BY <1>7, <1>8, <1>9, <1>10, <1>11 DEF goodView

LEMMA WriteAppends ==
    ASSUME FileInv, Write
    PROVE  \E s \in Statements[file.role] :
                /\ \A i \in DOMAIN file.body : ~ clash(file.body[i], s)
                /\ file' = [role |-> file.role, layer |-> "pages", stem |-> OwnStem,
                            body |-> Append(file.body, s)]
<1>1. PICK s \in Statements[file.role] :
            /\ \A i \in DOMAIN file.body : ~ clash(file.body[i], s)
            /\ file' = [file EXCEPT !.body = Append(@, s)]
    BY DEF Write
<1>2. file' = [file EXCEPT !.body = Append(file.body, s)]
    BY <1>1
<1>3. file' = [role |-> file.role, layer |-> "pages", stem |-> OwnStem,
               body |-> Append(file.body, s)]
    BY <1>2 DEF FileInv
<1> QED BY <1>1, <1>3

LEMMA FileInvNext == FileInv /\ [Write]_file => FileInv'
<1> SUFFICES ASSUME FileInv, Write PROVE FileInv'
    BY DEF FileInv
<1>1. PICK s \in Statements[file.role] :
            file' = [role |-> file.role, layer |-> "pages", stem |-> OwnStem,
                     body |-> Append(file.body, s)]
    BY WriteAppends
<1> QED BY <1>1 DEF FileInv

LEMMA FileInvInit == InitFiles => FileInv
BY DEF InitFiles, FileInv, NoFile

LEMMA PrivateStep ==
    ASSUME FileInv, [Write]_file, accepted(file), visible(Last(file'.body)) = {}
    PROVE  accepted(file')
<1>1. CASE file' = file
    BY <1>1
<1>2. CASE Write
    <2>1. PICK s \in Statements[file.role] :
                /\ \A i \in DOMAIN file.body : ~ clash(file.body[i], s)
                /\ file' = [role |-> file.role, layer |-> "pages", stem |-> OwnStem,
                            body |-> Append(file.body, s)]
        BY <1>2, WriteAppends
    <2>3. file.body \in Seq(Statements[file.role]) /\ file.role \in Roles
          /\ file.layer = "pages" /\ file.stem = OwnStem
        BY DEF FileInv
    <2>4. grows(file, file', s)
        <3>1. /\ file'.role = file.role /\ file'.layer = file.layer /\ file'.stem = file.stem
              /\ file'.body = Append(file.body, s)
            BY <2>1, <2>3
        <3>2. /\ Len(file.body) \in Nat /\ DOMAIN file.body = 1 .. Len(file.body)
              /\ DOMAIN Append(file.body, s) = 1 .. Len(file.body) + 1
              /\ Append(file.body, s)[Len(file.body) + 1] = s
              /\ \A i \in 1 .. Len(file.body) : Append(file.body, s)[i] = file.body[i]
            BY <2>3
        <3> QED BY <3>1, <3>2 DEF grows
    <2>5. statementShape(s) /\ Last(file'.body) = s
        BY <2>1, <2>3, StatementsHaveShape DEF Last
    <2>6. visible(s) = {} /\ file'.role = file.role
        BY <2>1, <2>5
    <2>7. CASE file.role = "model"
        BY <2>4, <2>5, <2>6, <2>7, Verdict, PrivateInModel
    <2>8. CASE file.role = "factory"
        BY <2>4, <2>5, <2>6, <2>8, Verdict, PrivateInFactory
    <2>9. CASE file.role = "view"
        BY <2>1, <2>4, <2>5, <2>6, <2>9, Verdict, PrivateInView
    <2>10. CASE file.role = "controller"
        BY <2>4, <2>5, <2>6, <2>10, Verdict, PrivateInController
    <2> QED BY <2>3, <2>7, <2>8, <2>9, <2>10 DEF Roles
<1> QED BY <1>1, <1>2

(***************************************************************************)
(* A role file the rule accepts owns what its name says, however many      *)
(* statements it has: what the messages look for one by one adds up to it. *)
(***************************************************************************)
THEOREM OwnersHold == SpecFiles => []AcceptedFilesOwnTheirThing
<1>1. SpecFiles => []FileInv
    BY FileInvInit, FileInvNext, PTL DEF SpecFiles
<1> QED BY <1>1, OwnersFromInv, PTL

(***************************************************************************)
(* An accepted role file stays accepted when a statement is written that   *)
(* no other file can import anything by.                                   *)
(***************************************************************************)
THEOREM PrivateIsFree == SpecFiles => PrivateStatementsKeepAccepted
<1>1. SpecFiles => []FileInv
    BY FileInvInit, FileInvNext, PTL DEF SpecFiles
<1>2. FileInv /\ [Write]_file =>
            [accepted(file) /\ visible(Last(file'.body)) = {} => accepted(file')]_file
    BY PrivateStep
<1> QED BY <1>1, <1>2, PTL DEF SpecFiles, PrivateStatementsKeepAccepted
=============================================================================
