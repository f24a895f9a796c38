---------------------------- MODULE MutationGate ----------------------------
(***************************************************************************)
(* The last gate of `check` in package.json: the policies on how packages  *)
(* are mutated (scripts/lint-*.ts), the runner that mutates them in        *)
(* batches (mutation-timed.ts), and the two policies on what it left on    *)
(* disk (lint-mutation-report-health.ts, lint-mutation-baselines.ts).      *)
(*                                                                         *)
(* Reports and timings are files that git ignores: they outlive the run    *)
(* that wrote them, the tree they are about and the package they lie in.   *)
(* The tree is edited between commands, a command may be interrupted, and  *)
(* the mutation tool may break down.  A file holds one mutant, or none.    *)
(***************************************************************************)
EXTENDS Integers, FiniteSets

CONSTANTS Packages, Files,
          Exempt,              \* files that a named policy exception leaves unmutated
          Baselines,           \* policy/mutation-baselines.json
          Concurrencies,       \* what MUTATION_PACKAGE_CONCURRENCY may be set to
          Strict,              \* MUTATION_BASELINE_STRICT
          Durations,           \* how long a package may take
          MaxEdits

ASSUME GateAssumption ==
    /\ IsFiniteSet(Packages) /\ IsFiniteSet(Files)
    /\ Exempt \subseteq Files
    /\ Concurrencies \subseteq Nat \ {0}
    /\ Strict \in BOOLEAN
    /\ Durations \subseteq Nat
    /\ MaxEdits \in Nat

VARIABLES tree,      \* the packages as they are checked out
          reports,   \* packages/*/reports/mutation/mutation.json
          timing,    \* .mutation-timing.json
          command,   \* the command under way, "check" or "mutation"
          phase,
          packageConcurrency, queue, running, results,   \* of mutation-timed.ts
          codes,     \* exit codes of the policies that have ended
          edits

gateVars == <<tree, reports, timing, command, phase, packageConcurrency, queue, running, results,
              codes, edits>>

Undetected == {"Survived", "NoCoverage"}
Statuses == {"Killed", "Timeout", "Error"} \cup Undetected
NoMutant == "NoMutant"
none == [f \in {} |-> NoMutant]
NoReport == [tag |-> "NoReport"]
Report(mutants) == [tag |-> "Report", mutants |-> mutants]

\* script: what scripts.mutation does.  broad: mutate has src/**.  breaks: thresholds are 100.
Package ==
    [present : BOOLEAN, script : {"stryker", "noop", "missing"}, broad : BOOLEAN,
     excluded : SUBSET Files, breaks : BOOLEAN, json : BOOLEAN,
     mutants : [Files -> Statuses \cup {NoMutant}]]

present == {p \in Packages : tree[p].present}

-----------------------------------------------------------------------------
(***************************************************************************)
(* The mutation tool, as it is configured: what it mutates and reports.    *)
(***************************************************************************)
mutated(p) ==
    {f \in Files \ tree[p].excluded : tree[p].broad /\ tree[p].mutants[f] # NoMutant}

reported(p) == [f \in mutated(p) |-> tree[p].mutants[f]]

undetected(p) == {f \in mutated(p) : tree[p].mutants[f] \in Undetected}

exitCode(p) ==
    CASE tree[p].script = "noop" -> 0
      [] tree[p].script = "missing" -> 1
      [] OTHER -> IF tree[p].breaks /\ undetected(p) # {} THEN 1 ELSE 0

-----------------------------------------------------------------------------
(***************************************************************************)
(* The policies of lint that are about mutation.                           *)
(***************************************************************************)
noopScripts(p) == tree[p].script # "noop"

missingScripts(p) == tree[p].script = "missing"
badThresholds(p) == ~ tree[p].breaks

\* Mutant: an exclude is any entry that begins with an exclamation mark.
mutationScopeOfAnyExclude(p) == tree[p].broad

mutationScope(p) == tree[p].broad /\ tree[p].excluded \subseteq Exempt

strykerConfig(p) == tree[p].breaks /\ tree[p].json

lintPasses ==
    \A p \in present :
        /\ noopScripts(p) /\ ~ missingScripts(p) /\ ~ badThresholds(p)
        /\ mutationScope(p) /\ strykerConfig(p)

-----------------------------------------------------------------------------
(***************************************************************************)
(* The policies on reports.                                                *)
(***************************************************************************)
reportPaths == {p \in Packages : reports[p] # NoReport}

countStatus(mutants, status) == Cardinality({f \in DOMAIN mutants : mutants[f] = status})

reportHealth ==
    \A p \in reportPaths :
        /\ countStatus(reports[p].mutants, "Survived") = 0
        /\ countStatus(reports[p].mutants, "NoCoverage") = 0

tooHigh(current, baseline, percent) == 100 * current > baseline * percent

minimumWallTimeRegression == 30

isWallTimeRegression(p, elapsed) ==
    /\ tooHigh(elapsed, Baselines[p].wallTime, 120)
    /\ elapsed - Baselines[p].wallTime > minimumWallTimeRegression

currentViolations(p, mutants) ==
    \/ tooHigh(Cardinality(DOMAIN mutants), Baselines[p].mutantCount, 115)
    \/ countStatus(mutants, "Error") > Baselines[p].errors
    \/ countStatus(mutants, "Survived") > Baselines[p].survived
    \/ countStatus(mutants, "NoCoverage") > Baselines[p].noCoverage

timingWarnings(p, mutants) ==
    \/ p \in DOMAIN timing /\ isWallTimeRegression(p, timing[p])
    \/ countStatus(mutants, "Timeout") > Baselines[p].timeouts

\* A report whose package has no manifest any more cannot be named, and the script throws.
mutationBaselines ==
    \A p \in reportPaths :
        /\ tree[p].present
        /\ p \in DOMAIN Baselines
        /\ ~ currentViolations(p, reports[p].mutants)
        /\ Strict => ~ timingWarnings(p, reports[p].mutants)

-----------------------------------------------------------------------------
underWay == phase \in {"lint", "run", "policies"}

Begin(c) ==
    /\ ~ underWay
    /\ command' = c /\ packageConcurrency' \in Concurrencies
    /\ phase' = IF c = "check" THEN "lint" ELSE "run"
    /\ queue' = present /\ running' = {} /\ results' = none /\ codes' = none
    /\ UNCHANGED <<tree, reports, timing, edits>>

Lint ==
    /\ phase = "lint"
    /\ phase' = IF lintPasses THEN "run" ELSE "failed"
    /\ UNCHANGED <<tree, reports, timing, command, packageConcurrency, queue, running, results, codes,
                   edits>>

min(m, n) == IF m < n THEN m ELSE n

\* Mutant: the batch and one more.
runBatchOverfull ==
    \E batch \in SUBSET queue :
        /\ Cardinality(batch) = min(packageConcurrency + 1, Cardinality(queue))
        /\ running' = batch
        /\ queue' = queue \ batch

\* Mutant: only a full batch is run.
runBatchFull ==
    \E batch \in SUBSET queue :
        /\ Cardinality(batch) = packageConcurrency
        /\ running' = batch
        /\ queue' = queue \ batch

runBatch ==
    \E batch \in SUBSET queue :
        /\ Cardinality(batch) = min(packageConcurrency, Cardinality(queue))
        /\ running' = batch
        /\ queue' = queue \ batch

RunBatch ==
    /\ phase = "run" /\ running = {} /\ queue # {}
    /\ runBatch
    /\ UNCHANGED <<tree, reports, timing, command, phase, packageConcurrency, results, codes, edits>>

\* A package of the batch is done; breakdown is the exit code of a tool that was killed.
breakdown == 137

exits(p, code, elapsed) ==
    /\ p \in running
    /\ running' = running \ {p}
    /\ results' = [q \in DOMAIN results \cup {p} |->
                    IF q = p THEN [exitCode |-> code, elapsed |-> elapsed] ELSE results[q]]
    /\ UNCHANGED <<tree, timing, command, phase, packageConcurrency, queue, codes, edits>>

Mutate(p) ==
    \E elapsed \in Durations :
        /\ exits(p, exitCode(p), elapsed)
        /\ reports' = IF tree[p].script = "stryker" /\ tree[p].json
                      THEN [reports EXCEPT ![p] = Report(reported(p))] ELSE reports

BreakDown(p) ==
    /\ \E elapsed \in Durations : exits(p, breakdown, elapsed)
    /\ UNCHANGED reports

hasPackageFailure == \E p \in DOMAIN results : results[p].exitCode # 0

timingSummary == [p \in DOMAIN results |-> results[p].elapsed]

\* Mutant: the timings are written for the next run.
SummarizeWithoutTiming ==
    /\ phase = "run" /\ running = {} /\ queue = {}
    /\ timing' = IF timing = none THEN timingSummary ELSE timing
    /\ phase' = IF hasPackageFailure THEN "failed" ELSE "policies"
    /\ UNCHANGED <<tree, reports, command, packageConcurrency, queue, running, results, codes, edits>>

Summarize ==
    /\ phase = "run" /\ running = {} /\ queue = {}
    /\ timing' = timingSummary
    /\ phase' = IF hasPackageFailure THEN "failed" ELSE "policies"
    /\ UNCHANGED <<tree, reports, command, packageConcurrency, queue, running, results, codes, edits>>

ends(script, passes) ==
    /\ phase = "policies" /\ script \notin DOMAIN codes
    /\ codes' = [s \in DOMAIN codes \cup {script} |->
                    IF s # script THEN codes[s] ELSE IF passes THEN 0 ELSE 1]
    /\ UNCHANGED <<tree, reports, timing, command, phase, packageConcurrency, queue, running, results,
                   edits>>

RunReportHealth == ends("report-health", reportHealth)

RunMutationBaselines == ends("mutation-baselines", mutationBaselines)

Conclude ==
    /\ phase = "policies"
    /\ DOMAIN codes = {"report-health", "mutation-baselines"}
    /\ phase' = IF \A s \in DOMAIN codes : codes[s] = 0 THEN "passed" ELSE "failed"
    /\ UNCHANGED <<tree, reports, timing, command, packageConcurrency, queue, running, results, codes,
                   edits>>

Interrupt ==
    /\ underWay
    /\ phase' = "interrupted"
    /\ running' = {} /\ queue' = {} /\ results' = none /\ codes' = none
    /\ UNCHANGED <<tree, reports, timing, command, packageConcurrency, edits>>

-----------------------------------------------------------------------------
\* A package after one edit.
changed(package) ==
    {[package EXCEPT !.present = ~ @], [package EXCEPT !.broad = ~ @],
     [package EXCEPT !.breaks = ~ @], [package EXCEPT !.json = ~ @]} \cup
    {[package EXCEPT !.script = s] : s \in {"stryker", "noop", "missing"}} \cup
    {[package EXCEPT !.excluded = (@ \cup {f}) \ (@ \cap {f})] : f \in Files} \cup
    {[package EXCEPT !.mutants[f] = s] : f \in Files, s \in Statuses}

Edit(p) ==
    /\ ~ underWay /\ edits < MaxEdits
    /\ \E package \in changed(tree[p]) \ {tree[p]} : tree' = [tree EXCEPT ![p] = package]
    /\ phase' = "edited"
    /\ running' = {} /\ queue' = {} /\ results' = none /\ codes' = none
    /\ edits' = edits + 1
    /\ UNCHANGED <<reports, timing, command, packageConcurrency>>

InitGate ==
    /\ tree = [p \in Packages |->
                [present |-> TRUE, script |-> "stryker", broad |-> TRUE, excluded |-> Exempt,
                 breaks |-> TRUE, json |-> TRUE,
                 mutants |-> [f \in Files |-> IF f \in Exempt THEN "NoCoverage" ELSE "Killed"]]]
    /\ reports = [p \in Packages |-> NoReport]
    /\ timing = none
    /\ command = "check" /\ phase = "edited" /\ packageConcurrency \in Concurrencies
    /\ queue = {} /\ running = {} /\ results = none /\ codes = none
    /\ edits = 0

NextGate ==
    \/ \E c \in {"check", "mutation"} : Begin(c)
    \/ Lint
    \/ RunBatch
    \/ \E p \in Packages : Mutate(p)
    \/ \E p \in Packages : BreakDown(p)
    \/ Summarize
    \/ RunReportHealth
    \/ RunMutationBaselines
    \/ Conclude
    \/ Interrupt
    \/ \E p \in Packages : Edit(p)

SpecGate == InitGate /\ [][NextGate]_gateVars

\* A script under way goes on, and the tool answers or is killed.
FairSpecGate ==
    /\ SpecGate
    /\ WF_gateVars(Lint) /\ WF_gateVars(RunBatch) /\ WF_gateVars(Summarize)
    /\ WF_gateVars(RunReportHealth) /\ WF_gateVars(RunMutationBaselines) /\ WF_gateVars(Conclude)
    /\ \A p \in Packages : WF_gateVars(Mutate(p) \/ BreakDown(p))

-----------------------------------------------------------------------------
(***************************************************************************)
(* Every variable stays in its type: reports hold the mutants of files,    *)
(* and no more packages run at a time than package concurrency allows      *)
(* (runBatches in mutation-timed.ts).                                      *)
(***************************************************************************)
GateTypeOK ==
    /\ tree \in [Packages -> Package]
    /\ \A p \in reportPaths :
            /\ DOMAIN reports[p].mutants \subseteq Files
            /\ \A f \in DOMAIN reports[p].mutants : reports[p].mutants[f] \in Statuses
    /\ DOMAIN timing \subseteq Packages
    /\ running \cup queue \cup DOMAIN results \subseteq Packages
    /\ Cardinality(running) =< packageConcurrency

(***************************************************************************)
(* A check that passes means that the tests detect every mutant of every   *)
(* file that no named exception exempts; so does the mutation command on   *)
(* its own for the files it was configured to mutate, as long as the       *)
(* thresholds or the report are in place.  What earlier runs left on disk  *)
(* makes no difference.                                                    *)
(***************************************************************************)
PassMeansDetected ==
    phase = "passed" =>
        \A p \in present :
            /\ command = "check" =>
                    \A f \in Files \ Exempt : tree[p].mutants[f] \notin Undetected
            /\ tree[p].script = "stryker" /\ (tree[p].breaks \/ tree[p].json) =>
                    undetected(p) = {}

\* What of the tree as it is, or of this run of it, a command may fail for.
lacking(p) ==
    \/ command = "check" /\ ~ (noopScripts(p) /\ mutationScope(p) /\ strykerConfig(p))
    \/ missingScripts(p)
    \/ undetected(p) # {}
    \/ p \notin DOMAIN Baselines
    \/ currentViolations(p, reported(p))
    \/ Strict /\ countStatus(reported(p), "Timeout") > Baselines[p].timeouts
    \/ /\ p \in DOMAIN results
       /\ \/ results[p].exitCode = breakdown
          \/ Strict /\ isWallTimeRegression(p, results[p].elapsed)

(***************************************************************************)
(* A command that fails has a cause in the tree as it is or in its own     *)
(* run, and not in a report or a timing of an earlier one: unless a        *)
(* package was taken away and its report stayed, or a package writes no    *)
(* report and an old one stands for it.                                    *)
(***************************************************************************)
FailureHasCause ==
    /\ phase = "failed"
    /\ \A p \in reportPaths : tree[p].present /\ tree[p].json /\ tree[p].script # "noop"
    => \E p \in present : lacking(p)

(***************************************************************************)
(* Every command ends: passed, failed or interrupted.                      *)
(***************************************************************************)
EveryCommandEnds == underWay ~> ~ underWay
=============================================================================
