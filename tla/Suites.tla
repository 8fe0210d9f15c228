------------------------------- MODULE Suites -------------------------------
(***************************************************************************)
(* One run of a repository's tests (internal/runner) and where the test    *)
(* node sends the change (internal/nodes/test).  The tool prints as its    *)
(* packages end, side by side; belay keeps the head of what it prints,     *)
(* reads counts and failures out of that, and never looks at the exit      *)
(* status of a stream it could read.                                       *)
(***************************************************************************)
EXTENDS Naturals, Sequences, SequencesExt, FiniteSetsExt

CONSTANTS
  Runners,    \* subset of "go-test", "jest", "node-test", "pytest", "custom"
  Packages,   \* the files or packages the tool runs side by side
  MaxTests,   \* bound: tests of a package
  Capture     \* lines of standard output belay keeps

ASSUME SuitesAssumption ==
  /\ Runners \subseteq {"go-test", "jest", "node-test", "pytest", "custom"}
  /\ IsFiniteSet(Packages) /\ MaxTests \in Nat /\ Capture \in Nat

VARIABLES
  runner,
  suite,   \* package -> what its tests would come to
  ended,   \* package -> tests that have ended
  stream,  \* the lines printed so far
  fate,    \* "running", or how the command ended
  report,  \* the TestReport, or why there is none
  route    \* where the test node sends the run

suitesVars == <<runner, suite, ended, stream, fate, report, route>>

Broken   == <<"broken">>  \* a package that does not build, or import
Outcomes == {"pass", "fail", "skip", "dies"}
Suite    == {Broken} \cup SeqOf(Outcomes, MaxTests)

NoReport == [ran |-> FALSE, total |-> 0, failed |-> 0, named |-> {}]

SuitesInit ==
  /\ runner \in Runners
  /\ suite \in [Packages -> Suite]
  \* pytest runs nothing when a file will not import
  /\ runner = "pytest" /\ Broken \in Range(suite) => Range(suite) \subseteq {Broken, <<>>}
  /\ ended = [p \in Packages |-> 0]
  /\ stream = <<>> /\ fate = "running"
  /\ report = NoReport /\ route = "none"

-----------------------------------------------------------------------------
(***************************************************************************)
(* The tool.                                                               *)
(***************************************************************************)
Line(p, i, what) == [of |-> <<p, i>>, what |-> what]

\* A test that takes its process down, with os.Exit or a signal, prints
\* nothing that says how it ended.
Dead(p)   == ended[p] > 0 /\ suite[p][ended[p]] = "dies"
Ended(p)  == ended[p] = Len(suite[p]) \/ Dead(p)
Result(t) == suite[t[1]][t[2]]
EndedTests == UNION {{<<p, i>> : i \in 1..ended[p]} : p \in Packages}
Tests(what) == {t \in EndedTests : Result(t) = what}
\* node runs each file in a process of its own, and says the file failed.
Broke(t) == Result(t) = "broken" \/ (runner = "node-test" /\ Result(t) = "dies")

Loose == {t \in EndedTests : Broke(t)}
Red   == Tests("fail") \cup Loose

\* What the tool says of one test as it ends; jest and pytest keep it for a
\* document, and a summary, of the whole run.
Says(t) ==
  IF runner \notin {"go-test", "node-test"} THEN {"text"}
  ELSE IF runner = "node-test" /\ Broke(t) THEN {"fail"}
  ELSE IF Broke(t) THEN {"build-fail", "package-build-failed"}
  ELSE IF Result(t) = "dies" THEN {"package-failed"}
  ELSE {Result(t)}

TestEnds(p) ==
  /\ fate = "running" /\ ~Ended(p)
  /\ ended' = [ended EXCEPT ![p] = @ + 1]
  /\ \E what \in Says(<<p, ended[p] + 1>>) : stream' = Append(stream, Line(p, ended[p] + 1, what))
  /\ UNCHANGED <<runner, suite, fate, report, route>>

\* jest's document, node's trailer, pytest's short summary and counts.
Counts == [tests  |-> Cardinality(EndedTests \ (Loose \cup Tests("dies"))),
           failed |-> Cardinality(Tests("fail")), broken |-> Cardinality(Loose)]
Closing ==
  CASE runner = "jest"      -> <<[what |-> "document", counts |-> Counts]>>
    [] runner = "node-test" -> <<[what |-> "trailer", counts |-> Counts]>>
    [] runner = "pytest"    -> SetToSeq({Line(t[1], t[2], "FAILED") : t \in Red})
                                 \o <<[what |-> "summary", counts |-> Counts]>>
    [] OTHER                -> <<>>

\* A package that dies takes a run in one process with it; go and node go on
\* with the other packages.
Survives == runner \in {"go-test", "node-test"} \/ \A p \in Packages : ~Dead(p)

ToolExits ==
  /\ fate = "running"
  /\ \/ /\ Survives /\ \A p \in Packages : Ended(p)
        /\ stream' = stream \o Closing
        /\ fate' = IF Red \cup Tests("dies") = {} THEN "exit-0" ELSE "exit-1"
     \/ /\ ~Survives /\ stream' = stream /\ fate' = "exit-137"
  /\ UNCHANGED <<runner, suite, ended, report, route>>

\* It is not installed, runs past its deadline, is cancelled, or is killed
\* before it has printed the end of its report.
ToolStops ==
  /\ fate = "running"
  /\ \/ stream = <<>> /\ fate' = "missing"
     \/ fate' \in {"timed-out", "cancelled", "exit-137"}
  /\ UNCHANGED <<runner, suite, ended, stream, report, route>>

-----------------------------------------------------------------------------
(***************************************************************************)
(* What belay reads of it.                                                 *)
(***************************************************************************)
Truncated == Len(stream) > Capture
captured  == SubSeq(stream, 1, Min({Len(stream), Capture}))

Of(what)    == {e \in Range(captured) : e.what = what}
Names(what) == {e.of : e \in Of(what)}
Report(total, failed, named) ==
  [ran |-> TRUE, total |-> total, failed |-> failed, named |-> named]

\* goParser: whatever the toolchain's age, a build that broke is a failure.
\* Slip: the line of the newer toolchains only.
BuildFailedNew == Of("build-fail") # {}
BuildFailed    == Of("build-fail") # {} \/ Of("package-build-failed") # {}

parseGoTestJSON ==
  LET build == IF BuildFailed THEN 1 ELSE 0 IN
  Report(Cardinality(Of("pass") \cup Of("skip") \cup Of("fail")) + build,
         Cardinality(Of("fail")) + build,
         Names("fail") \cup IF BuildFailed THEN {<<"build", 0>>} ELSE {})

\* The document's own counts, and every file that would not load beside them.
parseJestJSON ==
  LET counts == (CHOOSE e \in Of("document") : TRUE).counts IN
  Report(counts.tests + counts.broken, counts.failed + counts.broken, Red)

\* The trailer when there is one, and otherwise the lines seen.
parseTAP ==
  LET counts == (CHOOSE e \in Of("trailer") : TRUE).counts IN
  IF Of("trailer") # {}
  THEN Report(counts.tests + counts.broken, counts.failed + counts.broken, Names("fail"))
  ELSE Report(Cardinality(Of("pass") \cup Of("fail")), Cardinality(Of("fail")), Names("fail"))

parsePytest ==
  LET listed == Names("FAILED")
      counts == (CHOOSE e \in Of("summary") : TRUE).counts
  IN  IF Of("summary") # {}
      THEN Report(counts.tests + counts.broken, counts.failed + counts.broken, listed)
      ELSE Report(Cardinality(listed), Cardinality(listed), listed)

exitStatusReport == Report(1, IF fate = "exit-0" THEN 0 ELSE 1, {})

Read == CASE runner = "go-test"   -> parseGoTestJSON
          [] runner = "jest"      -> parseJestJSON
          [] runner = "node-test" -> parseTAP
          [] runner = "pytest"    -> parsePytest
          [] OTHER                -> exitStatusReport

\* base.run: only a command that came to its own end is read.
RanToItsEnd == fate \in {"exit-0", "exit-1", "exit-137"}

\* The tool printed nothing a parser could use.
Unreadable ==
  CASE runner = "go-test" -> Read.total = 0 /\ fate # "exit-0"
    [] runner = "jest"    -> Of("document") = {}
    [] runner = "pytest"  -> Read.total = 0 /\ fate = "exit-137"
    [] OTHER              -> FALSE

OK(r) == r.total > 0 /\ r.failed = 0

TestRun ==
  /\ fate # "running" /\ route = "none"
  /\ IF RanToItsEnd /\ ~Unreadable
     THEN report' = Read /\ route' = IF OK(Read) THEN "review" ELSE "fix"
     ELSE report' = NoReport /\ route' = "error"
  /\ UNCHANGED <<runner, suite, ended, stream, fate>>

SuitesNext == (\E p \in Packages : TestEnds(p)) \/ ToolExits \/ ToolStops \/ TestRun

SuitesSpec == SuitesInit /\ [][SuitesNext]_suitesVars

-----------------------------------------------------------------------------
(***************************************************************************)
(* What a route of the test node says of the suite.                        *)
(***************************************************************************)
Judged == route \in {"review", "fix"}
Whole  == fate \in {"exit-0", "exit-1"} /\ ~Truncated /\ Tests("dies") = {}

\* runner.go, "The one distinction that matters": a verdict comes of a
\* command that ended by itself.  Read whole, it is the suite's own -- green
\* if a test ran and none failed -- and a red one names every test to repair.
VerdictIsTheSuites ==
  Judged =>
    /\ RanToItsEnd
    /\ Whole /\ runner # "custom" =>
         /\ route = "review" <=> Red = {} /\ EndedTests # {}
         /\ (Red = {}) = (report.named = {})
         /\ \A t \in Tests("fail") : t \in report.named
    /\ Cardinality(report.named) <= report.failed

\* docs/architecture.md, "test": if all tests pass, branches to review; if
\* any fail, branches to fix.
GreenSuitePassed == route = "review" => Red \cup Tests("dies") = {}

=============================================================================
