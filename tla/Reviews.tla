------------------------------ MODULE Reviews ------------------------------
(***************************************************************************)
(* The two reviewers behind the review nodes: internal/nodes/aireview,     *)
(* which asks a SonarQube server over MCP for its gate and then pages the  *)
(* issues behind it, and internal/sonar/scanner, which runs the scanner    *)
(* CLI and reads the verdict out of what it printed.                       *)
(*                                                                         *)
(* The server goes on living while a review reads it: between two calls an *)
(* issue may be closed or a new analysis may land. The scanner prints the  *)
(* project's own words before its verdict, each stream is cut at a limit,  *)
(* it may die before or after the verdict, and it has none to print where  *)
(* it was told not to wait for the gate.                                   *)
(*                                                                         *)
(* A verdict of a reviewer is "pass", "fail" or "error" (belay.GateStatus),*)
(* and only the first two carry a route.                                   *)
(***************************************************************************)
EXTENDS Integers, Sequences, FiniteSets, SequencesExt

CONSTANTS
  PageSize,     \* issuePageSize
  MaxPages,     \* maxIssuePages
  MaxIssues,    \* bound: issues the server holds at the start
  MaxCloses,    \* bound: changes on the server while a review runs
  MaxLines,     \* bound: lines a scan prints before its last
  CaptureLines  \* the limit on what exec.Run keeps of a stream, in lines

ASSUME ReviewsAssumption == PageSize \in Nat \ {0} /\ MaxIssues \in Nat

VARIABLES
  by,         \* the reviewer the configuration names
  open,       \* the server's open issues, in the order the search lists them
  reaching,   \* those of the issues at or above fail_on
  status,     \* the server's own gate word
  closes,     \* how often the server has changed since the review began
  review,     \* the review under way
  scan        \* the scan under way

reviewsVars == <<by, open, reaching, status, closes, review, scan>>
sonar == <<by, open, reaching, status, closes>>

StatusWords == {"OK", "ERROR", "NONE"}
\* A scan as the configuration has it run: in docker or not, and waiting for
\* the gate (quality_gate_wait) or only handing its report in.
NewScan(runner, waits) ==
  [runner |-> runner, waits |-> waits, stdout |-> <<>>, stderr |-> <<>>, real |-> "none",
   exit |-> -1, err |-> "none", at |-> "running", gate |-> "none"]

ReviewsInit ==
  /\ by \in {"aireview", "scanner"}
  /\ \E n \in 0..MaxIssues : open = [i \in 1..n |-> i]
  /\ reaching \in SUBSET (1..MaxIssues)
  /\ status \in StatusWords
  /\ by = "scanner" => open = <<>> /\ reaching = {} /\ status = "NONE"
  /\ closes = 0
  /\ review = [at |-> "gate", told |-> "none", page |-> 1, fetched |-> <<>>,
               truncated |-> FALSE, gate |-> "none"]
  /\ \E runner \in {"docker", "binary"}, waits \in BOOLEAN : scan = NewScan(runner, waits)
  /\ by = "aireview" => scan = NewScan("docker", TRUE)

----------------------------------------------------------------------------
(* The server *)

\* Someone resolves an issue, or an analysis replaces the gate's word.
ServerChanges ==
  /\ by = "aireview" /\ review.at # "done" /\ closes < MaxCloses
  /\ closes' = closes + 1
  /\ \/ /\ \E i \in DOMAIN open : open' = RemoveAt(open, i)
        /\ UNCHANGED status
     \/ status' \in StatusWords \ {status} /\ UNCHANGED open
  /\ UNCHANGED <<by, reaching, review, scan>>

----------------------------------------------------------------------------
(* aireview *)

\* BelayGate: "ERROR" is a gate that was evaluated and failed; any word that
\* is not known is no verdict.
BelayGate(word) ==
  CASE word = "OK" -> "pass" [] word = "ERROR" -> "fail" [] OTHER -> "error"

\* The issue finalize makes up for a gate that failed on conditions no issue
\* explains. It is a blocker, so it reaches every threshold.
gateIssue == 0
AtOrAbove(issues) == {i \in Range(issues) : i \in reaching \/ i = gateIssue}

finalize(word, issues, failed) ==
  IF failed \/ BelayGate(word) = "error" THEN "error"
  ELSE LET out == IF BelayGate(word) = "fail" /\ AtOrAbove(issues) = {}
                  THEN Append(issues, gateIssue) ELSE issues
       IN  IF AtOrAbove(out) # {} THEN "fail" ELSE "pass"

Finish(r, word, issues, failed) ==
  [r EXCEPT !.at = "done", !.told = word, !.fetched = issues,
            !.gate = finalize(word, issues, failed)]

\* Dialling, the handshake, or either tool may fail; so may the context end.
ReviewFails ==
  /\ by = "aireview" /\ review.at # "done"
  /\ review' = Finish(review, review.told, review.fetched, TRUE)
  /\ UNCHANGED <<sonar, scan>>

\* gateStatus: a server with no verdict has no issues worth searching for.
GateStatus ==
  /\ by = "aireview" /\ review.at = "gate"
  /\ review' = IF BelayGate(status) = "error"
               THEN Finish(review, status, <<>>, FALSE)
               ELSE [review EXCEPT !.at = "search", !.told = status]
  /\ UNCHANGED <<sonar, scan>>

Page(n) == SubSeq(open, (n - 1) * PageSize + 1,
                  IF n * PageSize < Len(open) THEN n * PageSize ELSE Len(open))

\* Slip: a full page is taken for the last one too.
LastPageAny(got, fetched, total) ==
  Len(got) <= PageSize

\* The last page: it is short, or all the server counts have been fetched. A
\* server that leaves the total out reports 0.
LastPage(got, fetched, total) ==
  Len(got) < PageSize \/ (total > 0 /\ Len(fetched) >= total)

\* One turn of the loop in searchIssues.
Search ==
  /\ review.at = "search"
  /\ \E total \in {0, Len(open)} :
       LET got == Page(review.page)
           fetched == review.fetched \o got
           last == LastPage(got, fetched, total)
           cut == ~last /\ review.page = MaxPages
       IN  review' = IF last \/ cut
                     THEN Finish([review EXCEPT !.truncated = cut],
                                 review.told, fetched, FALSE)
                     ELSE [review EXCEPT !.page = @ + 1, !.fetched = fetched]
  /\ UNCHANGED <<sonar, scan>>

----------------------------------------------------------------------------
(* scanner *)

\* What is kept of the output: its head, up to the limit.
Kept(text) == SubSeq(text, 1,
                IF Len(text) < CaptureLines THEN Len(text) ELSE CaptureLines)

GateWords == {"PASSED", "FAILED", "WARN"}

\* parseVerdict: the last gate word that was captured.
parseVerdict(text) ==
  LET said == {i \in DOMAIN text : text[i] \in GateWords}
  IN  IF said = {} THEN "none" ELSE text[CHOOSE i \in said : \A j \in said : j <= i]

dockerUnavailable(stderr, exit) ==
  "daemonless" \in Range(stderr) \/ exit \in {125, 126, 127}

\* There is nothing to read a verdict in, or no word belay knows: a tool that
\* is missing or was stopped, docker itself, the scanner's own wait.
NoVerdict(s, text) ==
  \/ s.err # "none"
  \/ s.runner = "docker" /\ dockerUnavailable(Kept(s.stderr), s.exit)
  \/ "expired" \in Range(text)
  \/ parseVerdict(text) \notin {"PASSED", "FAILED"}

\* Slip: the verdict is taken, whatever the exit status.
classifyByVerdict(s) ==
  LET text == Kept(s.stdout) \o Kept(s.stderr)
  IN  IF NoVerdict(s, text) THEN "error"
      ELSE IF parseVerdict(text) = "FAILED" THEN "fail" ELSE "pass"

\* classify: the verdict is read before the exit status, which alone cannot
\* tell a gate that failed from a scan that did.
classify(s) ==
  LET text == Kept(s.stdout) \o Kept(s.stderr)
  IN  IF NoVerdict(s, text) THEN "error"
      ELSE IF parseVerdict(text) = "FAILED" THEN "fail"
      ELSE IF s.exit # 0 THEN "error" ELSE "pass"

\* The scan with one more line, on either stream.
WithLine(s, to, w) == IF to = "stdout" THEN [s EXCEPT !.stdout = Append(@, w)]
                                       ELSE [s EXCEPT !.stderr = Append(@, w)]

\* The scan echoes what the build and its plugins say, a gate word of some
\* other project among it.
ScanPrints ==
  /\ by = "scanner" /\ scan.at = "running"
  /\ Len(scan.stdout) + Len(scan.stderr) < MaxLines
  /\ \E to \in {"stdout", "stderr"}, w \in GateWords \cup {"chatter"} : scan' = WithLine(scan, to, w)
  /\ UNCHANGED <<sonar, review>>

\* How a scan may end.  One that waits for the gate ends with the verdict, or
\* with none when its wait has run out; it exits 0 only on a gate that passed,
\* and may yet fail after it.  One that does not wait ends well with no word
\* of the gate.  Either may die, and docker may itself fail.
Ends(s) ==
  (IF s.waits
   THEN [real : {"pass"}, word : {"PASSED"}, exit : {0, 1}]
          \cup [real : {"fail"}, word : {"FAILED"}, exit : {3}]
          \cup [real : {"none"}, word : {"expired"}, exit : {3}]
   ELSE [real : {"none"}, word : {"chatter"}, exit : {0}])
  \cup [real : {"none"}, word : {"chatter"}, exit : {1, 127, 137}]
  \cup (IF s.runner = "docker" THEN [real : {"none"}, word : {"daemonless"}, exit : {1, 125}]
                               ELSE {})

ScanEnds ==
  /\ by = "scanner" /\ scan.at = "running"
  /\ \E e \in Ends(scan), to \in {"stdout", "stderr"} :
       /\ e.word = "daemonless" => to = "stderr"
       /\ scan' = [WithLine(scan, to, e.word) EXCEPT !.real = e.real, !.exit = e.exit,
                                                   !.at = "ended"]
  /\ UNCHANGED <<sonar, review>>

\* The tool is not there, or the deadline or a cancel stopped the run.
ScanStopped ==
  /\ by = "scanner" /\ scan.at = "running"
  /\ \E e \in {"missing", "timeout"} :
       /\ e = "missing" => scan.stdout = <<>> /\ scan.stderr = <<>>
       /\ scan' = [scan EXCEPT !.err = e, !.at = "ended"]
  /\ UNCHANGED <<sonar, review>>

\* Scanner.Review over what exec.Run returned.
ScanReview ==
  /\ scan.at = "ended"
  /\ scan' = [scan EXCEPT !.at = "done", !.gate = classify(scan)]
  /\ UNCHANGED <<sonar, review>>

ReviewsNext == \/ ServerChanges \/ ReviewFails \/ GateStatus \/ Search
        \/ ScanPrints \/ ScanEnds \/ ScanStopped \/ ScanReview

ReviewsSpec == ReviewsInit /\ [][ReviewsNext]_reviewsVars

----------------------------------------------------------------------------
(* Properties *)

\* A review that passes has read a gate that passed, and, on a server that
\* held still and was read to its last page, no open issue reaches fail_on
\* (aireview searchIssues and finalize).
PassIsEarned ==
  review.gate = "pass" =>
    /\ review.told = "OK"
    /\ closes = 0 /\ ~review.truncated => Range(open) \cap reaching = {}

\* A scan that waits for the gate passes only when the scanner itself reached
\* a passing verdict; any scan, only when it ended well: whatever else it
\* printed before, wherever a stream was cut, and whichever way the process
\* died (scanner classify).
ScanPassIsReal ==
  scan.gate = "pass" =>
    /\ scan.exit = 0 /\ scan.err = "none"
    /\ scan.waits => scan.real = "pass"

\* A review passes only on a gate that passed, with every open issue of a
\* server that held still read.
VerdictIsEarned == PassIsEarned /\ ScanPassIsReal

\* scanner.go:418-420, WithQualityGateWait(false): a scan that does not wait
\* leaves no verdict at all.  It does where it prints another's.
NoWaitNoVerdict == ~ scan.waits => scan.gate \in {"none", "error"}
============================================================================
