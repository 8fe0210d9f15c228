# TLA+ specifications of belay

belay runs a graph of nodes (plan, approve, code, test, review, fix, …) over a
repository, with an agent doing the work, and promises that a run can be killed
anywhere and carried on: "apply the patch, then journal the completion", one
directory of plain files per run, one log per queue. This directory holds TLA+
models of the parts of belay that keep that promise and of the parts it leans
on, the TLC runs that check them on small instances, and TLAPS proofs of the
safety results that hold for every instance. Paths below are relative to the
repository root, and to `internal/` where they name no directory of it.

Contents: 1 the system, 2 the modules and the code, 3 the runs, 4 bounds,
5 fairness, 6 the proofs, 7 where the code and its documentation disagree,
8 assumptions and what is not modelled, 9 what comes next.

## 1. The system

| Component | State it keeps | Operations | Talks to |
|---|---|---|---|
| Journal (`journal`, `ndjson`) | `journal.ndjson`: node_started / node_finished / run markers, fsynced one at a time | Append, Open (heals a torn tail), Validate, ResolveStart, Visits, Create | read by everything that asks where a run stands |
| Dispatcher (`graph/dispatcher.go`) | the place in the graph, the ledger in memory | Run, Resume: heal, check, loop, execute, settle, endRun | writes journal, state, snapshots, manifest; calls nodes |
| Budget ledger (`budget`) | spend in total and by node | Record, RecordSum, Unrecorded, Without, Rebuild, Check, Partition | replayed from the journal at every dispatch |
| Blackboard and run files (`state`) | `state.json`, snapshots, `manifest.json` | ApplyPatch, SaveSnapshot, Save, migrations | dispatcher, commands |
| Plan approval (`nodes/plan`, `nodes/approve`, `cli/resume.go`, `cli/plan.go`) | the plan file and the plan block of the blackboard | the two nodes; approve, regenerate | a person, between dispatches |
| Goal queue (`queue`, `cli/queue.go`) | `queue.ndjson`, `worker.lock`, one copy and one run per goal | add, rm, approve, start; the worker's steps | one run per goal, driven as a resume |
| Candidate runs (`graph/children.go`, `nodes/fanout`, `nodes/join`) | a run directory and a workspace per candidate, envelopes | claim, adopt, make, drive, collect; join's choice | a pool under a parent's dispatch |
| Work, test, review, fix and policy nodes (`nodes`) | the code, test, review, policy and fix blocks of the blackboard; the workspace | one Run each, routes between them | agent, runners, linters |
| Promotion (`nodes/promote`, `cli/publish.go`, `git`) | branches, trees, publication record | account for, commit, merge, clean, push, pull request | git, a remote |
| Plan archive (`planarchive`) | the run's plan, filed in the repository | File, place, holds | promotion |
| Fork (`fork`, `cli/fork.go`) | a new run made of a visit of another, and where it came from | Prepare, check, copy, Create | Visits, snapshots, Survey |
| Workspace isolation (`isolate`) | worktrees and directory copies | Create, Destroy, Reclaim, Survey | candidates, forks, queue |
| Processes (`exec`, `procgroup`) | a record per started group; captured output | Run, Start, Reap; redaction | the operating system |
| Agent adapters (`agent`) | a cassette of a conversation | Invoke, record, replay | nodes |
| Test, lint and quality adapters (`runner`, `linter`, `sonar`, `nodes/aireview`) | an MCP session | Test, Lint, Review | nodes, other programs |
| Policy (`policy`, `config`, `state/policy.go`) | the rules and declarations a run is pinned to | bind, judge | write, policy and fix nodes |
| Detection, viewer, documents | none of a run's | parse, display | commands |

What is hard here, and which property answers it, is listed line by line under
`hazards` in `PROJECT.json`. In short:

* a process dies between any two writes, also while it recovers from an earlier
  death, and the next one has only the files;
* a re-run of a node is given the snapshot of the attempt it repeats, while a
  person may have written to the blackboard since;
* several reasons to stop (deadline, Ctrl-C, limit, error) are true at once;
* spend is known late, or never, and must bound the run all the same;
* worker processes and commands append to one queue between each other's reads
  and writes, and a run they all point at is in yet another directory;
* candidates run side by side under one ceiling, in workspaces made and let go
  by sequences of git commands or a walk that anything may interrupt;
* verdicts go stale: every edit of the fix loop comes after some gate's verdict,
  and a person may edit while a run is paused;
* every tool's answer is read from a stream that may be cut, late, out of order
  or about something else.

## 2. The modules and the code

Every definition that stands for code is in `PROJECT.json` under `map` with its
lines. Definitions under a comment that begins "Slip:" are plausible mistakes in
that code; nothing uses them but the mutation checks.

### The run

**Journal** — records as sets of records; `Validate` (no node_started over an
open one, a node_finished only for the start before it, run markers only between
executions), `ResolveStart` (where to resume, and as which attempt),
`OwedRunMarker` (the marker a death left unwritten) and `AttemptOneSeq`
(which snapshot a visit's re-run is given).

**Visits** — `journal.Visits` as a fold: which executions are one visit of a
node, which `timeline`, `fork` and the snapshots number alike. `Fork` uses it.

**Ledger** — one dimension of spend (a natural number) in total and per node.
`Replayed` folds a journal with a recursive function, `Rebuild` takes the larger
of that and the manifest's, as the code does.

**Dispatcher** — variables `journal`, `torn` (part of a record at its end);
`board`, `hist`, `snaps`, `man` (the run's files); `world` (everything a node
reads and writes outside the blackboard); `orphan` (what a dead belay left
running); `pc`, `at`, `repeats`, `view`, `closing`, `patch`, `mem` (the
process); and one history variable, `committed`, the blackboard the accepted
results add up to. There is one action per durable write:

| Action | Code |
|---|---|
| `Open` | `dispatch`: journal.Open with its healing, ResolveStart, rebuildLedger |
| `HealReap`, `HealClose`, `HealOwed`, `HealPersist`, `NothingToHeal` | `heal`, `reap`, `owedRunMarker` |
| `Refuse`, `ResumePaused`, `Proceed` | `checkStartState` |
| `LoopEnds`, `StartNode` | the head of `loop`: cancellation, ceiling, max_steps, unknown node, node_started |
| `TakeSnapshot`, `SnapshotFails` | `blackboardFor`, `notRun` |
| `NodeReturns`, `NodeTimesOut` | `execute` and the switch of `settle` |
| `ApplyPatch`, `FinishNode`, `PersistRunning` | the writes of `settle`, in their order |
| `EndMark`, `EndPersist` | `endRun` |
| `Crash`, `Cancel`, `OrphanWrites`, `PersonEdits` | the environment |

What nodes may return is a constant, `NodeResults(node, blackboard, world)`, so
the proofs hold for every graph. The dispatcher does not cut a node off: it ends
the node's context, waits for `Run` to return, and only then asks whether the
deadline passed. `Heeding` is the set of nodes that return once their context has
ended, if only with an error (`Silent`); a node outside it that hangs holds the
dispatch for ever. A write that fails ends the dispatch with an error and nothing
else, so it is a `Crash` before or after the write.

**RunSpec** — the abstract run: no process, no file, no crash. A node runs once
on the blackboard the results before it add up to; pauses hold; an end is final.
`Dispatcher` implements it under the mapping of `RefinesRunSpec`.

**Gate** (extends `Dispatcher`) — what the plan node and the gate return, as a
`NodeResults` whose world is the plan file, and the code node as far as the plan
goes: it looks for the approval itself, in the blackboard its own visit was given,
and refuses before it reads the plan (`CodeNode`). `ApprovePlan`,
`RequestRegeneration`, `Dispatch` and `CommandDies` are the two commands
(`belay resume`, `belay plan --regenerate`), each of which saves the blackboard
and then dispatches, and may die in between. The history variable `approval` is
how far the plan in hand has come with the person: unseen, shown by the gate's
pause, approved, and, when a new one was asked for after that, withdrawn.

**Queue** — variables `queue`, `last` (the log as what it folds to); `lock`;
`worker` (each process's place and what it decided), `run` (what a goal's copy,
manifest and journal say), `person`; `starts`, `crashes` (bounds); `cut`
(history: the last worker to record starting died before recording that it
stopped). A worker's step is `Decide` (read, observe, `Next`) followed by the
actions of what was decided: `Claim`; `LookAgain`, `Reclaim`, `Copy`,
`CreateRun`; `Drive`, `Dispatched` or `DispatchInterrupted`; `Settle`; `EndWork`,
`Release`. `Decide` and the act are apart, so a command may change the log in
between. The person's `Add`, `Remove`, `BeginApprove` → `ApproveRun` →
`ApproveGoal`, `Tell`, `ResumeByHand` and `DeleteCopy` interleave with them.

### The work of a run

**Candidates** (extends `Ledger`) — `disk` (each candidate's run directory,
claim, envelope, workspace, steps and spend), `proc` (the attempt of fanout),
`job` and `out` (what the pool does with each, and will report), the parent's
`ledger` and `result`. `Begin` reads the ceiling; `removeTornClaim`,
`claimFresh`, `SaveClaim`, `adopt`, `AllClaimed` are the claims; `one`,
`Reclaim`, `BeginWorkspace`, `makeWorkspace`, `RecordWorkspace` a worker's
provision of one candidate; `ChildHeals`, `ChildStarts`, `ChildSteps`,
`ChildEnds`, `ChildStops`, `ChildCutShort` its dispatcher in larger steps;
`Return` and `SettleAttempt` what fanout says and the parent is charged. A
candidate's file that cannot be written, a worker that fails, a cancelled parent
and its death are `ClaimFails`, `WorkerFails`, `Cancel`, `Crash`. `Select` is
join's choice.

**WorkLoop** — the nodes of `internal/nodes` over the blocks of the blackboard
they patch (`code`, `test`, `review`, `policy`, `fix`) and the workspace
(`tree`): one action a node and way out of it (`CodeRun`, `FixRun`, `WriteRun`,
`WriteRefuses`, `PolicyRun`, `TestRun`, `ReviewRun`, `GiveUp`, …). `graph` is
the wiring of `nodes.Default` and `nodes.Candidate` with every option. `AgentCut`
is an attempt of code or fix whose process died: it edited, and is run again.
History: `told`, `sender`, `judged`, `mended`.

**Policy** — the layers of `belay.yaml` as rule sets, `bindPolicy` and
`startPolicy` (what is pinned when), and `judged` (what the gate measures) over
files whose content is what a rule can tell of it.

### Trees

**Publish** — `promote` (`accountFor`, commit, merge of the winner, record,
`clean`) and, after the run, `archive`, push, pull request and the removal of
the worktree. Trees hold sets of changed paths, a tip the same and whether a
commit has the run's trailers. `Person` works in a tree while belay is down.

**Fork** — `cmd` walks the command: `AskFork`, `ReadSource`, `Survey`,
`checkFilesAndPlan`, `CopyTree`, `SurveyAgain`, `CheckCopy`, `WriteBlackboard`,
`CreateJournal`, `WriteManifest`, or `Destroy`; `RunMoves` is any run, source or
fork, by the steps `Dispatcher` establishes. History: money (`bank`, `worth`,
`worthAt`), what a fork was copied from (`copied`), forks whose first node gave
up (`gaveUp`).

**Worktree** — `refs`, `reg`, `dir` are git's branches, registrations and
directories; each caller's `call` goes through the git commands of Create,
Destroy or Reclaim one by one. `Outside` is an agent or a person: commits,
merges, moved or replaced directories, edits of the source.

**CopyTree** — the walk of dircopy entry by entry, `confine` and its removal of
links that lead out, `prepareDest`, `Destroy`, `Reclaim`. Links are texts; the
reference definition `Kernel` is how the operating system resolves them.

### What nodes lean on

**Processes** — `proc` is the kernel's table of pids, `record` the records on
disk, `call` what `exec.Run` does (`Track`, `Start`, the watcher, wait, forget),
`Reap` what a later belay does with each record. Pids are reused by `Stranger`s.

**Redaction** — `Sink` and `Finish` are the streaming redactor, for every way to
chunk a text; the reference is `Redact` of the text in one piece.

**McpSession** — goroutines over one client and one server that may answer late,
twice, out of order, or with frames of its own; both transports. The client's
mutex is let go of between the look for a tool (`Begin`) and the request (`Send`),
and between an answer and the storing of what it brought (`ListTools`), so other
goroutines come in between. History: `lists`, the lists the client has had, and in
each call `since`, how many there were when it looked.

**Reviews** — aireview (gate, then pages of issues of a server that lives on) and
the scanner CLI: what it prints on two streams, each cut by a capture, and how it
ended, run by docker or as a binary, waiting for the gate or not
(`quality_gate_wait`). `cli/wire.go:586-593` refuses `review.mode: "ai"` as not
wired in yet, so aireview and the session it holds are models of code that the
repository tests and no command reaches.

**Cassette** — recording, saving, replaying; scopes are candidates, which ask and
are answered in any order.

**Agent** — the tools of a call, `usageOf` and `resolvePrice`, and what each node
does with the reply's usage.

**Suites** — packages whose tests end side by side, pass, fail or die; the
stream cut by a capture; how each runner reads it; the test node's route.

**Lint** — `unscopable`, `LsTree`, `CheckIgnore`, `Diff`, `LsFiles` are the git
commands behind the scope, each of which may fail; then the tool, and what
`counts`.

`MCDispatcher`, `MCGate`, `MCQueue`, `MCWork`, `MCTrees` and `MCAdapters` give
the constants their values. The last three explore several modules that share
no state, and extend those there are theorems about (so `Init`, `Next` and
variables bear the component's name: `AgentInit`, `loopVars`); the others
(`CopyTree`, `Redaction`) they instantiate. Each is explored while the
others stay as they began, so the states of the run are the sum of the parts',
not their product; the constant `Parts` says which. Where one component does depend on another, the interface is an action
of the model (`NodeResults`, `ChildSteps`, `RunMoves`, `ReviewRun`'s inputs) that
takes every outcome the other's module shows possible.

## 3. The runs

| Run | Property | What it says |
|---|---|---|
| `dispatcher` | `JournalValid` | the journal is always one Validate accepts |
| | `PatchBeforeJournal` | a completion in the journal has its patch in state.json |
| | `ViewIsCommitted` | a node runs on exactly what the accepted results add up to |
| | `NoOrphanBesideANode` | no node runs beside what a dead dispatch left |
| | `PlaceIsKept` | attempts count on from the last, the loop has a node to go on at, the manifest claims no end the journal does not |
| | `SpendIsKept` | the ledger is the replay of the journal, and each kill is charged at least a step |
| | `PauseHolds`, `CeilingHonoured` | nothing starts past an unanswered pause, or at the ceiling |
| | `RefinesRunSpec` | crashes, retries and files included, it is a run of `RunSpec` |
| | `DispatchEnds` | every dispatch ends |
| `gate` | `PlansPaidFor`, `NoWorkUnapproved` | no plan bought twice for one request; no work on a plan nobody approved |
| | `RequestOnRecordIsNotCoded` | no work is done while the blackboard holds an unanswered request for another plan |
| `queue` | `NothingLost`, `OneAtATime`, `CutOffIsReported`, `NeverRemade`, `RemovedIsNeverRun`, `ApprovalReachesTheRun` | no goal lost, run twice or beside another, and none past its gate unapproved |
| `queue_ends` | `WorkEnds` | a start that is not killed stops by itself |
| `work` | `MoneyHolds` | envelopes fit the ceiling, and the parent is charged what candidates spent, once |
| | `CandidatesKept` | paid work is never cleared, and join picks of ended runs |
| | `DoneIsJudged` | a run is done on verdicts of the tree it ends with, strictly read, by nodes it has, and within its policy |
| | `RepairIsAimed` | a repair is asked for what failed, and files no reply named stay listed |
| | `PoolAndLoopEnd` | the pool drains (`AttemptEnds`); no run repairs for ever (`LoopEnds`) |
| `trees` | `ReturnedStands` | a worktree Create returned stays whole and its own until it is released |
| | `CopiesStand` | a copy is whole, is not taken by another call, and no link leads out of it |
| | `TreesLetGo` | releasing, failing and clearing lose no commit and leave nothing in the way |
| | `ForkIsItsVisits` | a fork is whole, of one tree, begins as its visit did and numbers visits alike; every dollar is in one run's journal |
| | `OnlyRecordedIsCommitted`, `NothingIsLost` | belay commits only the run's own, once, and removes only what is somewhere else |
| `adapters` | `ReapsItsOwn` | what a dead belay left is killed, and nothing that only looks like it |
| | `StreamIsWhole` | redaction does not depend on how a stream was chunked, and a cut is said |
| | `ReplyIsItsOwn` | a caller gets the answer to its own request; a tool is called only where the list the client had when it looked named it |
| | `VerdictIsEarned` | a review passes only on a gate that passed and, on a server that held still, on all its issues; a scan only where it ended well and, if it waits for the gate, on a pass of its own |
| | `ReplayIsTheRecording` | a whole recording replays as it went, in any order of candidates |
| | `LedgerCovers` | the ledger holds what replies were worth; a plan call changes nothing |
| | `VerdictIsTheSuites` | a verdict of the tests comes of a command that ended, and read whole is the suite's |
| | `GateIsTheChanges` | no failure of git hides a finding of the run's, nor lays old ones at its door |
| | `HeldToItsStart` | a change that passes obeys the rules the run started with; a forbidden path is for good |

Most properties of the last three runs are conjunctions of named parts, each in the
component's module with what it says. Every part has a mutant of its own.

Deadlock is not checked: a run that ended, and a bound that was reached, are
legitimate places to stop.

Violated, each stating what a document, comment or message of the repository
says (section 7): `gate_replaced`, `queue_promise`, `queue_limit`, `green_suite`,
`paid_is_paid_for`.

## 4. Bounds

* `dispatcher`: three dispatches, one to die, one to die while recovering, one
  to recover from both; the third in worlds where little else goes wrong. Four
  nodes: one that spends, one that loops and adds to the blackboard so that a
  patch applied twice shows, one that supervises, one that pauses. Every kind of
  result (error, limit, unusable, unknown successor, each status). Four steps, a
  ceiling of three.
* `gate`: two documents, to edit one into the other and back; one request; three
  dispatches.
* `queue`: two worker processes (symmetric), a person, two goals, three starts,
  one kill, Ctrl-C anywhere: one start may be cut off and be picked up by another
  racing a third. `queue_ends`: one worker, two starts, a kill.
* `work`: two candidates and a pool of two, two attempts, a ceiling unset, too
  low to divide or raised in between; candidates that end in each way. Six
  wirings, three files on disk of which a reply may name one by another
  spelling, one the policy guards and one it forbids, give-up 0 (no
  repair at all) and 2, one attempt of the agent cut short.
* `trees`: two ids and two callers (symmetric), at most two of the moves,
  cancellations and deaths in one worktree behaviour; copies of a tree two levels
  deep with a link at each level, of every text that matters, three hops of links
  (40 in the code: what counts is that following stops); a source, a fork and a
  fork of the fork, which inherits from both, four visits of the source's own, which
  take it round its fix loop, and one of each fork's, two edits, Ctrl-Cs, resumes and
  deaths, two files of which nodes edit one, and a fix that gives up after one
  round; six kinds of run to publish, two deaths, two steps of a person.
* `adapters`: two pids and two starts, one death of belay, so that a pid is
  reused before and after it; texts of up to a dozen symbols with a credential of
  each shape and every chunking of them; two goroutines and four calls, which leave
  room for a second list beside a call; up to five issues on pages of two with a cap of two pages; two candidates with two
  requests each; prices for two of three models; two packages of up to two tests;
  two files of which one was committed; two layers of policy and three edits.

## 5. Fairness

`DispatchEnds` assumes weak fairness of `Advance`, what the dispatching process
does itself: a live process is scheduled, `graph.node_timeout`, which validation
wants above zero (`config/validate.go:147-153`), ends the context of a node that
hangs, and that node then returns. The last is an assumption about nodes, asked of
them by `graph/node.go:137-139` and made by `Heeding`, which is all nodes in the
runs: `execute` only ends the context and reads the deadline after `Run` returned
(`graph/dispatcher.go:1369-1388`), so a node that ignores its context and never
returns holds the dispatch for ever, and `DispatchEnds` says nothing of it.
`NodeTimesOut` alone does not make the property true: with nodes that are not told
(`NodeTimesOutUntold`, the mutant) a hanging node has nothing to return. Nothing is
assumed of `Open`, `Cancel`, `Crash` or a person. A supervising node has no deadline
in the code, so none hangs in the run's graph: its pool ends by `AttemptEnds`.

`WorkEnds` assumes weak fairness of each worker's own steps: the process is
scheduled, and a dispatch it makes ends, which is what `DispatchEnds` says.
A person who approves a goal gives a worker more to do and can do so as often as
they like, so the property lets that excuse it.

`AttemptEnds` assumes weak fairness of what the attempt and its candidates do
themselves (`Advance`), none of failures, cancellation or death. `LoopEnds`
assumes weak fairness of the nodes (`Work`), which is `DispatchEnds` again, and
nothing of an attempt that is cut short, which is bounded.

The other modules state safety only.

## 6. The proofs

TLAPS proves, for every value of the constants:

* `DispatcherProofs`: `JournalAlwaysValid`, `OrphansReapedInTime`,
  `PatchesPrecedeCompletions`, `TornTailsAreDropped` (on lemmas of `JournalProofs`);
  `RunIsTyped`, `PlaceAlwaysKept`, `SpendAlwaysKept`, `CeilingAlwaysHonoured`, `PausesHold`, `RerunsSeeTheFirstSnapshot`, and, where
  results supersede each other, `ViewsAreCommitted` and `DispatcherImplementsRun`:
  every safety property of the `dispatcher` run, with the refinement;
* `GateProofs`: `PlansAlwaysPaidFor`, `NoWorkStartsUnapproved`, of the `gate` run;
* `QueueProofs`: `OneGoalAtATime`, `CutOffIsAlwaysReported`,
  `RemovedGoalsStayRemoved`, `NoRunIsLost`, `MadeOnlyOnce`,
  `ApprovalsReachTheRun`: every property of the `queue` run;
* `WorkProofs`: `CandidatesMoneyHolds`, `CandidatesAlwaysKept` of `Candidates`;
  of `WorkLoop`, `DoneIsAlwaysJudged`, `RepairsAreAimed`, and their parts
  `RunsEndJudged`, `NothingForbiddenIsDone`, `RepairsAnswerTheirGate`,
  `MissedFilesAreNamed`, `NoRouteLeadsNowhere`;
* `TreesProofs`, of `Worktree`: `ReturnedWorkspacesStand`, `TreesAreLetGo`; of
  `Publish`: `OnlyTheRunsIsCommitted`, `NothingOfTheRunIsLost`;
* `ForkProofs`: `ForksAreTheirVisits`, of `Fork` and of what `Visits` computes of every
  journal;
* `AdaptersProofs`: `OnlyItsOwnAreReaped` of `Processes`; `RepliesAreTheirOwn` and
  its parts `AnswersAreTheirOwn` and `CallsAreOfListedTools` of `McpSession`, from no
  assumption at all; `GatesAreTheChanges` of `Lint`, from none; `VerdictsAreEarned` of
  `Reviews`; `RunsAreHeldToTheirStart` of `Policy`; `LedgersCover` of `Agent`;
  `VerdictsAreTheSuites` of `Suites`; `ReplaysAreTheRecording` of `Cassette`, from none.

Each rests on its module's own named assumption, which TLC evaluates on the
run of that module: `NamesAssumption` (the two pseudo-nodes are not names) and
`DispatcherAssumption`, `QueueAssumption` (bounds are natural numbers, nobody is
not a worker), `CandidatesAssumption` (two candidates at least, natural numbers,
and that what a step may cost has a largest value), `WorkLoopAssumption`,
`WorktreeAssumption` (no id is named as the run's or another's branch),
`PublishAssumption` (the plan is no file of the change, the winner is a
candidate, and only a run on a branch is promoted from a fanout or has a pull request:
`docs/config.md:372` and 460),
`ReviewsAssumption` (a page holds something), `PolicyAssumption` (what a rule
set is), `AgentAssumption`, `SuitesAssumption` (the runners are belay's five), `ProcessesAssumption`, `GateAssumption` (the dispatcher's graph is plan, approve and
code, its world the plan file, and no Entry skips the plan). Two theorems of
`DispatcherProofs` have a hypothesis besides, stated below.

*Dispatcher.* None of the first four is inductive by itself: that the journal
validates after a node_finished is appended depends on the process still having
in hand the execution whose start is the last record. `Inv` ties the process to the files:
the journal is open exactly while an execution is in hand (`JournalInv`), its
last record is then that execution's start, and the completion about to be
written is that start's; no torn tail while a process is up (`TornInv`); an
orphan only where the journal is still open and the reaping has not happened
(`OrphanInv`); before the completion of an accepted result, its History entry
is there (`PatchInv`). `JournalProofs` has what appending a record does to
validity, openness and the finished records. One lemma per action, then
`NextInv`, and the theorems follow by PTL. `TornTailsAreDropped` is of a record
half-written when the process died (`ndjson.go`): it is dropped before anything
is appended, and no run states it, because the proof does for every journal.

*Queue.* `OneAtATime` needs the lock: every worker that is not idle or starting
holds it (`LockInv`); that only one goal is claimed needs Claim's own check and
that nothing else makes a goal claimed (`QueueInv`, `WorkerInv`: no decision
settles a goal as claimed). `CutOffIsReported` needs what the last start in the
log says while a worker is in each phase (`StartInv`), and the lock, without
which another worker's start would overwrite it.

*The run.* Beside `Inv` is what else a step relies on, in
layers that are each kept given those below: every variable's type (`TypeInv`);
where the loop stands, in the journal and in memory, so that what memory holds is
what reading the journal again would give (`CtlInv`: `PlaceInv`, `EndedInv`,
`VisitInv`); the ledger and what each kill is charged (`SpendInv`, `ChargesInv`); that
attempts of a visit count on from one (`AttemptsCount`); what the result in hand may
be (`ResultInv`, `RefusalInv`); and, for the blackboard, that what state.json has beyond the committed
one is what a result of this very visit changed (`BoardInv`). The last is not
inductive for every node there could be: a re-run that sets fewer fields than
the attempt that died leaves the others as that one set them, for no snapshot
undoes a patch. `ResultsSupersede` names what this asks of the nodes.
`ViewsAreCommitted` and `DispatcherImplementsRun` have it for a hypothesis, the
`dispatcher` run's graph meets it (TLC evaluates it there), and the gate is the node
of belay that does not (section 7). The refinement is by cases: each step of
`Dispatcher` is a resumption of the run, a result taken or lost, a mark of its end,
or leaves what `RunSpec` sees alone (`RunStep`).

`Replayed`, which `SpendIsKept` compares the ledger with, walks the journal by a
recursive function. That there is one such walk (`WalkIsUnique`), and that one more
record takes it one step on (`WalkStep`), is by the first place where two walks
would differ.

*Gate.* A person's decision is written into the blackboard between two dispatches; the
gate decides by the snapshot its visit took, which may be older, and what it then
patches may put the older block back. So the invariant (`GateInv`, over the
dispatcher's `Inv`, `TypeInv`, `CtlInv` and `HandInv`, which a person's writes leave
standing) is of every plan block still to be read: state.json's, the committed
one, and that of the visit's snapshot. None is approved but where a person approved
the plan in hand, withdrawn since or not (`WasApproved`), none has served more requests than it holds, and there are at most
as many plans as one and the requests it has served (`Sound`); a plan the plan node
is about to write is the first, or was asked for (`Due`: the request that sent the
gate back may be withdrawn, or overtaken, before the plan node reads it); no snapshot
asks for more than state.json does (`SnapSound`); and a plan is new to everybody until
the gate has paused over it (`PauseSeen`), so that AwaitsApproval, which reads the
manifest and the last completion, never holds for a plan nobody was shown.

*Candidates.* `Inv` says what a candidate's directory, workspace and run may be
beside what a worker is doing with it (`CandidateInv`: nothing runs in a workspace
that is not recorded as made, nothing is spent before, a step is begun within the
envelope, and the workspace holds the work of every step); how far an attempt is
(`PoolInv`); that there is a highest ceiling, and every envelope is at most the
share of what it left (`SharesInv`: the shares of a lower ceiling are smaller, and
`raiseEnvelope` takes the larger); and what the parent was charged (`LedgerInv`,
`SettledInv`). `MoneyHolds` then is about sums over any number of candidates: lists
that compare one by one compare in sum (`SumMonotone`), and N amounts of at most a
share sum to at most N shares (`SumBounded`), which fit because the division rounds
down (`SharesFit`). `WinnerStands` needs that ties are broken by id, so that Best
has a candidate to choose (`BestIsOffered`).

*WorkLoop.* `WorkLoopAssumption` says what a wiring is (six options, and a
candidate neither asks for approval nor fans out again), that the names of files
on disk fold apart, as those of one directory do on a file system that folds
them, and that the highest severity is one that fails a review. None is inductive: that a passing verdict is of the tree as it
stands when a run ends follows from where the run has been since. `Inv` says
which nodes a wiring has (`WiringInv`: a run is at one of them, one without a
policy has no verdict of one, one that fans out never edits its own tree), which
verdicts stand at each gate (`JudgedInv`: code, write and fix may spoil them and lead
back to the first gate; policy, test and review add one each), what a standing
verdict of the policy says of the tree (`PolicyInv`), which verdict a repair
will be told of (`CauseInv`), and that a changed file is in the record or on the list of
what no reply named (`NamesInv`).

*McpSession.* An answer is told from the frames around it by its id alone, so the
invariant is of the frames: all under way bear the id of the request they answer,
or none (`SessionTypeInv`, `Honest`); a caller that awaits has an id (`RequestInv`), so a
frame without one is not taken for its answer; what the client takes the
server's tools to be is the last list it stored (`SessionInv`); and a call that
looked keeps to the list it saw, which stays where it is in `lists` (`Listed`). No
bound on calls or frames is used.

*Queue's runs.* `NothingLost` and `NeverRemade` are about what a worker read some
steps ago. `RunInv`, beside the invariant above, says that a claim names a run no
goal had (`GoalsInv`, `FreshInv`: the library's facts of cardinalities), so that
what is done to one goal's run is done to no other's; what a claimed and a parked
goal's run look like (`StandInv`: the gate's pause is in a claimed goal's run only
while it stands); and, for each place of a worker, what it decided on and still
holds (`Hand`), because only the lock's holder moves a claimed or approved goal.
`ApprovalReachesTheRun` is about two records of one decision, the run's and the
queue's, written one after the other by a person while a worker drives. `PassInv`
says that an approved goal's run is past its gate or over, and a waiting one's is
that or still asked (`GoalsPass`); that what a worker is about to drive or to
settle as waiting stands so (`WorkersPass`); and that a goal offered to a person for
approval is never claimed again, so that recording the approval finds the run
past its gate whatever came between (`PeoplePass`).

*Processes.* That nothing but belay's own is killed needs a start time to be one
process's for good (`BirthInv`) and that no record bears a stranger's
(`StrangerInv`, the start that a reading is about to be compared with among
them). That nothing of belay's is left needs each call to know what it started
and to have it on record once it waits (`KnownInv`), and what outlived belay to be
on record until it is dealt with (`OrphanInv`). `ProcessesAssumption` (what is no
pid, and names of nobody's that no call has) is all it assumes.

*Worktree.* Calls of different ids interleave git command by git command, and a
person may move any branch meanwhile. No two calls are at one id (`CallsInv`: the
isolator's claims, and that a workspace is released by who has it), so a step
changes only what is of its own id (`OnlyAt`) and every other call fits what is
on disk as it did (`Fits`: what may be registered at the id of a call at each
place, `AtReg`; what it may yet delete, `AtRefs`; that none is at a workspace in
use, `Spares`). A branch made for an id holds of the run's work and the id's
(`RefsInv`), and is deleted only at a commit that the run's branch or theirs
holds, neither of which ever goes: so no commit is lost. The other two parts of
`TreesLetGo` follow place by place from `Fits`.

*Publish.* Belay may die at any step, and a person then does as they like in the
trees. `StageInv` ties the manifest's status to where belay is; `MergingInv` says
that it commits and merges only while the run's branch is not yet marked as
promoted; `WinnerInv` that what was committed of the winner is what its tree
holds, or somebody has been at it; `ScopeInv` that nothing comes into the tree
between the accounting and the commit; `OnceInv` that without hands a second
attempt finds the first one's commit; `PlanInv` that a plan git sees in the run's
tree is on its branch by the time the run's own copy goes.

*Lint.* `FoundInv` says what may be found in a file beside how it was changed, and
`ScopeInv` that a change set is used only if nothing that git ignores is in it and
every command it takes was read to its end; then it is the change's own.

*Reviews.* `PagesInv`: of a server that held still, what has been fetched are the
first pages of its issues, in order, so that a page shorter than asked for, or
the count the server gave, is the end of them (`PageFollows`). `ScanExitInv`: a
scanner that waits for the gate exits 0 only on one that passed; of one that does
not, only that it ended is known.

*Policy.* Belay.yaml may be edited while the run is paused, and the next dispatch
merges it again. `PinInv` says that the rules in force are at least as strict as
each layer the run started with (`AsStrict`, which `tighten` keeps and adds to:
`TightenIsAsStrict`), and `JudgedInv` that what is past the gate broke none of them.
What the gate judges is at least what changed, which so has no more files nor
lines than were counted (`PartIsNoMore`).

*Agent.* `CoverInv`: what a reply in hand was worth is in its usage or in the ledger
already. A reply's tokens are priced model by
model, and a sum of more, or of more each, is no less (`TotalGrows`; sums are
cardinalities, as no induction over data is to be had). `AgentAssumption` is what
the price table's comments claim: it is right about what it lists, no model is
dearer than the dearest on it (`agent/claude/price.go:131-133` says that one that is
"is still under-charged on the fallback path"), and an alias for several
models is priced as the dearest of them (`price.go:150-155`). `OfferInv` says that a
plan call is offered nothing that writes.

*Suites.* A verdict is read off what was captured when the tool has ended, so the
invariant is of what was printed by then: every line is of a test that ended and
says what the tool says of it, or is part of what the tool prints as it finishes
(`OnlyOfTests`); and no test that ended is without a line, nor a tool that finished
without its tally (`EveryTest`). What was kept is of that, and all of it unless it
was cut (`CapturedIs`). Each parser is then a lemma of its own: go's counts the lines,
so that the names are all of the failures' (`GoReadsItsOwn`); the others take the
tally, which is of every test (`TalliedReadsItsOwn`). However much was cut, no parser
names more than it counts (`ReadIsBounded`). The theorem holds whatever order
the packages' tests end in, since nothing of it depends on the order of the lines.

*Cassette.* The tape has what each scope was given, in the scope's own order,
whatever the others were given in between (`Placed`: where the k-th answer of a
scope is grows with k, and nothing else on the tape is under a fingerprint of the
scope). So the n-th exchange under a fingerprint is what the scope got the n-th time
it asked that (`IndexFinds`, which counts on both sides and needs no induction).
`RecordedInv` says that the file is of a whole run, as long as none of its processes
was killed or left it to another; `ReplayInv` that a cursor counts how often the
scope asked that before, which for a replay that goes on in a new process means
never, or a scope asks the same thing twice and nothing is promised.

*Fork.* The visits of a journal are what a walk over it computes, and the properties
compare them between two journals. So the proof first says, of every valid journal,
what the walk holds at each record (`Seen`: the visits so far are those the graph
began, in order, each with its executions and its number) and so what `VisitsOf` is
(`EveryJournalsVisits`). `ForkInv` is then inductive. `AnyInv` and `RunInv` are of each
run by itself: its journal is valid and the graph begins every execution with
attempt 1 and takes it up again with another, so that visits can be told by
attempts (`Ones`) without walking; every visit of a run's own has its snapshot, but one
whose node has not run yet; what a blackboard cost when a visit began is what its
journal had charged by then and what the run inherited. `LinkInv` is of a fork and the run it
names: the start, number, step and snapshot it wrote down are that visit's, its
journal begins with the records before it, and as long as it has finished nothing of its
own it stands at that visit, with its blackboard. Since journals only grow and
snapshots are never rewritten (`Follows`, `Kept`), a link holds whatever the
source does next, and whatever forks of the fork are made. `BankInv` counts
dollars as a set of what each record charged, so that a sum is a cardinality.
`CmdInv` says, stage by stage, what the command has read and made: the source may be
resumed and edited at each, but a tree's files only grow newer, so two surveys that
agree pin down the copy that was made between them (`Between`). Whatever a run does is
a step of that run alone (`OneRun`), and one lemma per action shows it is one or,
for the command, what it keeps. `ForksAssumption` says what the constants are: the source is
not a fork, there are finitely many runs, `None` is nothing a run writes down, and a
fix loop has a round. A tree without files, which the small instance does not have, showed
that `CopyTree` has to make the directory first, as the isolator does (`dircopy.go:851`).

Only model-checked: `RequestOnRecordIsNotCoded`, which needs more of the code node's
visit than `GateInv` has; liveness (`DispatchEnds`, `WorkEnds`, `AttemptEnds`,
`LoopEnds`), out of the prover's reach; and everything of the modules with RECURSIVE
operators (`CopyTree`, whose `CopiesStand` is about what following links comes to,
and `Redaction`, whose `StreamIsWhole` is about every chunking of a text). What a
recursive function computes is reasoned about, where a theorem needs it
(`Replayed`, `VisitsOf`, the sums of `Ledger` and of the candidates), through its
defining equation and the least position at which a claim fails, which needs no
induction rule.

## 7. Where the code and its documentation disagree

Each of the first five is a run TLC ends with a counterexample, and an entry of
`findings` with the quotation.

1. `gate_replaced`: approve, gate dies, ask for a new plan, edit the plan file: the
   gate's next attempt works from the snapshot with the approval, goes on to the code
   node, and records the edit by patching the plan block as that snapshot has it. So
   the approval comes back, the request is gone, and the plan somebody asked to
   replace is coded. Without an edit there is no patch: the code node finds the
   plan not approved and refuses it, at no cost (`RequestOnRecordIsNotCoded`,
   which holds), and the run ends failed, its request never answered. Both need a
   process killed inside the gate, which returns promptly, and a person who
   changes their mind before the next resume.
2. `queue_promise`: a worker that has found nothing to do still holds the lock;
   a goal added in the moments it takes to stop is said to be taken by it, and
   is not.
3. `queue_limit`: a run that meets graph.max_steps before its approved gate runs
   again still ends in the gate's pause, and is parked as waiting for approval.
4. `green_suite`: a Go test that takes its process down is counted neither as
   passed nor as failed; if another test of the suite passed, the change goes to
   review.
5. `paid_is_paid_for`: when the agent's reply was paid for and its report of
   changed files cannot be read, code and fix return no usage.

Met while modelling, and not among the runs:

* `nodes/approve/approve.go:280` says that going on silently, "leaving the audit trail
  claiming a digest that no longer describes the document", is what would be
  wrong. A gate killed between its patch and its completion is run again on its
  first snapshot: the blackboard that had the digest of an edited plan recorded
  is not consulted, and if the plan was put back to what the snapshot says, the
  comparison of `approve.go:320` finds nothing to record. state.json keeps the digest of
  the edit, which `planarchive/file.go:86` later refuses to file. This is where a
  result of one attempt leaves out a field that another set: `graph/dispatcher.go:331`
  says that a re-run "cannot half-apply or double-apply anything".
  `tlc -config MCGateDigest.cfg MCGate` shows it (`HandedOnAsRecorded` is violated).

* `nodes/code/code.go:95-98` calls a plan that is not approved at the code node "a graph
  wiring bug: the approve node should have paused the run first". The second half
  of item 1 is a run of the ordinary graph that gets there.
  `tlc -config MCGateRefused.cfg MCGate` shows it (`CodeIsReachedApproved`).
* `sonar/mcp/client.go:386-387` says that no call is sent for a tool that was not
  "most recently advertised". The lock is free between the look at the list and the
  request, so another goroutine may store a list without the tool in between.
  `tlc -config MCToolsListed.cfg MCAdapters` shows it (`MostRecentlyAdvertised`);
  what holds is `OnlyAdvertised`, of the list the client had when it looked.
* `sonar/mcp/client.go:292-297`: the client is initialized only once the server has
  been told so, and "No tool is ever called before this method has returned nil".
  `initialized` is set before the notification that ends the handshake is sent, so
  another goroutine may go on while, or although, that fails.
  `tlc -config MCToolsReady.cfg MCAdapters` shows it (`ReadyOnceTold`).
* `sonar/scanner/scanner.go:418-420` says that a scanner told not to wait "leaves belay with
  no verdict at all", so that Review gives an error. The verdict is the last line of
  the whole output that looks like one: where the build or a plugin prints that of
  another project, and the scan ends well, it is taken for this one's, and passes.
  `tlc -config MCNoWait.cfg MCAdapters` shows it (`NoWaitNoVerdict`). `ScanPassIsReal`
  therefore asks for the scanner's own verdict only of scans that wait, as
  `quality_gate_wait` has them do by default.

Read from the code rather than run:

* `state/state.go:196` calls History the log of completed executions; a process
  that dies between applying a patch and journalling the completion leaves an
  entry that the re-run, under another Seq, does not replace.
* `planarchive/file.go` calls filing "a move, not a copy, and never a loss";
  with an `archive_dir` that git ignores, a branch run's worktree holds the plan
  and its commit does not, `missingFromCommit` looks at the worktree, and the
  worktree may be removed after. `PlanIsMoved` is therefore stated for
  directories git does not ignore.
* `isolate/worktree/worktree.go:381` to 428: a Create that fails takes back what it
  made; one that is cancelled unwinds with the cancelled context, so the git
  commands of the unwinding fail too and its branch stays. `FailedLeavesNothing`
  excepts cancelled calls, and Reclaim clears what they leave.
* `nodes/write/write.go:250`: "the record of what the agent left out must not shrink
  as the loop goes round". A file found unreported, put back by a repair and
  changed again is by then part of the record the loop hands on, and is no
  longer listed (the history variable `mended`).
* `exec/exec.go:180`: a TimeoutError "reports that a command exceeded its deadline and
  its process group was terminated". A command that exits as its deadline passes
  is reported so too, with nothing left to terminate.
* `docs/config.md:75`: record mode saves "every exchange". The cassette is written
  when the command ends, so a killed one leaves none, and a resumed one records
  into a new cassette.
* `docs/config.md:583`: a required test is one the change touches. A repair adds to
  the recorded files and none leaves them, so a test file changed and put back
  still satisfies the rule.

graph.max_steps is kept as the code keeps it: a step whose process died between
node_finished and the manifest is not counted, so a run can execute one step
more for each such death. No property bounds the steps by it; `DispatchEnds`
and `RefinesRunSpec` hold with it.

## 8. Assumptions, and what is not modelled

The run:

* One process dispatches a run at a time. Nothing in the code enforces this for
  runs (there is no run lock); the queue's worker lock does for its goals. A
  person's commands and edits happen between dispatches.
* Every node returns once its context has ended (`Heeding`, section 5): the
  dispatcher waits for it however long that takes.
* A file saved by `state/atomic.go` is saved whole or not at all; only the
  journal can end in part of a record.
* Spend has one dimension; prices and token counts are told apart in `Agent`.
* The gate is configured to ask (`--no-approval` appears in `Queue` only).
* After a crash between a run's end marker and its manifest, the manifest says
  running for good: `PlaceIsKept` has the one-sided truth.
* Queue: an append to the log happened or did not (log lock, fold before write,
  torn line left out of every read and healed by the next append). A run resumed
  by hand is one step, and only of a goal that waits or is paused. A person
  deletes only the copy of a goal that waits or was approved, and that no worker
  is on. The moment for which `WorkerActive` itself holds the lock, which
  `takeWorkerLock` waits out, is left out. Removing a lock file is not modelled.

Its work:

* `WorkLoop` has a policy in a guarded run, as the commands wire it;
  `rc.Policy == nil` in the policy node is not modelled. Prompts are reduced to
  which gate's verdict they are about.
* `Policy`: names that fold alike are `WorkLoop`'s; what a glob matches is a
  given set; runs with no record are `WorkLoop`'s; nobody edits between the
  reading of the change and the reading of its content.

Trees:

* `Publish`: a person works in trees only while belay is not running, so not
  between `accountFor` and `git add --all`. A crash inside what the command does
  after a complete run is not retried by the code either, except by
  `belay archive`, which is modelled.
* `Worktree`: claims are a process's own memory; two processes have different
  ids, as run directories are. A branch contained elsewhere when it is asked and
  not when it is deleted (`releaseBranch`) is not modelled.
* `Fork`: not a source on a branch whose worktree is gone, fingerprints of
  another scheme, or deviations that are only said.

What nodes lean on:

* `Processes`: start times are unique for a pid; nobody forges a record; the
  record directory can be made. The pid that `signalGroup` is about to use
  (`exec.go:506`) is held until the process is waited for.
* `Redaction`: the flush of a pending tail over its maximum, word boundaries of
  some patterns and white space wider than the overlap are left out.
* `McpSession`: `terminate` waits for a child that SIGKILL ends.
* `Reviews`: issues that shift between pages while they are read, as the package
  documents. A scanner that waits for the gate is taken at its documentation: it
  exits 0 only on a gate that passed (`sonar/scanner/parse.go` and its fixtures). Not
  modelled: its dashboard URL, and the report's severities beyond the gate.
* `Cassette`: not Scrub and DetectDrift. `Agent`: not argv, session resume and
  the MCP configuration file; no model costs more than the dearest the table
  has.
* `Suites`: processes of jest's and pytest's that die in the middle of a test.
  `Lint`: a file git ignores by its name and work the agent commits, which the
  sources name as blind spots.
* Single commands and calls end by the deadlines of the dispatch: their liveness
  is not stated on its own.

Not modelled at all, with the reason in `PROJECT.json`: detection, the viewer and
documents, the timeline and the listings, which parse or display; migrations,
which run alone and are covered by the repository's tests.

## 9. What comes next

1. Two dispatches of one run at once, the hazard no module has.
2. Candidates' own dispatchers as `Dispatcher` instances, if a bound can be found
   under which TLC finishes.

To check: `tlc -config MCDispatcher.cfg MCDispatcher` (and so on, as `runs` in
`PROJECT.json` pairs them), `tlapm DispatcherProofs.tla`, and the same of the
other modules of section 6.
