-------------------------------- MODULE Fork --------------------------------
(***************************************************************************)
(* belay fork (internal/fork, internal/cli/fork.go): a new run, in a copy  *)
(* of another's tree, that re-runs one visit of it from the blackboard the *)
(* visit was given, without paying again for the nodes before it.          *)
(*                                                                         *)
(* The command reads the source in several steps and nothing locks it: the *)
(* source may be resumed, a person may edit its files or its plan, and     *)
(* belay may die, between any two of them.  The runs themselves move by    *)
(* what module Dispatcher establishes, in larger steps.                    *)
(*                                                                         *)
(* The graph is cut down to plan, code and a fix loop.  A tree is a        *)
(* version of each file, which an edit raises, as it moves a file's        *)
(* modification time.  Plans are versions too.  Left out: a source on a    *)
(* branch whose worktree is gone, fingerprints of another scheme, and the  *)
(* deviations that are only said.                                          *)
(***************************************************************************)
EXTENDS Visits

CONSTANTS
  None,           \* what is not there
  ForkSource,     \* the run there is to begin with
  Forks,          \* the runs made by forking
  ForkOf,         \* bound: the one fork there may be of each run
  TreeFiles, Worked, \* the files of a tree, and those of them nodes edit
  GiveUp,         \* belay.yaml's graph.give_up
  MaxVisits,      \* bound: the node executions of a run's own
  MaxTroubles     \* bound: edits, Ctrl-Cs, resumes and deaths of belay

Runs == Forks \cup {ForkSource}

\* What is written down of a run, and what of a tree has been copied.
Origins == [run : Runs, node : Names, visit : Nat, start : Nat, inherited : Nat,
            changed : BOOLEAN, step : Nat]
Manifests == [status : {"running", "paused", "completed", "failed"}, step : Nat,
              floor : Nat, origin : {None} \cup Origins]
IsPartTree(t) == \E D \in SUBSET TreeFiles : t \in [D -> Nat]

\* What a constant may be.
ForkAssumption ==
  /\ None \notin Manifests \cup Origins /\ ~ IsPartTree(None)
  /\ ForkSource \notin Forks /\ IsFiniteSet(Forks)
  /\ {"code", "fix"} \subseteq Names
  /\ ForkOf \in [Runs -> Forks \cup {None}]
  /\ Worked \subseteq TreeFiles
  /\ GiveUp \in Nat \ {0}
  /\ MaxVisits \in [Runs -> Nat] /\ MaxTroubles \in Nat
ASSUME ForksAssumption == ForkAssumption

VARIABLES
  man,      \* manifest.json of each run
  journal, snaps, board, files, planFile, \* the rest of its directory
  proc,     \* what drives the run: none, live, or one (pause after one node)
  cmd,      \* the fork command under way
  troubles, \* how many there have been
  bank,     \* history: all that was ever paid
  worth,    \* history: what each run's blackboard has cost, whoever paid
  worthAt,  \* history: the same as each execution began
  copied,   \* history: the tree and plan each fork began with
  gaveUp    \* history: forks whose first node gave up

runDirs == <<man, journal, snaps, board, files, planFile>>
forkHist == <<bank, worth, worthAt, copied, gaveUp>>
forkVars == <<runDirs, proc, cmd, troubles, forkHist>>

NoCommand == [pc |-> "idle"]
NewTree   == [f \in TreeFiles |-> 0]
NewBoard  == [attempts |-> 0, plan |-> 0]
Empty     == <<>>
Manifest(status, step, floor, origin) ==
  [status |-> status, step |-> step, floor |-> floor, origin |-> origin]

\* f, and v at x.
WithAt(f, x, v) == [y \in {x} \cup DOMAIN f |-> IF y = x THEN v ELSE f[y]]

\* What a node costs, and an attempt of it that was cut short.
Price(n) == IF n = "code" THEN 2 ELSE 1
CutShort == 1

\* The source has its plan, and everything else is before it.
PlanDone == <<RunMarker("run_started"), NodeStarted("plan", 1),
              NodeFinished("plan", 1, "ok", "code", Price("plan"), "accepted")>>
PlanSnap == WithAt(Empty, 2, [step |-> 1, digest |-> NewTree, board |-> NewBoard])

Only(r, v, w) == [x \in Runs |-> IF x = r THEN v ELSE w]

ForkInit ==
  /\ man = Only(ForkSource, Manifest("running", 1, 0, None), None)
  /\ journal = Only(ForkSource, PlanDone, <<>>)
  /\ snaps = Only(ForkSource, PlanSnap, Empty)
  /\ board = Only(ForkSource, [NewBoard EXCEPT !.plan = 1], NewBoard)
  /\ files = Only(ForkSource, NewTree, None)
  /\ planFile = Only(ForkSource, 1, 0)
  /\ proc = Only(ForkSource, "live", "none")
  /\ cmd = NoCommand
  /\ troubles = 0
  /\ bank = Price("plan") /\ worth = Only(ForkSource, Price("plan"), 0)
  /\ worthAt = Only(ForkSource, WithAt(Empty, 2, 0), Empty)
  /\ copied = Only(ForkSource, None, None) /\ gaveUp = {}

-----------------------------------------------------------------------------
(***************************************************************************)
(* A run under way.                                                        *)
(***************************************************************************)
Log(r, records) == journal' = [journal EXCEPT ![r] = @ \o records]

Pay(r, amount) == /\ bank' = bank + amount
                  /\ worth' = [worth EXCEPT ![r] = @ + amount]

OpenNode(r) == journal[r][Len(journal[r])].node
OpenTry(r)  == journal[r][Len(journal[r])].attempt
SnapSeq(r)  == AttemptOneSeq(journal[r], OpenNode(r))

\* How an attempt that was cut short is closed.
Lost(r)     == InterruptedAttempt(OpenNode(r), OpenTry(r), CutShort, "crashed")

BeginNode(r) ==
  LET at == ResolveStart(journal[r])
  IN  /\ proc[r] # "none" /\ ~ IsOpen(journal[r])
      /\ at.state = "runnable" /\ at.node \in Names
      /\ Cardinality(DOMAIN worthAt[r]) < MaxVisits[r]
      /\ Log(r, <<NodeStarted(at.node, at.attempt)>>)
      /\ worthAt' = IF at.attempt = 1
                      THEN [worthAt EXCEPT ![r] = WithAt(@, Len(journal[r]) + 1, worth[r])]
                      ELSE worthAt
  /\ UNCHANGED <<man, snaps, board, files, planFile, proc, cmd, troubles, bank, worth, copied, gaveUp>>

\* The blackboard, and a fingerprint of the tree, before any attempt of the
\* execution has run the node.
SaveSnapshotOnce(r) ==
  /\ proc[r] # "none" /\ IsOpen(journal[r])
  /\ SnapSeq(r) \notin DOMAIN snaps[r]
  /\ snaps' = [snaps EXCEPT ![r] =
       WithAt(@, SnapSeq(r), [step |-> man[r].step + 1, digest |-> files[r], board |-> board[r]])]
  /\ UNCHANGED <<man, journal, board, files, planFile, proc, cmd, troubles, forkHist>>

\* Slip: only the command that made the fork knows of its round.
GiveUpForOfFile(r) == IF proc[r] = "one" /\ man[r].floor > GiveUp THEN man[r].floor ELSE GiveUp

GiveUpFor(r) == IF man[r].floor > GiveUp THEN man[r].floor ELSE GiveUp

\* The first node_finished of the fork's own.
FirstOfFork(r) ==
  /\ man[r].origin # None
  /\ \A i \in FinishedAt(journal[r]) : i < man[r].origin.start \/ Interrupted(journal[r][i])

Trouble == troubles < MaxTroubles /\ troubles' = troubles + 1

\* The run goes on, or stops with the records rs after its node's own.
GoOn(r, finished) ==
  IF proc[r] = "one"
    THEN /\ Log(r, <<finished, RunMarker("run_paused")>>)
         /\ man' = [man EXCEPT ![r].step = @ + 1, ![r].status = "paused"]
         /\ proc' = [proc EXCEPT ![r] = "none"]
    ELSE /\ Log(r, <<finished>>)
         /\ man' = [man EXCEPT ![r].step = @ + 1]
         /\ UNCHANGED proc

EndRun(r, finished, status) ==
  /\ Log(r, <<finished, RunMarker(IF status = "failed" THEN "run_failed" ELSE "run_completed")>>)
  /\ man' = [man EXCEPT ![r].step = @ + 1, ![r].status = status]
  /\ proc' = [proc EXCEPT ![r] = "none"]

\* The plan node writes a plan, and the gate after it approves it; code and
\* fix edit a file or none; fix counts its rounds, and gives up.
RunNode(r) ==
  LET n     == OpenNode(r)
      given == snaps[r][SnapSeq(r)].board
      Finished(status, next, usage) == NodeFinished(n, OpenTry(r), status, next, usage, "accepted")
      Edited == {files[r]} \cup {[files[r] EXCEPT ![f] = @ + 1] : f \in Worked}
  IN  /\ proc[r] # "none" /\ IsOpen(journal[r]) /\ SnapSeq(r) \in DOMAIN snaps[r]
      /\ CASE n = "plan" ->
                /\ planFile' = [planFile EXCEPT ![r] = @ + 1]
                /\ board' = [board EXCEPT ![r] = [given EXCEPT !.plan = planFile[r] + 1]]
                /\ GoOn(r, Finished("ok", "code", Price(n)))
                /\ Pay(r, Price(n))
                /\ UNCHANGED <<files, gaveUp>>
           [] n = "code" ->
                /\ board' = [board EXCEPT ![r] = given]
                /\ \E edited \in Edited \ {files[r]} : files' = [files EXCEPT ![r] = edited]
                /\ GoOn(r, Finished("ok", "fix", Price(n)))
                /\ Pay(r, Price(n))
                /\ UNCHANGED <<planFile, gaveUp>>
           [] n = "fix" /\ given.attempts >= GiveUpFor(r) ->
                /\ EndRun(r, Finished("failed", NoNode, 0), "failed")
                /\ gaveUp' = IF FirstOfFork(r) THEN gaveUp \cup {r} ELSE gaveUp
                /\ UNCHANGED <<board, files, planFile, bank, worth>>
           [] OTHER ->
                /\ board' = [board EXCEPT ![r] = [given EXCEPT !.attempts = @ + 1]]
                /\ \E edited \in Edited : files' = [files EXCEPT ![r] = edited]
                /\ \/ GoOn(r, Finished("ok", "fix", Price(n)))
                   \/ EndRun(r, Finished("ok", End, Price(n)), "completed")
                /\ Pay(r, Price(n))
                /\ UNCHANGED <<planFile, gaveUp>>
  /\ UNCHANGED <<snaps, cmd, troubles, worthAt, copied>>

\* Ctrl-C: the attempt under way is closed, to be run again, and the run pauses.
Stop(r) ==
  /\ proc[r] # "none" /\ Trouble /\ ResolveStart(journal[r]).state = "runnable"
  /\ IF IsOpen(journal[r])
       THEN Log(r, <<Lost(r), RunMarker("run_paused")>>) /\ Pay(r, CutShort)
       ELSE Log(r, <<RunMarker("run_paused")>>) /\ UNCHANGED <<bank, worth>>
  /\ man' = [man EXCEPT ![r].status = "paused"]
  /\ proc' = [proc EXCEPT ![r] = "none"]
  /\ UNCHANGED <<snaps, board, files, planFile, cmd, worthAt, copied, gaveUp>>

\* Between nodes, a death leaves the run as it leaves it before the next.
RunDies(r) ==
  /\ proc[r] # "none" /\ IsOpen(journal[r]) /\ Trouble
  /\ proc' = [proc EXCEPT ![r] = "none"]
  /\ UNCHANGED <<runDirs, cmd, forkHist>>

\* belay resume; an attempt a death left open is closed first.  Bound: no
\* other run is under way.
ResumeRun(r) ==
  /\ proc[r] = "none" /\ man[r] # None /\ man[r].status \in {"running", "paused"}
  /\ Trouble
  /\ \A other \in Runs : proc[other] = "none"
  /\ IF IsOpen(journal[r])
       THEN Log(r, <<Lost(r), RunMarker("run_resumed")>>) /\ Pay(r, CutShort)
       ELSE Log(r, <<RunMarker("run_resumed")>>) /\ UNCHANGED <<bank, worth>>
  /\ man' = [man EXCEPT ![r].status = "running"]
  /\ proc' = [proc EXCEPT ![r] = "live"]
  /\ UNCHANGED <<snaps, board, files, planFile, cmd, worthAt, copied, gaveUp>>

\* A person's hands, once a run has stopped: on a file of its tree, or on its
\* plan.
EditRun(r) ==
  /\ man[r] # None /\ proc[r] = "none" /\ Trouble
  /\ \/ \E f \in DOMAIN files[r] : files' = [files EXCEPT ![r][f] = @ + 1] /\ UNCHANGED planFile
     \/ planFile[r] > 0 /\ planFile' = [planFile EXCEPT ![r] = @ + 1] /\ UNCHANGED files
  /\ UNCHANGED <<man, journal, snaps, board, proc, cmd, forkHist>>

-----------------------------------------------------------------------------
(***************************************************************************)
(* fork.Prepare: what the fork will be, decided before anything is written.*)
(***************************************************************************)
CommandAt(p) == cmd.pc = p
Continue     == UNCHANGED <<runDirs, proc, troubles, forkHist>>
RefuseFork   == cmd' = NoCommand /\ Continue

\* A source whose manifest says running is refused.
AskFork(s) ==
  /\ CommandAt("idle")
  /\ man[s] # None /\ man[s].status # "running"
  /\ ForkOf[s] # None /\ man[ForkOf[s]] = None /\ files[ForkOf[s]] = None
  /\ cmd' = [pc |-> "journal", src |-> s, source |-> man[s]]
  /\ Continue

\* The visit asked for, the last one for 0; none when there is no such visit.
choose(vs, n, ordinal) ==
  LET mine == {v \in 1 .. Len(vs) : vs[v].node = n}
  IN  {vs[v] : v \in {v \in mine :
         Cardinality({w \in mine : w <= v}) = IF ordinal = 0 THEN Cardinality(mine) ELSE ordinal}}

\* The dollars the first n records of j have charged, one by one.
Dollars(j, n) == UNION {{<<i, d>> : d \in 1 .. j[i].usage} : i \in 1 .. n}

\* Slip: the inherited records keep what they cost.
inheritSpending(j, start) == [prefix |-> SubSeq(j, 1, start - 1), usage |-> 0]

\* The records before start, stripped of their usage, and what that came to.
inherit(j, start) ==
  [prefix |-> [i \in 1 .. start - 1 |-> [j[i] EXCEPT !.usage = 0]],
   usage  |-> Cardinality(Dollars(j, start - 1))]

Inherited(source) == IF source.origin = None THEN 0 ELSE source.origin.inherited

Boundary == RunMarker("run_started")

startsAt(prefix, n) == ResolveStart(Append(prefix, Boundary)) = Start("runnable", n, 1)

\* A run has snapshots of the visits it ran, not of those it inherited.
HasSnapshot(s, v) == v.start \in DOMAIN snaps[s]

\* A visit the source kept no snapshot of is refused: its own source has it.
ReadSource(n, ordinal) ==
  /\ CommandAt("journal")
  /\ LET s == cmd.src
         j == journal[s]
     IN  \/ \E v \in choose(VisitsOf(j), n, ordinal) :
              LET had == inherit(j, v.start)
              IN  /\ HasSnapshot(s, v)
                  /\ startsAt(had.prefix, v.node)
                  /\ cmd' = [pc |-> "survey", src |-> s, visit |-> v,
                             snap |-> snaps[s][v.start], prefix |-> had.prefix,
                             inherited |-> had.usage + Inherited(cmd.source), digest |-> Empty]
                  /\ Continue
         \/ /\ \A v \in choose(VisitsOf(j), n, ordinal) : ~ HasSnapshot(s, v)
            /\ RefuseFork

\* A walk takes the files of a tree one by one, in an order of its own.
WithNext(have) == LET f == CHOOSE f \in TreeFiles \ DOMAIN have : TRUE
                  IN  WithAt(have, f, files[cmd.src][f])

Survey ==
  /\ CommandAt("survey") /\ DOMAIN cmd.digest # TreeFiles
  /\ cmd' = [cmd EXCEPT !.digest = WithNext(@)]
  /\ Continue

FilesChanged == cmd.digest # cmd.snap.digest

\* Slip: the plan's digest is compared only for the gate.
PlanRefusedAtGate == cmd.visit.node = "plan" /\ planFile[cmd.src] # cmd.snap.board.plan

\* code builds only the plan that was approved.
PlanRefused == /\ cmd.visit.node = "code"
               /\ planFile[cmd.src] # cmd.snap.board.plan

\* A fix visit that had used every round of its loop is given one more.
noteGiveUp == IF cmd.visit.node = "fix" /\ cmd.snap.board.attempts >= GiveUp
                THEN cmd.snap.board.attempts + 1 ELSE 0

\* accept is --current-files.
checkFilesAndPlan(accept) ==
  /\ CommandAt("survey") /\ DOMAIN cmd.digest = TreeFiles
  /\ \/ /\ FilesChanged => accept
        /\ ~ PlanRefused
        /\ cmd' = [pc |-> "copy", src |-> cmd.src, visit |-> cmd.visit, snap |-> cmd.snap,
                    prefix |-> cmd.prefix, inherited |-> cmd.inherited, digest |-> cmd.digest,
                    changed |-> FilesChanged, plan |-> planFile[cmd.src], floor |-> noteGiveUp,
                    again |-> Empty, fork |-> ForkOf[cmd.src]]
        /\ Continue
     \/ FilesChanged /\ ~ accept /\ RefuseFork
     \/ PlanRefused /\ RefuseFork

-----------------------------------------------------------------------------
(***************************************************************************)
(* Spec.Create.                                                            *)
(***************************************************************************)
Making == {"copy", "surveyAgain", "state", "journal file", "manifest"}

NoRunMoves == UNCHANGED <<proc, troubles, forkHist>>
StepTo(p)  == cmd' = [cmd EXCEPT !.pc = p]

\* The isolator makes the directory, and copies file by file, too.
CopyTree ==
  /\ CommandAt("copy")
  /\ LET f == cmd.fork
     IN  IF files[f] # None /\ DOMAIN files[f] = TreeFiles
           THEN StepTo("surveyAgain") /\ UNCHANGED files
           ELSE /\ files' = [files EXCEPT ![f] = IF @ = None THEN Empty ELSE WithNext(@)]
                /\ UNCHANGED cmd
  /\ UNCHANGED <<man, journal, snaps, board, planFile>> /\ NoRunMoves

SurveyAgain ==
  /\ CommandAt("surveyAgain") /\ DOMAIN cmd.again # TreeFiles
  /\ cmd' = [cmd EXCEPT !.again = WithNext(@)]
  /\ Continue

\* Slip: the copy is taken to be of the tree that was surveyed.
StillTrusted == TRUE

Still == cmd.again = cmd.digest

CheckCopy ==
  /\ CommandAt("surveyAgain") /\ DOMAIN cmd.again = TreeFiles /\ Still
  /\ StepTo("state") /\ Continue

\* The plan Prepare read and the visit's blackboard.
WriteBlackboard ==
  /\ CommandAt("state")
  /\ board' = [board EXCEPT ![cmd.fork] = cmd.snap.board]
  /\ planFile' = [planFile EXCEPT ![cmd.fork] = cmd.plan]
  /\ StepTo("journal file")
  /\ UNCHANGED <<man, journal, snaps, files>> /\ NoRunMoves

\* Whole or not at all.
CreateJournal ==
  /\ CommandAt("journal file")
  /\ journal' = [journal EXCEPT ![cmd.fork] = Append(cmd.prefix, Boundary)]
  /\ StepTo("manifest")
  /\ UNCHANGED <<man, snaps, board, files, planFile>> /\ NoRunMoves

\* Slip: the source's count is carried on as it is.
stepBeforeAsRun(snap) == snap.step

stepBefore(snap) == snap.step - 1

\* Slip: the manifest is written as soon as there is a blackboard.
LastToWriteFirst == cmd.pc \in {"journal file", "manifest"}

LastToWrite == CommandAt("manifest")

Origin == [run |-> cmd.src, node |-> cmd.visit.node, visit |-> cmd.visit.ordinal,
           start |-> cmd.visit.start, inherited |-> cmd.inherited,
           changed |-> cmd.changed, step |-> cmd.snap.step]

\* Writing the manifest is what makes the run; the command then drives it
\* for one node.
WriteManifest ==
  LET f == cmd.fork
  IN  /\ LastToWrite
      /\ man' = [man EXCEPT ![f] =
           Manifest("running", stepBefore(cmd.snap), cmd.floor, Origin)]
      /\ proc' = [proc EXCEPT ![f] = "one"]
      /\ cmd' = NoCommand
      /\ worth' = [worth EXCEPT ![f] = worthAt[cmd.src][cmd.visit.start]]
      /\ copied' = [copied EXCEPT ![f] = [tree |-> files[f], plan |-> planFile[f]]]
      /\ UNCHANGED <<journal, snaps, board, files, planFile, troubles, bank, worthAt, gaveUp>>

\* An error, a Ctrl-C, or a tree that changed takes the copy away again.
Destroy ==
  /\ cmd.pc \in Making
  /\ LET f == cmd.fork
     IN  /\ journal' = [journal EXCEPT ![f] = <<>>]
         /\ board' = [board EXCEPT ![f] = NewBoard]
         /\ files' = [files EXCEPT ![f] = None]
         /\ planFile' = [planFile EXCEPT ![f] = 0]
  /\ cmd' = NoCommand
  /\ UNCHANGED <<man, snaps>> /\ NoRunMoves

\* A death leaves what there is.
CommandDies ==
  /\ cmd.pc \in Making /\ Trouble
  /\ cmd' = NoCommand
  /\ UNCHANGED <<runDirs, proc, forkHist>>

-----------------------------------------------------------------------------
RunMoves(r) == \/ BeginNode(r) \/ SaveSnapshotOnce(r) \/ RunNode(r)
               \/ Stop(r) \/ RunDies(r) \/ ResumeRun(r)

ForkNext ==
  \/ \E r \in Runs : RunMoves(r) \/ EditRun(r)
  \/ \E s \in Runs : AskFork(s)
  \/ \E n \in Names, ordinal \in 0 .. 1 : ReadSource(n, ordinal)
  \/ Survey
  \/ \E accept \in BOOLEAN : checkFilesAndPlan(accept)
  \/ CopyTree \/ SurveyAgain \/ CheckCopy \/ WriteBlackboard \/ CreateJournal \/ WriteManifest
  \/ Destroy \/ CommandDies

ForkSpec == ForkInit /\ [][ForkNext]_forkVars

-----------------------------------------------------------------------------
(***************************************************************************)
(* Properties.                                                             *)
(***************************************************************************)
Made == {f \in Forks : man[f] # None}

Given(f) == snaps[man[f].origin.run][man[f].origin.start]

\* A fork begins on the files, the plan and the blackboard its visit was
\* given (fork.go:492, create.go:61), whoever was editing the source while it
\* was made; only a person's word lets the files differ, and even then the
\* copy is of one tree, never half of one and half of another.
GivenWhatTheVisitWas ==
  \A f \in Made :
    LET o == man[f].origin
    IN  /\ ~ o.changed => copied[f].tree = Given(f).digest
        /\ o.node = "code" => copied[f].plan = Given(f).board.plan

\* The tree a fork was copied from was one the source's directory really had
\* at one moment: the one it was surveyed as (create.go:59).
CopyIsOfOneTree ==
  cmd.pc \in {"state", "journal file", "manifest"} => files[cmd.fork] = cmd.digest

\* A fork re-runs the visit it was asked for, as the step that visit was, and
\* numbers it and every visit it inherited as its source does
\* (fork.go:438-446, create.go:116): where it has no snapshot of one, the run
\* it names has, or names another.
SameVisitsAsItsSource ==
  \A f \in Made :
    LET o  == man[f].origin
        vs == VisitsOf(journal[f])
        us == VisitsOf(journal[o.run])
        Same(v, u) == v.node = u.node /\ v.ordinal = u.ordinal
    IN  \A i \in 1 .. Len(vs) :
          /\ vs[i].start < o.start =>
               /\ Same(vs[i], us[i]) /\ vs[i].start = us[i].start
               /\ \/ us[i].start \in DOMAIN snaps[o.run]
                  \/ man[o.run].origin # None /\ us[i].start < man[o.run].origin.start
          /\ vs[i].start = o.start + 1 =>
               /\ Same(vs[i], us[i]) /\ us[i].start = o.start
               /\ vs[i].node = o.node /\ vs[i].ordinal = o.visit
               /\ vs[i].start \in DOMAIN snaps[f] => snaps[f][vs[i].start].step = o.step
          /\ vs[i].start # o.start

Charged(r) == Dollars(journal[r], Len(journal[r]))

\* Every dollar belongs to one run (state/origin.go:21): what the journals of
\* all the runs charge comes to what was paid, and what a fork says it
\* inherited, with what it spent itself, is all that its blackboard cost.
EveryDollarOnce ==
  /\ Cardinality(UNION {{r} \X Charged(r) : r \in Made \cup {ForkSource}}) = bank
  /\ \A f \in Made : man[f].origin.inherited + Cardinality(Charged(f)) = worth[f]

\* A fork of a fix that had given up asks the agent once more before it gives
\* up itself, also when it was interrupted first and resumed from its copy
\* (fork.go:340, state/origin.go:85).
RoundIsKept == gaveUp = {}

\* A run there is a manifest of is a whole one: all the history its visit
\* had, and nothing after it but its own (create.go:31), wherever its making
\* was cut off.
ForkIsWhole ==
  \A f \in Made :
    LET o == man[f].origin
    IN  /\ Len(journal[f]) >= o.start
        /\ journal[f][o.start] = Boundary
        /\ \A i \in 1 .. o.start - 1 : journal[f][i] = [journal[o.run][i] EXCEPT !.usage = 0]

\* What a visit is, said without walking: executions i and k are of one visit
\* when no execution after i, up to k, was begun by the graph: every one of
\* them follows a pause or an interruption of the node itself.
BegunByGraph(j, k) ==
  \/ \A f \in FinishedAt(j) : f > k
  \/ ~ continuesVisit(j[ClosedBefore(j, k)], j[k].node)
ExecutionsOf(j, i) ==
  {k \in StartedAt(j) : k >= i /\ ~ \E l \in StartedAt(j) : i < l /\ l <= k /\ BegunByGraph(j, l)}

\* The visits belay timeline numbers and belay fork takes (journal/visits.go)
\* are those, in every run's journal, a fork's with its inherited half too:
\* one for each execution the graph began, in order, numbered by node,
\* holding as many executions of that one node as were taken up again.
VisitsAreWhatTheGraphBegan ==
  \A r \in Runs :
    LET j  == journal[r]
        vs == VisitsOf(j)
    IN  /\ {vs[v].start : v \in 1 .. Len(vs)} = {i \in StartedAt(j) : BegunByGraph(j, i)}
        /\ \A v \in 1 .. Len(vs) :
             LET those == ExecutionsOf(j, vs[v].start)
             IN  /\ \A w \in 1 .. v - 1 : vs[w].start < vs[v].start
                 /\ vs[v].executions = Cardinality(those)
                 /\ \A k \in those : j[k].node = vs[v].node
                 /\ vs[v].ordinal = Cardinality({w \in 1 .. v : vs[w].node = vs[v].node})
                 /\ vs[v].end = Unfinished <=> IsOpen(j) /\ Len(j) \in those

\* A fork is whole, begins with what its visit was given, of one tree, and
\* goes on as its source would have, numbering visits alike (internal/fork);
\* and every dollar belongs to one of the two runs (state/origin.go).
ForkIsItsVisits ==
  /\ ForkIsWhole /\ CopyIsOfOneTree /\ GivenWhatTheVisitWas /\ RoundIsKept
  /\ SameVisitsAsItsSource /\ VisitsAreWhatTheGraphBegan /\ EveryDollarOnce

=============================================================================
