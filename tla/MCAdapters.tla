----------------------------- MODULE MCAdapters -----------------------------
(***************************************************************************)
(* What the nodes of a run lean on: the processes they start, the output   *)
(* kept of them, the session with an MCP server, the reviewers, the        *)
(* cassette of the conversation with the agent, the agent's own calls, the *)
(* run of the tests, the lint gate and the policy gate.  No two of them    *)
(* share state -- module WorkLoop composes their verdicts -- so each is    *)
(* explored with the others as they began.                                 *)
(***************************************************************************)
EXTENDS Processes, McpSession, Agent, Policy, Lint, Reviews, Suites, Cassette

CONSTANTS
  Parts,  \* what this run explores
  minOverlap, pemTailKeep, Limits

VARIABLES
  part,
  text, reading, writer, kept, dropped, limit, closed

\* Texts with a credential of each shape in the middle, whole or broken by
\* what stands round it.
Secrets == {<<"s", "t">>}
Around == {<<"x">>, <<"_">>, <<"s", "t">>, <<"K">>, <<"=">>, <<"<", "P">>, <<"<", "E">>}
Middle == {<<"K", "=", "v", "v", "v", "v">>, <<"K", "_", "=", "_", "v">>,
           <<"<", "P", "s", "t", "x", "<", "E">>, <<"x", "x", "s", "t", "_", "s", "t">>}
OutputTexts == {a \o m \o b : a \in Around, b \in Around, m \in Middle}
           \cup {a \o <<"_", "s", "t", "_">> \o b \o m \o b : a \in Around, b \in Around, m \in Middle}

\* The CLI prices its own models; belay's table has the dear and the cheap
\* one, and an alias that may be either.
ListPrices == [opus |-> 2, sonnet |-> 1]
RealPrices == [opus |-> 2, sonnet |-> 1, new |-> 2]
PlanAlias  == [opusplan |-> "opus"]
TurnsOut   == [sonnet |-> {"sonnet"}, opusplan |-> {"opus", "sonnet"}, new |-> {"new"}]

\* One layer ends a run, one has it repaired, one has to read.
RuleSets == {NoRules,
             [NoRules EXCEPT !.forbidden = {"infra"}, !.tests = TRUE],
             [NoRules EXCEPT !.files = 2, !.deps = TRUE],
             [NoRules EXCEPT !.lines = 2, !.content = TRUE]}
Trees == {[src |-> "short", test |-> "absent", infra |-> "short", manifest |-> m]
            : m \in {"short", "dependency", "broken"}}

Output == INSTANCE Redaction WITH at <- reading, Texts <- OutputTexts

One(S) == CHOOSE x \in S : TRUE
InitOne ==
  /\ part \in Parts
  /\ part = "output" \/ (text = One(OutputTexts) /\ limit = One(Limits))
  /\ part = "session" \/ kind = One(Kinds)
  /\ part = "judges" \/ (by = "scanner" /\ scan = NewScan("docker", TRUE))
  /\ part = "tapes" \/ script = [s \in Scopes |-> <<>>]
  /\ part = "agent" \/ settings = {}
  /\ part = "tests" \/ (runner = One(Runners) /\ suite = [p \in Packages |-> <<>>])
  /\ \/ part = "lint"
     \/ linter = One(Linters) /\ repo = "whole" /\ found = [f \in Sources |-> {}]
  /\ part = "policy" \/ (yaml = [user |-> NoRules, repo |-> NoRules] /\ tree = One(Trees))
  /\ Init /\ Output!Init /\ SessionInit /\ ReviewsInit /\ CassetteInit
  /\ AgentInit /\ SuitesInit /\ LintInit /\ PolicyInit

outputVars == <<text, reading, writer, kept, dropped, limit, closed>>

streams == <<outputVars, sessionVars, reviewsVars, cassetteVars>>
checks  == <<agentVars, suitesVars, lintVars, policyVars>>

NextOne ==
  /\ UNCHANGED part
  /\ \/ part = "processes" /\ Next /\ UNCHANGED <<streams, checks>>
     \/ part = "output" /\ Output!Next
        /\ UNCHANGED <<vars, sessionVars, reviewsVars, cassetteVars, checks>>
     \/ part = "session" /\ SessionNext
        /\ UNCHANGED <<vars, outputVars, reviewsVars, cassetteVars, checks>>
     \/ part = "judges" /\ ReviewsNext
        /\ UNCHANGED <<vars, outputVars, sessionVars, cassetteVars, checks>>
     \/ part = "tapes" /\ CassetteNext
        /\ UNCHANGED <<vars, outputVars, sessionVars, reviewsVars, checks>>
     \/ part = "agent" /\ AgentNext
        /\ UNCHANGED <<vars, streams, suitesVars, lintVars, policyVars>>
     \/ part = "tests" /\ SuitesNext
        /\ UNCHANGED <<vars, streams, agentVars, lintVars, policyVars>>
     \/ part = "lint" /\ LintNext
        /\ UNCHANGED <<vars, streams, agentVars, suitesVars, policyVars>>
     \/ part = "policy" /\ PolicyNext
        /\ UNCHANGED <<vars, streams, agentVars, suitesVars, lintVars>>

SpecOne == InitOne /\ [][NextOne]_<<vars, streams, checks, part>>

-----------------------------------------------------------------------------
\* internal/exec: what is kept of a stream is what redacting it in one piece
\* gives, up to the limit, and a cut stream is not mistaken for a short one.
StreamIsWhole == Output!StreamIsWhole /\ Output!CutIsSaid

=============================================================================
