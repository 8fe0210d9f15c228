------------------------------- MODULE Agent --------------------------------
(***************************************************************************)
(* A run's calls of its coding agent (internal/agent/claude) and what the  *)
(* node that made each one tells the dispatcher it cost (internal/nodes):  *)
(* the tools a call is held to, the bill of a reply or the price put on it *)
(* when there is none, and the ways a call comes to nothing.               *)
(***************************************************************************)
EXTENDS Naturals, FiniteSets, FiniteSetsExt

CONSTANTS
  Requested,  \* the models a configuration may ask for
  Models,     \* the models the CLI may run
  Prices,     \* list price of a token, for the models belay knows
  Charges,    \* what a token really costs, for every model
  Aliases,    \* name -> the one belay prices it as, for the names it takes apart
  RunsAs,     \* requested name -> the models it may turn out to be
  Ceiling,    \* budget.max_usd
  MaxInvokes  \* bound

VARIABLES
  settings,  \* what the user's and the repository's settings add to a session
  turn,      \* "idle", "calling", "returned", or how the run ended
  req,       \* the AgentRequest
  offered,   \* the tools of the session the CLI opened
  resp,      \* the AgentResponse and whether an error came with it
  ledger,    \* the run's spend as the dispatcher knows it
  calls,
  billed,    \* history: what the replies said was spent, at its real price
  touched    \* history: the nodes whose call changed the workspace

agentVars == <<settings, turn, req, offered, resp, ledger, calls, billed, touched>>

Nodes   == {"plan", "code", "fix"}
Writers == {"Edit", "Bash", "mcp-write"}

\* readOnlyTools and editTools of the nodes.
AllowedTools(node) == {"Read", "Grep"} \cup IF node = "plan" THEN {} ELSE {"Edit"}

NoCall     == [node |-> "none"]
NoUsage    == [usd |-> 0, estimated |-> FALSE]
NoResponse == [usage |-> NoUsage, err |-> "none"]

AgentInit ==
  /\ settings \in SUBSET {"approves-bash", "mcp-server"}
  /\ turn = "idle" /\ req = NoCall /\ offered = {}
  /\ resp = NoResponse
  /\ ledger = 0 /\ calls = 0 /\ billed = 0 /\ touched = {}

-----------------------------------------------------------------------------
(***************************************************************************)
(* The command line.                                                       *)
(***************************************************************************)
\* Slip: the list approves the named tools and takes no other away.
commandApproves(r) == [tools |-> {}, strict |-> FALSE]
command(r) ==
  [tools |-> r.tools, strict |-> r.tools # {}]  \* --tools, --strict-mcp-config

\* The CLI: without --tools every built-in tool is there, and settings may
\* approve one; a server of the user's is loaded unless it is told otherwise.
Session(c) ==
  (IF c.tools # {} THEN c.tools
   ELSE {"Read", "Grep", "Edit"} \cup IF "approves-bash" \in settings THEN {"Bash"} ELSE {})
  \cup IF "mcp-server" \in settings /\ ~c.strict THEN {"mcp-write"} ELSE {}

\* The dispatcher's guard, and the nodes in the order a run comes to them.
Invoke ==
  /\ turn = "idle" /\ calls < MaxInvokes /\ ledger < Ceiling
  /\ \E node \in Nodes, m \in Requested :
       /\ calls = 0 <=> node = "plan"
       /\ calls = 1 <=> node = "code"
       /\ req' = [node |-> node, model |-> m, tools |-> AllowedTools(node)]
  /\ offered' = Session(command(req'))
  /\ turn' = "calling" /\ calls' = calls + 1
  /\ UNCHANGED <<settings, resp, ledger, billed, touched>>

Works ==
  /\ turn = "calling" /\ offered \cap Writers # {}
  /\ touched' = touched \cup {req.node}
  /\ UNCHANGED <<settings, turn, req, offered, resp, ledger, calls, billed>>

-----------------------------------------------------------------------------
(***************************************************************************)
(* What the reply cost.  "spent" is the tokens of each model; without the  *)
(* breakdown the reply counts only the agent's own, under the name asked   *)
(* for.                                                                    *)
(***************************************************************************)
normalizeModel(name) == IF name \in DOMAIN Aliases THEN Aliases[name] ELSE name

highestPrice == Max({Prices[m] : m \in DOMAIN Prices})
resolvePrice(name) ==
  IF normalizeModel(name) \in DOMAIN Prices THEN Prices[normalizeModel(name)] ELSE highestPrice

ASSUME AgentAssumption ==
  /\ IsFiniteSet(Models)
  /\ Charges \in [Models -> Nat] /\ RunsAs \in [Requested -> SUBSET Models]
  /\ \A n \in DOMAIN Prices : Prices[n] \in Nat
  /\ \E n \in DOMAIN Prices : \A m \in DOMAIN Prices : Prices[m] <= Prices[n]
  \* belay's table is a snapshot, right about what it lists, and no model is
  \* dearer than anything on it
  /\ \A m \in Models \cap DOMAIN Prices : Charges[m] <= Prices[m]
  /\ \A m \in Models : Charges[m] <= highestPrice
  \* planAliases: a name for several models is priced as the dearest of them
  /\ DOMAIN Aliases \cap Models = {}
  /\ \A name \in Requested : normalizeModel(name) \in DOMAIN Prices =>
       \A m \in RunsAs[name] : Charges[m] <= Prices[normalizeModel(name)]

\* The sum of a function of models, unit by unit.
Total(of)    == Cardinality(UNION {{m} \X (1..of[m]) : m \in DOMAIN of})
Worth(spent) == Total([m \in Models |-> spent[m] * Charges[m]])

CliReplies ==
  {r \in [spent : [Models -> 0..1], own : RunsAs[req.model],
          bill : {"exact", "zeroed", "absent"}, breakdown : BOOLEAN, isError : BOOLEAN] :
     \* a session that crashed has its cost fields zeroed
     r.bill = "zeroed" => r.isError}

\* The tokens the reply has on record, and their price at belay's rates.
OnRecord(r) == IF r.breakdown THEN {m \in Models : r.spent[m] > 0}
               ELSE {r.own} \cap {m \in Models : r.spent[m] > 0}
countsByModel(r) ==
  IF r.breakdown
  THEN Total([m \in Models |-> r.spent[m] * resolvePrice(m)])
  ELSE r.spent[r.own] * resolvePrice(req.model)

\* Slip: a cost that is there is believed.
usageOfVerbatim(r) ==
  IF r.bill # "absent" THEN [usd |-> IF r.bill = "exact" THEN Worth(r.spent) ELSE 0, estimated |-> FALSE]
  ELSE [usd |-> countsByModel(r), estimated |-> TRUE]
usageOf(r) ==
  IF r.bill = "exact" /\ Worth(r.spent) > 0 THEN [usd |-> Worth(r.spent), estimated |-> FALSE]
  ELSE [usd |-> countsByModel(r), estimated |-> TRUE]

\* respond: a whole object on a clean exit, a failure inside it told apart.
respond ==
  /\ turn = "calling"
  /\ \E r \in CliReplies :
       /\ resp' = [usage |-> usageOf(r), err |-> IF r.isError THEN "invocation" ELSE "none"]
       /\ billed' = billed + IF r.bill = "exact" THEN Worth(r.spent)
                             ELSE Total([m \in OnRecord(r) |-> Charges[m]])
  /\ turn' = "returned"
  /\ UNCHANGED <<settings, req, offered, ledger, calls, touched>>

\* translate, and a reply that does not parse: an empty response.  A run's
\* cancelled context is its own error, a deadline wins over it.
translate ==
  /\ turn = "calling"
  /\ \E err \in {"toolchain-missing", "timeout", "cancelled", "invocation", "unparsable"} :
       /\ err = "toolchain-missing" => req.node \notin touched
       /\ resp' = [usage |-> NoUsage, err |-> err]
  /\ turn' = "returned"
  /\ UNCHANGED <<settings, req, offered, ledger, calls, billed, touched>>

-----------------------------------------------------------------------------
(***************************************************************************)
(* What the node tells the dispatcher.                                     *)
(***************************************************************************)
Charged(usd, next) ==
  /\ ledger' = ledger + usd
  /\ turn' = next /\ req' = NoCall /\ offered' = {} /\ resp' = NoResponse
  /\ UNCHANGED <<settings, calls, billed, touched>>

\* A reply the node takes: its usage travels with it.
NodeGoesOn == turn = "returned" /\ resp.err = "none" /\ Charged(resp.usage.usd, "idle")

\* An error of Invoke, whose usage travels with it too.
NodeFails == turn = "returned" /\ resp.err # "none" /\ Charged(resp.usage.usd, "failed")

\* plan.Run's later errors carry the usage: nothing to read, nowhere to
\* archive it.
PlanFails ==
  turn = "returned" /\ resp.err = "none" /\ req.node = "plan" /\ Charged(resp.usage.usd, "failed")

\* previousPlanStands: a person asked for another plan, and none came; the
\* one there was is gone back to, and the call paid for.
PlanStands == turn = "returned" /\ req.node = "plan" /\ Charged(resp.usage.usd, "idle")

\* code.Run and fix.Run return nothing with the errors they meet after the
\* call: the evidence not written, a path they will not take.
ReplyUnusable ==
  turn = "returned" /\ resp.err = "none" /\ req.node # "plan" /\ Charged(0, "unusable")

AgentNext == Invoke \/ Works \/ respond \/ translate \/ NodeGoesOn \/ NodeFails
          \/ PlanFails \/ PlanStands \/ ReplyUnusable

AgentSpec == AgentInit /\ [][AgentNext]_agentVars

-----------------------------------------------------------------------------
(***************************************************************************)
(* What the ceiling and the plan gate stand on.                            *)
(***************************************************************************)
\* agent/claude usageOf and resolvePrice: whatever a reply says of its cost,
\* the ledger holds at least what the tokens it counts were worth, but for
\* the replies code and fix turn down.
BillsAreCovered == turn # "unusable" /\ turn # "returned" => ledger >= billed

\* agent/claude command: a plan call changes nothing, whatever the user's
\* settings approve or add.
PlanIsReadOnly == "plan" \notin touched

\* The ledger holds what the replies were worth, and a plan call changes
\* nothing.
LedgerCovers == BillsAreCovered /\ PlanIsReadOnly

\* nodes/fix, Run: a fix attempt that failed after paying for a call has
\* still paid for it.
PaidIsPaidFor == turn # "returned" => ledger >= billed

=============================================================================
