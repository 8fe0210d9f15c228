------------------------------ MODULE McpSession ------------------------------
(***************************************************************************)
(* A session with an MCP server (internal/sonar/mcp): goroutines share one *)
(* Client, whose mutex makes each round trip whole, over a child process's *)
(* pipes or over HTTP.  The server may answer late, twice, out of order or *)
(* with frames nobody asked for, may stop, and may be sent a signal        *)
(* because a caller's context ended.                                       *)
(*                                                                         *)
(* A frame is the id it bears, 0 when it has none or cannot be decoded,    *)
(* the request it answers, and what it carries.                            *)
(***************************************************************************)
EXTENDS Naturals, Sequences, FiniteSets

CONSTANTS
  Callers,   \* goroutines
  Tools,     \* tools a server may have
  Kinds,     \* transports: "stdio", "http"
  MaxCalls,  \* bound: calls made
  MaxFrames  \* bound: frames the server sends

VARIABLES
  kind,        \* the transport
  initialized, \* Client.initialized
  tools,       \* Client.tools, once there is a list
  mutex,       \* who holds Client.mu, or "free"
  nextID,
  pipe,        \* frames sent and not yet received: child's stdout, or the queue
  asked,       \* requests the server has and has not forgotten
  alive,       \* the server runs
  session,     \* caller -> its call
  frames,      \* frames the server has sent
  lists        \* history: the lists Client.tools has been set to

client == <<initialized, tools, nextID>>
server == <<asked, alive, frames>>
sessionVars == <<kind, client, mutex, pipe, server, session, lists>>

\* A call, and how many lists there had been when its tool was looked up.
NoRequest == [pc |-> "idle", op |-> "none", tool |-> "none", since |-> 0, id |-> 0,
              got |-> [about |-> 0]]

SessionInit ==
  /\ kind \in Kinds /\ initialized = FALSE /\ tools = {} /\ mutex = "free" /\ nextID = 0
  /\ pipe = <<>> /\ asked = {} /\ alive = TRUE /\ frames = 0
  /\ session = [c \in Callers |-> NoRequest]
  /\ lists = <<>>

CallAt(c, p) == session[c].pc = p
Goto(c, p)   == session' = [session EXCEPT ![c].pc = p]
Fail(c)      == session' = [session EXCEPT ![c] = NoRequest]

-----------------------------------------------------------------------------
(***************************************************************************)
(* The server.                                                             *)
(***************************************************************************)
Frame(id, about, body) == [id |-> id, about |-> about, body |-> body]
Bodies(request) == IF request.op = "list" THEN SUBSET Tools ELSE {{}}

\* An answer to any request it has, or a frame that answers none.
MayWrite == {Frame(0, 0, {})} \cup UNION {{Frame(r.id, r.id, b) : b \in Bodies(r)} : r \in asked}

\* On its pipe the server writes when it likes.
ServerWrites ==
  /\ kind = "stdio" /\ alive /\ frames < MaxFrames /\ frames' = frames + 1
  /\ \E f \in MayWrite : /\ pipe' = Append(pipe, f)
                         /\ asked' \in {asked, {r \in asked : r.id # f.about}}
  /\ UNCHANGED <<kind, client, mutex, alive, session, lists>>

Stop ==
  /\ alive /\ alive' = FALSE
  /\ UNCHANGED <<kind, client, mutex, pipe, asked, frames, session, lists>>

-----------------------------------------------------------------------------
(***************************************************************************)
(* Client.  Its own fields are read and written under the same mutex that  *)
(* a round trip holds, but let go of in between: a tool is looked up, and  *)
(* a list stored, in a section of its own.                                 *)
(***************************************************************************)
\* Slip: a client with no list yet asks the server.
hasToolAssumed(t) == tools = {} \/ t \in tools

hasTool(t) == t \in tools

Allowed(op, t) == CASE op = "initialize" -> TRUE
                    [] op = "list"       -> initialized
                    [] op = "call"       -> initialized /\ hasTool(t)

Begin(c, op, t) ==
  /\ CallAt(c, "idle") /\ mutex = "free" /\ nextID + Cardinality({d \in Callers : ~ CallAt(d, "idle")}) < MaxCalls
  /\ Allowed(op, t)
  /\ session' = [session EXCEPT ![c] = [NoRequest EXCEPT !.pc = "begun", !.op = op, !.tool = t,
                                                   !.since = Len(lists)]]
  /\ UNCHANGED <<kind, client, mutex, pipe, server, lists>>

Request(c) == [op |-> session[c].op, id |-> nextID + 1]

\* Over HTTP the whole exchange is one round trip, and what it brought is
\* queued before Send returns: at most two frames here.
Brought(c) == LET answers == {Frame(r.id, r.id, b) : r \in asked \cup {Request(c)}, b \in Bodies(Request(c))}
                  some == answers \cup {Frame(0, 0, {})}
              IN  {<<>>} \cup {<<f>> : f \in some} \cup {<<f, g>> : f \in some, g \in some}

Send(c) ==
  /\ CallAt(c, "begun") /\ mutex = "free" /\ alive
  /\ mutex' = c /\ nextID' = nextID + 1
  /\ session' = [session EXCEPT ![c].pc = "awaits", ![c].id = nextID + 1]
  /\ asked' = asked \cup {Request(c)}
  /\ IF kind = "stdio" THEN UNCHANGED <<pipe, frames>>
     ELSE \E more \in Brought(c) : /\ frames + Len(more) <= MaxFrames
                                   /\ frames' = frames + Len(more) /\ pipe' = pipe \o more
  /\ UNCHANGED <<kind, initialized, tools, alive, lists>>

\* A cancelled or failed write takes the child with it, as nobody can tell
\* how much of the frame it has.
terminate == IF kind = "stdio" THEN alive' = FALSE ELSE UNCHANGED alive

SendFails(c) ==
  /\ CallAt(c, "begun") /\ mutex = "free" /\ Fail(c) /\ terminate
  /\ nextID' = nextID + 1
  /\ UNCHANGED <<kind, initialized, tools, mutex, pipe, asked, frames, lists>>

\* Slip: whatever arrives next is the answer.
matchIDAny(frame, id) == frame.id # 0

matchID(frame, id) == frame.id = id

\* Frames that are not the answer are dropped.
Recv(c) ==
  /\ CallAt(c, "awaits") /\ pipe # <<>> /\ pipe' = Tail(pipe)
  /\ IF matchID(Head(pipe), session[c].id)
     THEN /\ session' = [session EXCEPT ![c].pc = "answered", ![c].got = Head(pipe)]
          /\ mutex' = "free"
     ELSE UNCHANGED <<session, mutex>>
  /\ UNCHANGED <<kind, client, server, lists>>

\* Nothing was queued.  The pipe of a child that has exited may be closed
\* before it has been read to its end.
RecvFails(c) ==
  /\ CallAt(c, "awaits")
  /\ \/ kind = "http" /\ pipe = <<>>
     \/ kind = "stdio" /\ ~ alive
  /\ Fail(c) /\ mutex' = "free"
  /\ UNCHANGED <<kind, client, pipe, server, lists>>

\* A read has no other way to be given up than to end the session.
Deadline(c) ==
  /\ CallAt(c, "awaits") /\ kind = "stdio"
  /\ Fail(c) /\ mutex' = "free" /\ terminate
  /\ UNCHANGED <<kind, client, pipe, asked, frames, lists>>

\* The answer may be an error, or one the client cannot use.
Refused(c) ==
  /\ CallAt(c, "answered") /\ Fail(c)
  /\ UNCHANGED <<kind, client, mutex, pipe, server, lists>>

Initialize(c) ==
  /\ CallAt(c, "answered") /\ session[c].op = "initialize" /\ mutex = "free"
  /\ initialized' = TRUE /\ Goto(c, "notifies")
  /\ UNCHANGED <<kind, tools, mutex, nextID, pipe, server, lists>>

notify(c) ==
  /\ CallAt(c, "notifies") /\ mutex = "free" /\ Fail(c)
  /\ (alive /\ UNCHANGED alive) \/ terminate
  /\ UNCHANGED <<kind, client, mutex, pipe, asked, frames, lists>>

ListTools(c) ==
  /\ CallAt(c, "answered") /\ session[c].op = "list" /\ mutex = "free"
  /\ tools' = session[c].got.body /\ lists' = Append(lists, tools')
  /\ Fail(c)
  /\ UNCHANGED <<kind, initialized, mutex, nextID, pipe, server>>

CallTool(c) ==
  /\ CallAt(c, "answered") /\ session[c].op = "call" /\ Fail(c)
  /\ UNCHANGED <<kind, client, mutex, pipe, server, lists>>

Client(c) ==
  \/ Send(c) \/ SendFails(c) \/ Recv(c) \/ RecvFails(c) \/ Deadline(c) \/ Refused(c)
  \/ Initialize(c) \/ notify(c) \/ ListTools(c) \/ CallTool(c)

SessionNext ==
  \/ \E c \in Callers : Client(c) \/ \E op \in {"initialize", "list", "call"}, t \in Tools : Begin(c, op, t)
  \/ ServerWrites \/ Stop

SessionSpec == SessionInit /\ [][SessionNext]_sessionVars

-----------------------------------------------------------------------------
(***************************************************************************)
(* Properties.                                                             *)
(***************************************************************************)
\* client.go:231-234, call: a caller gets the answer to its own request,
\* though answers to earlier ones are still about.
AnswersMatch == \A c \in Callers : CallAt(c, "answered") => session[c].got.about = session[c].id

Called(c) == session[c].op = "call" /\ ~ CallAt(c, "idle")

\* client.go:389-394, CallTool: a tool is called only where the list the
\* client had when it looked named it.
OnlyAdvertised ==
  \A c \in Callers :
    Called(c) => session[c].since > 0 /\ session[c].tool \in lists[session[c].since]

\* A caller gets the answer to its own request, and none of a tool that the
\* list in force when it asked did not name.
ReplyIsItsOwn == AnswersMatch /\ OnlyAdvertised

\* client.go:386-387: no call is sent for a tool that was not most recently
\* advertised.  Another goroutine may list the tools in between.
MostRecentlyAdvertised ==
  \A c \in Callers : Called(c) /\ CallAt(c, "begun") => session[c].tool \in tools

\* client.go:292-296: the client is ready only once the server has been told
\* so, and no tool is called before Initialize has returned.
ReadyOnceTold ==
  \A c, d \in Callers : CallAt(c, "notifies") => ~ (CallAt(d, "begun") /\ session[d].op = "list")

=============================================================================
