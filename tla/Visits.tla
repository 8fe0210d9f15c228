------------------------------- MODULE Visits -------------------------------
(***************************************************************************)
(* The visits a run paid to its nodes (internal/journal/visits.go): what   *)
(* belay timeline numbers, and what belay fork --visit and the snapshots   *)
(* of the blackboard are named by.  A gate that pauses for a person and    *)
(* runs again, and an attempt cut short and re-run, are one visit.         *)
(***************************************************************************)
EXTENDS Journal, FiniteSets

Unfinished == 0

continuesVisit(closed, n) == /\ closed.node = n
                             /\ closed.next = n
                             /\ closed.status \in {"paused", "aborted"}

\* How many of the visits vs are to n.
OrdinalIn(vs, n) == Cardinality({v \in 1 .. Len(vs) : vs[v].node = n})

NewVisit(vs, n, i) == [node |-> n, ordinal |-> OrdinalIn(vs, n) + 1, start |-> i,
                       end |-> Unfinished, executions |-> 1, status |-> NoStatus]

TakenUp(v)        == [v EXCEPT !.executions = @ + 1, !.end = Unfinished, !.status = NoStatus]
ClosedBy(v, i, s) == [v EXCEPT !.end = i, !.status = s]

\* The last visit taken up again, or one more.
Resumed(vs)     == [vs EXCEPT ![Len(vs)] = TakenUp(@)]
Begun(vs, n, i) == Append(vs, NewVisit(vs, n, i))

\* Slip: a pause and a resume between two executions break the visit.
VisitRecordMarkersBreak(w, j, i) ==
  LET n    == Len(w.visits)
      r    == j[i]
      same == w.closed # 0 /\ continuesVisit(j[w.closed], r.node)
  IN  CASE r.event = "node_started" ->
             [w EXCEPT !.visits = IF same THEN Resumed(@) ELSE Begun(@, r.node, i)]
        [] r.event = "node_finished" ->
             [visits |-> [w.visits EXCEPT ![n] = ClosedBy(@, i, r.status)], closed |-> i]
        [] OTHER -> [w EXCEPT !.closed = 0]

\* The walk over a valid journal, one record at a time: the visits so far,
\* and the seq of the node_finished before, 0 for none.
VisitRecord(w, j, i) ==
  LET n    == Len(w.visits)
      r    == j[i]
      same == w.closed # 0 /\ continuesVisit(j[w.closed], r.node)
  IN  CASE r.event = "node_started" ->
             [w EXCEPT !.visits = IF same THEN Resumed(@) ELSE Begun(@, r.node, i)]
        [] r.event = "node_finished" ->
             [visits |-> [w.visits EXCEPT ![n] = ClosedBy(@, i, r.status)], closed |-> i]
        [] OTHER -> w

VisitsOf(j) ==
  LET walk[i \in 0 .. Len(j)] ==
        IF i = 0 THEN [visits |-> <<>>, closed |-> 0]
                 ELSE VisitRecord(walk[i - 1], j, i)
  IN  walk[Len(j)].visits

=============================================================================
