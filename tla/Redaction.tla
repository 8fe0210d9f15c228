------------------------------ MODULE Redaction ------------------------------
(***************************************************************************)
(* What belay captures of a process's output (internal/exec): the stream   *)
(* arrives in chunks of any size, credentials in it are replaced by        *)
(* markers, and what is kept is cut at a limit.                            *)
(*                                                                         *)
(* A text is a sequence of symbols: "_" is white space, "K" a word such as *)
(* --token that makes what follows its "=" a credential, and the headers   *)
(* of a private key are two symbols wide.  Offsets count from 0 and spans  *)
(* are half open.  A credential, its word included, is taken to be         *)
(* narrower than the overlap but for its last word, as the code's 128      *)
(* bytes are wider than every word its patterns start with.                *)
(***************************************************************************)
EXTENDS Naturals, Sequences, FiniteSets, FiniteSetsExt, SequencesExt

CONSTANTS
  Texts,       \* what a process may print
  Secrets,     \* literal values the redactor was seeded with
  minOverlap,  \* symbols at the end that are always withheld
  pemTailKeep, \* symbols of a key's body that are kept to find its end
  Limits       \* how much may be kept

VARIABLES text, at, writer, kept, dropped, limit, closed

vars == <<text, at, writer, kept, dropped, limit, closed>>

Begin  == <<"<", "P">>
End    == <<"<", "E">>
Marker == "#"

Space(b, i) == b[i + 1] = "_"

\* Offsets at which word stands in b.
Occurs(word, b) == {i \in 0..(Len(b) - Len(word)) : SubSeq(b, i + 1, i + Len(word)) = word}

overlap == Max({minOverlap} \cup {Len(s) + 1 : s \in Secrets})

-----------------------------------------------------------------------------
(***************************************************************************)
(* Redactor.                                                               *)
(***************************************************************************)
\* The first offset from i on at which b is not white space, or is.
PastSpace(b, i) == Min({j \in i..Len(b) : j = Len(b) \/ ~ Space(b, j)})
PastWord(b, i)  == Min({j \in i..Len(b) : j = Len(b) \/ Space(b, j)})

Span(start, end, gstart) == [start |-> start, end |-> end, gstart |-> gstart]

\* A credential that follows its word: only the value is replaced, and the
\* match is wider.
patterns(b) ==
  UNION {LET eq == PastSpace(b, k + 1) IN
         IF eq = Len(b) \/ b[eq + 1] # "=" THEN {}
         ELSE LET v == PastSpace(b, eq + 1) IN
              IF v = Len(b) THEN {} ELSE {Span(v, PastWord(b, v), k)} : k \in Occurs(<<"K">>, b)}

spans(b) == patterns(b) \cup
            UNION {{Span(i, i + Len(s), i) : i \in Occurs(s, b)} : s \in Secrets}

\* Each run of overlapping spans is one marker.
applySpans(b, found) ==
  LET covered(i) == \E s \in found : s.start <= i /\ i < s.end
      opens(i)   == /\ \E s \in found : s.start = i
                    /\ ~ \E s \in found : s.start < i /\ i < s.end
  IN  FlattenSeq([n \in 1..Len(b) |-> IF opens(n - 1) THEN <<Marker>>
                                      ELSE IF covered(n - 1) THEN <<>> ELSE <<b[n]>>])

redactBytes(b) == applySpans(b, spans(b))

\* Slip: what is complete is cut like anything else.
retreatNever(cut, found) == cut

retreatPastSpans(cut, found) ==
  Max({c \in 0..cut : ~ \E s \in found : s.gstart < c /\ c < s.end})

\* Back over the word that ends at i, and the white space before it.
Back(b, i) ==
  LET word == Max({j \in 0..i : j = 0 \/ Space(b, j - 1)})
  IN  Max({j \in 0..word : j = 0 \/ ~ Space(b, j - 1)})

\* The last two words may still grow.
tailHoldStart(b) == Back(b, Back(b, Len(b)))

-----------------------------------------------------------------------------
(***************************************************************************)
(* RedactWriter: what is withheld, whether inside a key, and what it has   *)
(* forwarded by one call.                                                  *)
(***************************************************************************)
Forward(w, more, n) == [w EXCEPT !.out = @ \o more, !.buf = SubSeq(@, n + 1, Len(@))]

\* No key begins in the buffer: as much goes as cannot be part of a
\* credential that is not finished.
Flush(w, final) ==
  LET b   == w.buf
      far == IF Len(b) > overlap THEN Min({Len(b) - overlap, tailHoldStart(b)}) ELSE 0
      cut == retreatPastSpans(far, spans(b))
  IN  IF final THEN Forward(w, redactBytes(b), Len(b))
      ELSE Forward(w, applySpans(SubSeq(b, 1, cut), {s \in spans(b) : s.start < cut}), cut)

RECURSIVE Scan(_, _)
Scan(w, final) ==
  IF w.inPEM
  THEN IF Occurs(End, w.buf) # {}
       THEN Scan([Forward(w, <<>>, Min(Occurs(End, w.buf)) + Len(End)) EXCEPT !.inPEM = FALSE], final)
       ELSE IF final THEN [w EXCEPT !.buf = <<>>]
       ELSE Forward(w, <<>>, IF Len(w.buf) > pemTailKeep THEN Len(w.buf) - pemTailKeep ELSE 0)
  ELSE IF Occurs(Begin, w.buf) # {}
  THEN LET i == Min(Occurs(Begin, w.buf)) IN
       Scan([Forward(w, Append(redactBytes(SubSeq(w.buf, 1, i)), Marker), i + Len(Begin))
               EXCEPT !.inPEM = TRUE], final)
  ELSE Flush(w, final)

process(w, final) == IF ~ final /\ Len(w.buf) < minOverlap THEN w ELSE Scan(w, final)

Writer   == [buf |-> <<>>, inPEM |-> FALSE, out |-> <<>>]
Write(w, p) == process([w EXCEPT !.buf = @ \o p, !.out = <<>>], FALSE)
Close(w)    == process([w EXCEPT !.out = <<>>], TRUE)

\* Of a text in one piece.
Redact(s) == LET w == Write(Writer, s) IN w.out \o Close(w).out

-----------------------------------------------------------------------------
(***************************************************************************)
(* The sink of a stream, and what is kept of it.                           *)
(***************************************************************************)
Init ==
  /\ text \in Texts /\ limit \in Limits
  /\ at = 0 /\ writer = Writer /\ kept = <<>> /\ dropped = 0 /\ closed = FALSE

saturated == Len(kept) >= limit

\* Slip: what does not fit is not counted.
captureUncounted(b) ==
  /\ kept' = kept \o SubSeq(b, 1, Min({limit - Len(kept), Len(b)})) /\ UNCHANGED dropped

capture(b) ==
  LET room == Min({limit - Len(kept), Len(b)}) IN
  /\ kept' = kept \o SubSeq(b, 1, room)
  /\ dropped' = dropped + Len(b) - room

\* The pipe is always drained, but nothing is redacted that cannot be kept.
Sink(n) ==
  /\ ~ closed /\ at + n <= Len(text) /\ at' = at + n
  /\ IF saturated
     THEN dropped' = dropped + n /\ UNCHANGED <<writer, kept>>
     ELSE LET w == Write(writer, SubSeq(text, at + 1, at + n)) IN
          writer' = [w EXCEPT !.out = <<>>] /\ capture(w.out)
  /\ UNCHANGED <<text, limit, closed>>

Finish ==
  /\ at = Len(text) /\ ~ closed /\ closed' = TRUE
  /\ writer' = [Close(writer) EXCEPT !.out = <<>>] /\ capture(Close(writer).out)
  /\ UNCHANGED <<text, at, limit>>

Next == (\E n \in 1..Len(text) : Sink(n)) \/ Finish

Spec == Init /\ [][Next]_vars

truncated == dropped > 0

-----------------------------------------------------------------------------
(***************************************************************************)
(* Properties.                                                             *)
(***************************************************************************)
\* redact.go:210-217 and 231-237: however the stream was chunked, what is
\* kept is what redacting it in one piece gives, up to the limit, though
\* the redactor stops seeing the stream once enough is kept.
StreamIsWhole ==
  closed => kept = SubSeq(Redact(text), 1, Min({limit, Len(Redact(text))}))

\* exec.go:288 and 667-674: a cut stream is never mistaken for a short one.
CutIsSaid == closed /\ ~ truncated => kept = Redact(text)
=============================================================================
