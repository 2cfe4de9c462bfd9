------------------------------- MODULE Parse -------------------------------
(***************************************************************************)
(* Reading a generation (harness/src/parse.rs).  A generation is a         *)
(* sequence of pieces: words, the four tags, and bodies, each the readable *)
(* JSON of one call of the tool it names.  A piece remembers where in the  *)
(* generation it stood, which tells words apart.  White space is left out, *)
(* as the code trims it.                                                   *)
(***************************************************************************)
EXTENDS Naturals, Sequences, SequencesExt

Tools == {"shell", "think", "finish", "skill"}
Tags == {"<think>", "</think>", "<call>", "</call>"}
Pieces == {"word"} \cup Tags \cup Tools

Piece(t, at) == [t |-> t, at |-> at]

\* Where the first piece of that kind stands from a place on, 0 for nowhere.
Find(s, t, from) == SelectInSubSeq(s, from, Len(s), LAMBDA p : p.t = t)

(***************************************************************************)
(* Only the first block of reasoning is taken out; one that is never       *)
(* closed takes all that follows with it and marks the answer as cut off.  *)
(***************************************************************************)
\* The mistake of keeping what follows the opening tag.
UnreasonedSlip(raw) ==
    LET open == Find(raw, "<think>", 1)
        close == Find(raw, "</think>", open + 1)
    IN  IF open = 0 THEN [said |-> raw, cut |-> FALSE]
        ELSE IF close = 0 THEN [said |-> RemoveAt(raw, open), cut |-> TRUE]
        ELSE [said |-> SubSeq(raw, 1, open - 1) \o SubSeq(raw, close + 1, Len(raw)), cut |-> FALSE]
Unreasoned(raw) ==
    LET open == Find(raw, "<think>", 1)
        close == Find(raw, "</think>", open + 1)
    IN  IF open = 0 THEN [said |-> raw, cut |-> FALSE]
        ELSE IF close = 0 THEN [said |-> SubSeq(raw, 1, open - 1), cut |-> TRUE]
        ELSE [said |-> SubSeq(raw, 1, open - 1) \o SubSeq(raw, close + 1, Len(raw)), cut |-> FALSE]

\* What stands between the tags is a call when it is one readable body.
ReadCall(inner) == IF Len(inner) = 1 /\ inner[1].t \in Tools THEN <<inner[1].t>> ELSE <<>>

(***************************************************************************)
(* The calls are lifted out of what was said: a closed one is read or, if  *)
(* it cannot be, counts as cut off; an open one hides the rest.            *)
(***************************************************************************)
LiftPiece(l, p) ==
    CASE l.open /\ p.t = "</call>" -> [l EXCEPT !.open = FALSE, !.inner = <<>>, !.calls = @ \o ReadCall(l.inner),
                                                !.cut = @ \/ ReadCall(l.inner) = <<>>]
      [] l.open /\ p.t # "</call>" -> [l EXCEPT !.inner = Append(@, p)]
      [] ~l.open /\ p.t = "<call>" -> [l EXCEPT !.open = TRUE]
      [] OTHER -> [l EXCEPT !.speech = Append(@, p)]
NothingLifted == [speech |-> <<>>, calls |-> <<>>, inner |-> <<>>, open |-> FALSE, cut |-> FALSE]
Lifted(said) == FoldLeft(LiftPiece, NothingLifted, said)

\* The mistake of showing, and reading, a call that was never closed.
ParsedSlip(raw) ==
    LET u == Unreasoned(raw)
        l == Lifted(u.said)
    IN  [content |-> l.speech, calls |-> l.calls \o ReadCall(l.inner), truncated |-> u.cut \/ l.cut \/ l.open]
Parsed(raw) ==
    LET u == Unreasoned(raw)
        l == Lifted(u.said)
    IN  [content |-> l.speech, calls |-> l.calls, truncated |-> u.cut \/ l.cut \/ l.open]

\* A message that is nothing but the JSON of a call to a tool on offer is that call.
ParsedWithTools(raw, known) ==
    LET p == Parsed(raw)
        bare == ReadCall(p.content)
    IN  IF p.calls = <<>> /\ bare # <<>> /\ Head(bare) \in known
        THEN [p EXCEPT !.calls = bare, !.content = <<>>]
        ELSE p

\* What a person sees of a generation.
Visible(raw) == Parsed(raw).content

-----------------------------------------------------------------------------
(* What is not for a person: the reasoning, and what stands inside a call. *)

Reasoning(raw) ==
    LET open == Find(raw, "<think>", 1) close == Find(raw, "</think>", open + 1)
    IN  IF open = 0 THEN {} ELSE open..(IF close = 0 THEN Len(raw) ELSE close)
InACall(raw, i) ==
    LET tags == {j \in 1..i - 1 : j \notin Reasoning(raw) /\ raw[j].t \in {"<call>", "</call>"}}
    IN  tags # {} /\ raw[CHOOSE j \in tags : \A k \in tags : k <= j].t = "<call>"
=============================================================================
