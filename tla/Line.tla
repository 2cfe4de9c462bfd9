---------------------------------- MODULE Line ----------------------------------
(***************************************************************************)
(* The line a person types in the window (ui/src/line.rs): an editor with  *)
(* a cursor and a history that is reached back into, and the wrapping that *)
(* says both how the line is drawn and where the cursor lands.             *)
(*                                                                         *)
(* A line is a sequence of characters; all the code asks of a character is *)
(* whether it is white space.  The cursor counts the characters before it. *)
(* place is 0 while the line being written is shown, and otherwise the     *)
(* index of the line of the history that is.                               *)
(***************************************************************************)
EXTENDS Integers, Sequences, SequencesExt, FiniteSetsExt

CONSTANTS Letters, Blank, Remembered

ASSUME RememberedAssumption == Remembered \in Nat \ {0}
ASSUME BlankAssumption == Blank \notin Letters

Chars == Letters \union {Blank}

Trim(s) ==
  LET I == {i \in DOMAIN s : s[i] # Blank}
  IN  IF I = {} THEN <<>> ELSE SubSeq(s, Min(I), Max(I))

Empty == [chars |-> <<>>, cursor |-> 0, history |-> <<>>, place |-> 0, draft |-> <<>>]

------------------------------------------------------------------------------
(* Editing *)
Set(e, s) == [e EXCEPT !.chars = s, !.cursor = Len(s)]
Insert(e, c) == [e EXCEPT !.chars = InsertAt(@, e.cursor + 1, c), !.cursor = @ + 1]
Cut(e, from, to) == [e EXCEPT !.chars = SubSeq(@, 1, from) \o SubSeq(@, to + 1, Len(@)), !.cursor = from]
Move(e, to) == [e EXCEPT !.cursor = to]

Left(e) == IF e.cursor = 0 THEN 0 ELSE e.cursor - 1
Right(e) == Min({e.cursor + 1, Len(e.chars)})

\* The last start of a word before the cursor, the first end of one after it.
WordLeft(e) ==
  Max({0} \union {p \in 0..(e.cursor - 1) : e.chars[p + 1] # Blank /\ (p = 0 \/ e.chars[p] = Blank)})
WordRight(e) ==
  LET n == Len(e.chars)
  IN  Min({n} \union {p \in (e.cursor + 1)..n : e.chars[p] # Blank /\ (p = n \/ e.chars[p + 1] = Blank)})

Backspace(e) == Cut(e, Left(e), e.cursor)
Delete(e) == Cut(e, e.cursor, Right(e))
KillWordLeft(e) == Cut(e, WordLeft(e), e.cursor)
KillWordRight(e) == Cut(e, e.cursor, WordRight(e))
KillToStart(e) == Cut(e, 0, e.cursor)
KillToEnd(e) == Cut(e, e.cursor, Len(e.chars))

------------------------------------------------------------------------------
(* The history *)
\* The newest Remembered lines, and a place kept on its line as older ones go.
Newest(e) ==
  LET over == Max({0, Len(e.history) - Remembered})
  IN  [e EXCEPT !.history = SubSeq(@, over + 1, Len(@)),
                !.place = IF @ = 0 THEN 0 ELSE Max({1, @ - over})]

Keep(e, line) ==
  IF line = <<>> \/ (e.history # <<>> /\ Last(e.history) = line)
  THEN e
  ELSE Newest([e EXCEPT !.history = Append(@, line)])

\* The line is sent; what is sent is e.chars.
Take(e) == Keep([e EXCEPT !.chars = <<>>, !.cursor = 0, !.place = 0, !.draft = <<>>], Trim(e.chars))

Remember(e, line) == Keep(e, Trim(line))

\* No line empty, none the same as the one before it.
Distinct(lines) ==
  FoldLeft(LAMBDA out, line :
             IF line = <<>> \/ (out # <<>> /\ Last(out) = line) THEN out ELSE Append(out, line),
           <<>>, [i \in DOMAIN lines |-> Trim(lines[i])])

\* RememberOlder as it would be if the place were not moved with the lines.
RememberOlderSlip(e, lines) ==
  Newest([e EXCEPT !.history = Distinct(lines) \o @])

RememberOlder(e, lines) ==
  LET distinct == Distinct(lines)
      joined == distinct # <<>> /\ e.history # <<>> /\ Last(distinct) = Head(e.history)
      older == IF joined THEN Front(distinct) ELSE distinct
  IN  Newest([e EXCEPT !.history = older \o @,
                       !.place = IF @ = 0 THEN 0 ELSE @ + Len(older)])

Earlier(e) ==
  IF e.history = <<>> THEN e
  ELSE LET next == IF e.place = 0 THEN Len(e.history) ELSE Max({1, e.place - 1})
       IN  Set([e EXCEPT !.place = next, !.draft = IF e.place = 0 THEN e.chars ELSE @], e.history[next])

Later(e) ==
  CASE e.place = 0 -> e
    [] e.place \in 1..(Len(e.history) - 1) -> Set([e EXCEPT !.place = @ + 1], e.history[e.place + 1])
    [] OTHER -> Set([e EXCEPT !.place = 0, !.draft = <<>>], e.draft)

------------------------------------------------------------------------------
(* Wrapping.  A row is the characters from .from + 1 to .to of the line.   *)
StartsWord(s, i) == s[i] # Blank /\ (i = 1 \/ s[i - 1] = Blank)
WordEnd(s, i) == Min({Len(s)} \union {j \in i..Len(s) : j < Len(s) /\ s[j + 1] = Blank})

\* BreaksBefore as it would be if it were asked in the middle of words too.
BreaksBeforeSlip(s, width, i, start) ==
  LET word == WordEnd(s, i) - i + 1
  IN  s[i] # Blank /\ word <= width /\ (i - 1 - start) + word > width

\* A word that fits a row of its own but not the rest of this one.
BreaksBefore(s, width, i, start) ==
  LET word == WordEnd(s, i) - i + 1
  IN  StartsWord(s, i) /\ word <= width /\ (i - 1 - start) + word > width

\* The rows closed and the start of the open one, once character i was placed.
Break(s, width, w, i) ==
  LET start == IF BreaksBefore(s, width, i, w.start) THEN i - 1 ELSE w.start
      rows == IF start = w.start THEN w.rows ELSE Append(w.rows, [from |-> w.start, to |-> i - 1])
      full == i - 1 - start >= width
  IN  [rows |-> IF full THEN Append(rows, [from |-> start, to |-> i - 1]) ELSE rows,
       start |-> CASE full /\ s[i] = Blank -> i
                   [] full /\ s[i] # Blank -> i - 1
                   [] OTHER -> start]

Wrap(s, width) ==
  LET w == FoldLeft(LAMBDA acc, i : Break(s, width, acc, i), [rows |-> <<>>, start |-> 0], [i \in DOMAIN s |-> i])
  IN  Append(w.rows, [from |-> w.start, to |-> Len(s)])

\* Where the cursor is drawn: on the row that holds the character it is before, or at the end of
\* the row whose break absorbed that character.
CursorRow(rows, cursor) ==
  Max({r \in DOMAIN rows : rows[r].from <= cursor})
CursorAt(rows, cursor) ==
  LET r == CursorRow(rows, cursor) IN [row |-> r, col |-> cursor - rows[r].from]

------------------------------------------------------------------------------
(* The box the line is drawn in (ui/src/draw.rs).  The line is wrapped to  *)
(* two columns less than the window; the box asks for a row of each, up to *)
(* a third of the window.  The layout gives it what it asks for where that *)
(* leaves the six rows the rest of the window asks for; what it gives in a *)
(* lower window is the drawing library's choice.  More rows than the box   *)
(* has are shown around the cursor.                                        *)
Clamp(n, lo, hi) == Min({Max({n, lo}), hi})
TypingWidth(width) == Max({1, width - 2})
InputLimit(height) == Clamp(height \div 3, 3, 12)
InputHeight(rows, height) == Clamp(Len(rows) + 2, 3, InputLimit(height))
Granted(rows, height) ==
  LET asked == InputHeight(rows, height) IN IF height >= asked + 6 THEN {asked} ELSE 0..asked
RowsVisible(granted) == Max({0, granted - 2})
FirstRow(granted, row) == Max({1, row - Max({0, RowsVisible(granted) - 1})})
Shown(rows, granted, row) ==
  LET first == FirstRow(granted, row) IN first..Min({Len(rows), first + RowsVisible(granted) - 1})
\* The columns of text inside a box: a border each side, two columns of padding left, one right.
InnerWidth(width) == Max({0, width - 5})
\* The columns of the box, from its left edge: where a character of a row is drawn, and where the
\* cursor is.
TextColumn(col) == 3 + col
CursorColumn(width, col) == 2 + Min({col, Max({0, width - 4})})

------------------------------------------------------------------------------
(* The editor under every key, with pages of history arriving while it is  *)
(* used, in windows of several sizes.  act is what the last step was, and  *)
(* written what was being typed when the history was first reached into.   *)
CONSTANTS MaxLen,    \* characters in the line
          MaxSent,   \* characters in a line that is sent
          MaxPage,   \* lines in a page of older history
          Widths,    \* columns of the window
          Heights    \* rows of the window

ASSUME SizesAssumption == {MaxLen, MaxSent, MaxPage} \subseteq Nat /\ Widths \subseteq Nat /\ Heights \subseteq Nat

VARIABLES e, act, written

lineVars == <<e, act, written>>

Texts(n) == UNION {[1..k -> Chars] : k \in 0..n}
Pages == UNION {[1..k -> Texts(1)] : k \in 1..MaxPage}

LineInit == e = Empty /\ act = "open" /\ written = <<>>

Do(name, after) ==
  /\ act' = name
  /\ e' = after
  /\ written' = CASE after.place = 0 -> <<>>
                  [] e.place = 0 /\ after.place # 0 -> e.chars
                  [] OTHER -> written

Type == \E c \in Chars : Len(e.chars) < MaxLen /\ Do("edit", Insert(e, c))
Go == \E to \in {Left(e), Right(e), 0, Len(e.chars), WordLeft(e), WordRight(e)} : Do("move", Move(e, to))
Erase ==
  \E after \in {Backspace(e), Delete(e), KillWordLeft(e), KillWordRight(e), KillToStart(e), KillToEnd(e)} :
    Do("edit", after)
Submit == Len(e.chars) <= MaxSent /\ Do("take", Take(e))
Reach == Do("earlier", Earlier(e)) \/ Do("later", Later(e))
FirstPage == \E line \in Texts(1) : Do("page", Remember(e, line))
OlderPage == \E page \in Pages : Do("page", RememberOlder(e, page))

LineNext == Type \/ Go \/ Erase \/ Submit \/ Reach \/ FirstPage \/ OlderPage
LineSpec == LineInit /\ [][LineNext]_lineVars

------------------------------------------------------------------------------
(* Properties *)
\* History that arrives while a person is reaching back leaves them on the line they were on, as
\* long as nothing had to be forgotten ("Where you are in the history does not move").
PlaceHolds ==
  [][act' = "page" /\ e.place # 0 /\ Len(e.history) < Remembered
       => e'.place # 0 /\ e'.history[e'.place] = e.history[e.place] /\ e'.chars = e.chars]_lineVars

\* Coming forward past the newest line gives back what was being written when the history was
\* first reached into, however far back it went and whatever arrived or was edited meanwhile
\* (line.rs: "so coming forward again returns it rather than an empty line").
DraftReturns ==
  [][act' = "later" /\ e.place # 0 /\ e'.place = 0 => e'.chars = written]_lineVars

\* Wrapping shows every character once and in order, but for the blanks its breaks are made of;
\* no row is wider than the width; a word is split only when no row would hold it, and a row is
\* left short only when the next word would not fit it (line.rs: wrap).
WrapKeepsAll ==
  \A width \in Widths :
    LET w == TypingWidth(width)
        rows == Wrap(e.chars, w)
        InWord(f) == f > 0 /\ f < Len(e.chars) /\ e.chars[f] # Blank /\ e.chars[f + 1] # Blank
        TooLong(f) == \E i \in 1..f : StartsWord(e.chars, i) /\ f < WordEnd(e.chars, i) /\ WordEnd(e.chars, i) - i >= w
    IN  /\ rows[1].from = 0 /\ Last(rows).to = Len(e.chars)
        /\ \A r \in DOMAIN rows : rows[r].to - rows[r].from \in 0..w
        /\ \A r \in 2..Len(rows) :
             LET gap == rows[r].from - rows[r - 1].to
             IN  gap = 0 \/ (gap = 1 /\ e.chars[rows[r].from] = Blank)
        /\ \A r \in DOMAIN rows : InWord(rows[r].from) => TooLong(rows[r].from)
        /\ \A r \in 2..Len(rows) :
             LET f == rows[r].from
                 used == rows[r - 1].to - rows[r - 1].from
             IN  used = w \/ (StartsWord(e.chars, f + 1) /\ used + WordEnd(e.chars, f + 1) - f > w)

\* wrap puts the cursor on one of its rows and no further along than they are wide; and whatever
\* height the layout gives the box, the rows taken to be shown are rows there are, and the cursor's
\* is among them unless the box has no inside (draw.rs: "show the ones around the cursor, so typing
\* is always visible even when what is being written is longer than the box can ever be").  Which
\* columns of those rows are seen is not said here: see TypingIsVisible.
CursorRowIsShown ==
  \A width \in Widths, height \in Heights :
    LET rows == Wrap(e.chars, TypingWidth(width))
        at == CursorAt(rows, e.cursor)
    IN  /\ at.col \in 0..TypingWidth(width)
        /\ \A granted \in Granted(rows, height) :
             /\ Shown(rows, granted, at.row) \subseteq DOMAIN rows
             /\ granted > 2 => at.row \in Shown(rows, granted, at.row)

\* The line is wrapped whole, broken where it should be, and the row the cursor is on is one of
\* those the box shows.
RowsKeepTheLine == WrapKeepsAll /\ CursorRowIsShown

------------------------------------------------------------------------------
(* What does not hold *)
\* Every character of a row shown is inside the box (draw.rs:56: "so a long message is visible as
\* it is written rather than running off the edge into somewhere you cannot see").  The rows are
\* wrapped to the window less 2 and drawn in the window less 5, so up to three characters at the
\* end of a row are not.
TypingIsVisible ==
  \A width \in Widths :
    LET rows == Wrap(e.chars, TypingWidth(width))
    IN  \A r \in DOMAIN rows : rows[r].to - rows[r].from <= InnerWidth(width)

\* The cursor is drawn where the next character would be (draw.rs:675: "The cursor sits where the
\* next character would go").  It is drawn one column before it, and further before it in the last
\* columns of a row.  No configuration names this one: every state violates it.
CursorIsWhereItLands ==
  \A width \in Widths :
    LET at == CursorAt(Wrap(e.chars, TypingWidth(width)), e.cursor)
    IN  CursorColumn(width, at.col) = TextColumn(at.col)
==============================================================================
