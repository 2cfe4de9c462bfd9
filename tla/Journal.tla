------------------------------ MODULE Journal ------------------------------
(***************************************************************************)
(* The conversation on disk (core/src/store/journal.rs): files of at most  *)
(* MaxLines lines, named after the second they were opened in and a count  *)
(* for those of one second, and read in the order of their names.  A line  *)
(* is a record with the turn it was written under and the time `ts`, which *)
(* no two lines share here.  Lines cut short by a crash are skipped by     *)
(* every reader and are left out.                                          *)
(***************************************************************************)
EXTENDS Naturals, Sequences, FiniteSets, SequencesExt

CONSTANTS MaxLines,     \* MAX_LINES: lines a file takes
          DaySeconds,   \* how long a day is
          NoFile        \* no file is open

ASSUME JournalAssumption == MaxLines \in Nat \ {0} /\ DaySeconds \in Nat \ {0} /\ NoFile \notin Nat \X Nat

VARIABLES files,   \* the files, by name: each the sequence of its lines
          cur,     \* the file being appended to, or NoFile
          day,     \* the day the current file belongs to
          clock    \* the time, in seconds

journalVars == <<files, cur, day, clock>>

Today == clock \div DaySeconds
Before(a, b) == a[1] < b[1] \/ (a[1] = b[1] /\ a[2] < b[2])
Older(f) == {g \in DOMAIN files : Before(g, f)}
ByName == [i \in 1..Cardinality(DOMAIN files) |-> CHOOSE f \in DOMAIN files : Cardinality(Older(f)) = i - 1]

\* Every line, oldest file first: what each reader walks backwards through.
Log == FoldLeft(LAMBDA lines, f : lines \o files[f], <<>>, ByName)

LastOf(s, n) == SubSeq(s, IF Len(s) > n THEN Len(s) - n + 1 ELSE 1, Len(s))
Latest(n) == LastOf(Log, n)

(***************************************************************************)
(* The lines of one turn: backwards to the last of them, and on until a    *)
(* line of another turn, for they are taken to be written together.        *)
(***************************************************************************)
OfTurn(turn, limit) ==
    LET last == SelectLastInSeq(Log, LAMBDA l : l.turn = turn)
        other == SelectLastInSubSeq(Log, 1, last, LAMBDA l : l.turn # turn)
    IN  IF last = 0 THEN <<>> ELSE LastOf(SubSeq(Log, other + 1, last), limit)

\* The name of a new file: the second, and the first count that is free.
NewFile ==
    LET taken == {f[2] : f \in {g \in DOMAIN files : g[1] = clock}}
    IN  <<clock, CHOOSE n \in 0..Cardinality(taken) : n \notin taken /\ \A m \in 0..n - 1 : m \in taken>>

\* The file a line goes to: a new one when there is none, it is full, or the day has changed.
Rotates == cur = NoFile \/ Len(files[cur]) >= MaxLines \/ Today # day
Write(lines) ==      \* one line, or none
    IF lines = <<>> THEN UNCHANGED <<files, cur, day>>
    ELSE LET to == IF Rotates THEN NewFile ELSE cur
             here == IF to \in DOMAIN files THEN files[to] ELSE <<>>
             line == [Head(lines) EXCEPT !.ts = Len(Log) + 1]
         IN  /\ files' = [f \in DOMAIN files \cup {to} |-> IF f = to THEN Append(here, line) ELSE files[f]]
             /\ cur' = to
             /\ day' = Today

\* Open: the newest file is gone on with when it is of today and has room.
Resume ==
    LET newest == ByName[Len(ByName)]
        fits == ByName # <<>> /\ newest[1] \div DaySeconds = Today /\ Len(files[newest]) < MaxLines
    IN  /\ cur' = IF fits THEN newest ELSE NoFile
        /\ day' = Today

JournalInit == files = <<>> /\ cur = NoFile /\ day = 0 /\ clock = 0
=============================================================================
