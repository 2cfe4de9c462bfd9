-------------------------------- MODULE Mind --------------------------------
(***************************************************************************)
(* What one turn is made of: the window the core rebuilds from the         *)
(* conversation and hands over, the rounds of the process that takes the   *)
(* turn (harness/src/run.rs), what it notes about itself, and the lines it *)
(* leaves for later turns to be shown.  How turns race with each other is  *)
(* in Turns; here one process works at a time, and it may die, be stopped, *)
(* or lose its core at any moment.                                         *)
(***************************************************************************)
EXTENDS Journal, Parse

CONSTANTS Signals,       \* what will arrive, as a sequence of kinds
          Window,        \* WINDOW: messages handed to a turn
          MaxAttempts,   \* MAX_ATTEMPTS
          MaxRounds,     \* max_tool_rounds
          TraceKeep,     \* trace_keep
          Sayable,       \* the pieces a generation may be made of
          MaxTurns, MaxTwists,    \* bounds of the model
          Deep, MaxPieces         \* pieces in the first turn, and in all when there are more

ASSUME MindAssumption ==
    /\ Signals \in Seq({"user", "alarm"})
    /\ {Window, MaxAttempts, MaxRounds} \subseteq Nat \ {0}
    /\ Sayable \subseteq Pieces

VARIABLES queue,     \* the signals that wait
          arrived,   \* how many of Signals have arrived
          turns,     \* the turns table: kind, outcome, flags and how it felt
          active,    \* the signal whose turn is open, or NoSignal; the turn is the last one
          proc,      \* the process that takes a turn, or NoProc
          raw,       \* the generation it waits for, as far as it has come
          traces,    \* the runs that have a trace, by name
          twists     \* mishaps, midnights and thoughts so far
vars == <<journalVars, queue, arrived, turns, active, proc, raw, traces, twists>>

NoSignal == [sig |-> 0, kind |-> "none", attempts |-> 0]
NoProc == [pc |-> "none"]
Human(kind) == kind = "user"
Open == active # NoSignal
This == Len(turns)

\* The queue in the order it is taken in: people first, then the order of arrival.
IsNext(s) == s \in queue /\ \A r \in queue : r # s =>
    IF Human(r.kind) = Human(s.kind) THEN s.sig < r.sig ELSE Human(s.kind)

-----------------------------------------------------------------------------
(* The window: the last exchanges, without those of turns to forget.       *)

\* A line of the conversation; its time is given when it is written.
Line(turn, sig, role, kind, text, calls, ok) ==
    [ts |-> 0, turn |-> turn, sig |-> sig, role |-> role, kind |-> kind, text |-> text, calls |-> calls, ok |-> ok]

\* The mistake of comparing with "not equal", which an absent outcome does not answer.
ToForgetSlip == {n \in DOMAIN turns : turns[n].outcome \notin {"", "ok"} \/ turns[n].flags \cap {"repeat", "exhausted"} # {} \/ turns[n].hurt}
\* A turn that has not ended has no outcome, and that is not "ok" either.
ToForget == {n \in DOMAIN turns : turns[n].outcome # "ok" \/ turns[n].flags \cap {"repeat", "exhausted"} # {} \/ turns[n].hurt}

Speaks(l) == \/ l.role = "user" /\ Human(l.kind)
             \/ l.role = "assistant" /\ l.text # <<>> /\ l.calls = <<>>

(***************************************************************************)
(* Something said and the answer next to it make an exchange; an answer    *)
(* that repeats the one before it is left out, with its question.          *)
(***************************************************************************)
PairUp(w, l) ==
    IF l.role = "user" THEN [w EXCEPT !.held = <<l>>]
    ELSE IF w.held = <<>> THEN w
    ELSE IF w.last = <<l.text>> THEN [w EXCEPT !.held = <<>>]
    ELSE [pairs |-> Append(Append(w.pairs, Head(w.held)), l), held |-> <<>>, last |-> <<l.text>>]
NothingPaired == [pairs |-> <<>>, held |-> <<>>, last |-> <<>>]
\* The mistake of pairing an answer with whatever line was said last.
RestoreWindowSlip(forget) ==
    LET kept(l) == Speaks(l) /\ (l.role = "user" \/ l.turn \notin forget)
        paired == FoldLeft(LAMBDA w, l : IF kept(l) THEN PairUp(w, l) ELSE w, NothingPaired, Latest(Window * 4))
    IN  LastOf(paired.pairs, Window - (Window % 2))
Kept(l, forget) == Speaks(l) /\ l.turn \notin forget
Paired(lines, forget) == FoldLeft(LAMBDA w, l : IF Kept(l, forget) THEN PairUp(w, l) ELSE w, NothingPaired, lines)
RestoreWindow(forget) == LastOf(Paired(Latest(Window * 4), forget).pairs, Window - (Window % 2))

-----------------------------------------------------------------------------
(* The core's side.                                                        *)

Lives == UNCHANGED <<arrived, twists, clock, raw, traces>>

Arrive ==
    /\ arrived < Len(Signals)
    /\ arrived' = arrived + 1
    /\ queue' = queue \cup {[sig |-> arrived', kind |-> Signals[arrived'], attempts |-> 0]}
    /\ UNCHANGED <<journalVars, turns, active, proc, raw, traces, twists>>

\* How much has been said and asked for so far, for the bounds.
Spoken == FoldLeft(LAMBDA n, l : n + Len(l.text) + 2 * Len(l.calls), 0, SelectSeq(Log, LAMBDA l : l.role = "assistant"))

\* What came in is written down the first time it is tried.
Begin ==
    /\ ~Open /\ Len(turns) < MaxTurns /\ Spoken <= MaxPieces
    /\ \E s \in queue :
        /\ IsNext(s)
        /\ queue' = queue \ {s}
        /\ active' = s
        /\ turns' = Append(turns, [sig |-> s.sig, kind |-> s.kind, outcome |-> "", flags |-> {}, hurt |-> FALSE])
        /\ Write(IF s.attempts = 0 THEN <<Line(This + 1, s.sig, "user", s.kind, <<>>, <<>>, TRUE)>> ELSE <<>>)
    /\ UNCHANGED proc /\ Lives

NoFlags == [tool_error |-> 0, repeat |-> 0, recovered |-> 0, truncated |-> 0, exhausted |-> FALSE, completed |-> FALSE]
Noted(f) == {n \in {"tool_error", "repeat", "recovered", "truncated"} : f[n] > 0}
            \cup {n \in {"exhausted", "completed"} : f[n]}

Claim ==
    /\ Open /\ proc = NoProc
    /\ proc' = [pc |-> "top", turn |-> This, window |-> RestoreWindow(ToForget), round |-> 0, calls |-> <<>>,
                seen |-> {}, failed |-> FALSE, flags |-> NoFlags]
    /\ UNCHANGED <<journalVars, queue, turns, active>> /\ Lives

\* Every write names its turn, and only the open one takes it.
\* The mistake of asking only whether some turn is open.
GuardSlip(p) == p # NoProc /\ Open
Guard(p) == p # NoProc /\ Open /\ p.turn = This

Ended(outcome, flags) == [turns EXCEPT ![This] = [@ EXCEPT !.outcome = outcome, !.flags = flags]]

\* The most recent runs keep their traces: the last by name, a turn's being the time it began.
Pruned == {r \in traces : Cardinality({s \in traces : s > r}) < TraceKeep}

Finish ==
    /\ turns' = Ended("ok", Noted(proc.flags))
    /\ active' = NoSignal
    /\ traces' = Pruned
    /\ UNCHANGED <<files, cur, day, queue>>

\* A person said stop: the message is set down.
Interrupt ==
    /\ Open /\ twists < MaxTwists /\ twists' = twists + 1
    /\ turns' = Ended("interrupted", {"interrupted"})
    /\ active' = NoSignal
    /\ Write(<<Line(This, active.sig, "assistant", "none", <<Piece("stopped", 0)>>, <<>>, TRUE)>>)
    /\ UNCHANGED <<clock, queue, arrived, proc, raw, traces>>

\* The process died with its turn open: a person's message is tried again, up to a limit.
Abandon ==
    LET giveUp == active.attempts + 1 >= MaxAttempts
    IN  /\ turns' = Ended("abandoned", {"abandoned"})
        /\ active' = NoSignal
        /\ queue' = IF Human(active.kind) /\ ~giveUp THEN queue \cup {[active EXCEPT !.attempts = @ + 1]} ELSE queue
        /\ Write(IF Human(active.kind) /\ giveUp
                 THEN <<Line(This, active.sig, "assistant", "none", <<Piece("gave up", 0)>>, <<>>, TRUE)>>
                 ELSE <<>>)

\* A process leaves, or dies, and with it its connection: the turn it holds is let go of.
Gone ==
    /\ proc' = NoProc
    /\ IF Guard(proc) THEN Abandon ELSE UNCHANGED <<files, cur, day, queue, turns, active>>
Die ==
    /\ proc # NoProc /\ twists < MaxTwists /\ twists' = twists + 1
    /\ Gone
    /\ UNCHANGED <<clock, arrived, raw, traces>>

\* The core dies and opens everything again; what it had in hand waits as if untried, also when
\* its turn had just been closed and only its file was still there.
Restart(closing) ==
    /\ twists < MaxTwists /\ twists' = twists + 1
    /\ proc' = NoProc /\ active' = NoSignal
    /\ queue' = IF Open THEN queue \cup {active} ELSE queue
    /\ Resume
    /\ turns' = IF closing THEN Ended("ok", Noted(proc.flags)) ELSE turns
    /\ UNCHANGED <<files, clock, arrived, raw, traces>>

-----------------------------------------------------------------------------
(* The process: rounds of asking, recording, and running what was asked    *)
(* for, each record written before anything is run.                        *)

OnOffer == {"shell", "think"}

\* What is sent for an answer is written down beside the run; when it cannot be, the run goes on.
Traced == traces' = traces \cup {proc.turn}

Ask ==
    /\ proc.pc = "top"
    /\ proc' = [proc EXCEPT !.pc = "waiting"]
    /\ raw' = <<>>
    /\ Traced
    /\ UNCHANGED <<journalVars, queue, arrived, turns, active, twists>>

Stream ==
    /\ proc.pc = "waiting" /\ Len(raw) + Spoken < (IF This = 1 THEN Deep ELSE MaxPieces)
    /\ \E t \in Sayable : raw' = Append(raw, Piece(t, Len(raw) + 1))
    /\ UNCHANGED <<journalVars, queue, arrived, turns, active, proc, traces, twists>>

\* A refused write ends the process; one that is taken is a line of the turn.
Record(line, next) ==
    IF Guard(proc)
    THEN Write(<<line>>) /\ proc' = next /\ UNCHANGED <<queue, turns, active>>
    ELSE Gone

\* An answer that asks for nothing is the end of the turn, whatever is in it.
Answered ==
    /\ proc.pc = "waiting"
    /\ LET p == ParsedWithTools(raw, OnOffer)
           flags == [proc.flags EXCEPT !.truncated = IF p.truncated THEN @ + 1 ELSE @, !.completed = p.calls = <<>>]
       IN  Record(Line(proc.turn, 0, "assistant", "none", p.content, p.calls, TRUE),
                  [proc EXCEPT !.pc = IF p.calls = <<>> THEN "report" ELSE "calls", !.calls = p.calls, !.flags = flags])
    /\ raw' = <<>>
    /\ UNCHANGED <<clock, arrived, traces, twists>>

(***************************************************************************)
(* How a command may end: what the shell said of it, and whether its       *)
(* output was closed by tool_timeout.  One that leaves something running   *)
(* with its output open counts as running still, whatever the shell said.  *)
(***************************************************************************)
ShellEnds == [said : {"nothing to run", "not started", "zero", "not zero", "signal", "lost"}, closed : BOOLEAN]
RunShell(end) == end.said = "zero" /\ end.closed

\* Whether a call went well: `finish` is answered for thoughts only, and what is no tool is refused.
Results(call) == CASE call = "shell" -> {RunShell(end) : end \in ShellEnds}
                   [] call = "think" -> BOOLEAN
                   [] OTHER          -> {FALSE}

\* The very same call once more in a turn.
IsRepeat(p, call) == call \in p.seen

\* What running a call adds to what the turn noticed.
Noticed(p, call, ok) ==
    [p EXCEPT !.seen = @ \cup {call}, !.failed = ~ok,
              !.flags = [@ EXCEPT !.repeat = IF IsRepeat(p, call) THEN @ + 1 ELSE @,
                                  !.recovered = IF ok /\ p.failed THEN @ + 1 ELSE @,
                                  !.tool_error = IF ok THEN @ ELSE @ + 1]]

\* After the last call of a round the next begins, or the turn has run out of room.
NextRound(p) ==
    LET over == p.round + 1 = MaxRounds
    IN  [p EXCEPT !.round = @ + 1, !.pc = IF over THEN "report" ELSE "top", !.flags.exhausted = over]

\* `finish` ends the run there and then, on whichever surface it was called.
RunCall ==
    /\ proc.pc = "calls"
    /\ \E ok \in Results(Head(proc.calls)) :
        LET call == Head(proc.calls)
            p == Noticed([proc EXCEPT !.calls = Tail(@)], call, ok)
            next == IF call = "finish" THEN [p EXCEPT !.pc = "report", !.flags.completed = TRUE]
                    ELSE IF p.calls = <<>> THEN NextRound(p) ELSE p
        IN  Record(Line(proc.turn, 0, "tool", "none", <<>>, <<call>>, ok), next)
    /\ UNCHANGED <<clock, arrived, raw, traces, twists>>

Report ==
    /\ proc.pc = "report"
    /\ proc' = NoProc
    /\ IF Guard(proc) THEN Finish ELSE UNCHANGED <<files, cur, day, queue, turns, active, traces>>
    /\ UNCHANGED <<clock, arrived, raw, twists>>

-----------------------------------------------------------------------------
(* Around it.                                                              *)

\* The limbic system scores a turn that went well by its numbers as one that hurt.
Feel ==
    /\ twists < MaxTwists /\ twists' = twists + 1
    /\ \E n \in DOMAIN turns : turns[n].outcome = "ok" /\ ~turns[n].hurt /\ turns' = [turns EXCEPT ![n].hurt = TRUE]
    /\ UNCHANGED <<journalVars, queue, arrived, active, proc, raw, traces>>

\* A step of an inner thought leaves its trace, under a name of six random digits, nearly all of
\* which come after the names of turns.
ThoughtTraced ==
    /\ twists < MaxTwists /\ twists' = twists + 1
    /\ traces' = traces \cup {MaxTurns + twists'}
    /\ UNCHANGED <<journalVars, queue, arrived, turns, active, proc, raw>>

Tick ==
    /\ twists < MaxTwists /\ twists' = twists + 1
    /\ clock' = clock + 1
    /\ UNCHANGED <<files, cur, day, queue, arrived, turns, active, proc, raw, traces>>

Init ==
    /\ JournalInit
    /\ queue = {} /\ arrived = 0 /\ turns = <<>> /\ active = NoSignal
    /\ proc = NoProc /\ raw = <<>> /\ traces = {} /\ twists = 0

Mentor == Interrupt \/ Feel
Core == Begin \/ Claim \/ Restart(FALSE) \/ (Guard(proc) /\ proc.pc = "report" /\ Restart(TRUE))
Process == Ask \/ Stream \/ Answered \/ RunCall \/ Report \/ Die
Next == Arrive \/ Mentor \/ Core \/ Process \/ ThoughtTraced \/ Tick
Spec == Init /\ [][Next]_vars

-----------------------------------------------------------------------------
(* Properties.                                                             *)

Pairs == {i \in DOMAIN proc.window : i % 2 = 1}
Working == proc # NoProc

(***************************************************************************)
(* The exchanges handed to a turn are whole: something a person said and   *)
(* what was answered to it, in the same turn.  The one way around it is a  *)
(* turn that ended well without a word, whose question is still waiting    *)
(* for the next answer that has lost its own (restore_window_without       *)
(* pairs neighbours and does not look at their turns).                     *)
(***************************************************************************)
Answers(n) == {i \in DOMAIN Log : Log[i].turn = n /\ Log[i].role = "assistant" /\ Speaks(Log[i])}
ExchangesAreWhole == Working => \A i \in Pairs :
    LET q == proc.window[i] a == proc.window[i + 1]
    IN  q.role = "user" /\ a.role = "assistant" /\ (q.turn = a.turn \/ Answers(q.turn) = {})

(***************************************************************************)
(* A turn is not shown its own message as something said before, though    *)
(* the message may have been written down by an attempt that failed or by  *)
(* a core that died; unless that attempt did end well and only the core    *)
(* did not live to say so.                                                 *)
(***************************************************************************)
AskedOnce == Working => \A i \in DOMAIN proc.window :
    proc.window[i].sig = turns[proc.turn].sig => turns[proc.window[i].turn].outcome = "ok"

(***************************************************************************)
(* What a person is shown of a run, found backwards from the end of the    *)
(* conversation, is every line of it in the order they were written,       *)
(* through rotation, midnight and restarts.                                *)
(***************************************************************************)
LinesOf(n) == UNION {{l \in ToSet(files[f]) : l.turn = n} : f \in DOMAIN files}
OfTurnIsWhole == \A n \in DOMAIN turns :
    LET found == OfTurn(n, 400)
    IN  /\ ToSet(found) \subseteq LinesOf(n)
        /\ \A i, j \in DOMAIN found : i < j => found[i].ts < found[j].ts
        /\ \A l \in LinesOf(n) \ ToSet(found) : Len(found) = 400 /\ l.ts < found[1].ts

(***************************************************************************)
(* Neither the reasoning nor the inside of a call is shown, however the    *)
(* generation ends ("a half-streamed call or a malformed one must never be *)
(* shown to a person as if it were speech").                               *)
(***************************************************************************)
NothingInside == \A p \in ToSet(Visible(raw)) : p.at \notin Reasoning(raw) /\ ~InACall(raw, p.at)

(***************************************************************************)
(* A generation may stop anywhere, within a tag or a body too, which is    *)
(* then a word like any other.  What is run of one that was cut off is the *)
(* beginning of what the whole would have run: no call is read from half   *)
(* of one, nor another in its place (parse.rs: "a half-streamed call or a  *)
(* malformed one must ... never be run as if it were a valid call").  The  *)
(* one way around it is the recovery of a call without its tags: it cannot *)
(* know that more was to follow.  What it then runs was written in full,   *)
(* and nothing else that was said had come.                                *)
(***************************************************************************)
Runs(r) == ParsedWithTools(r, OnOffer).calls
Bare(r) == Parsed(r).calls = <<>> /\ Len(Parsed(r).content) = 1 /\ Runs(r) = <<Parsed(r).content[1].t>>
Cuts(r) == UNION {{SubSeq(r, 1, k), Append(SubSeq(r, 1, k), Piece("word", k + 1))} : k \in 0..Len(r) - 1}
CutOffRunsNoOther == \A c \in Cuts(raw) : IsPrefix(Runs(c), Runs(raw)) \/ Bare(c)

(***************************************************************************)
(* The traces kept are those of the most recent runs (trace.rs: "Keep the  *)
(* most recent runs and forget the rest"): the run that has just ended is  *)
(* among them.                                                             *)
(***************************************************************************)
NewestTraceStays == [][(proc.pc = "report" /\ turns' # turns) => This \in traces']_vars

(***************************************************************************)
(* A call without its tags is run only when "the whole message is the call *)
(* and nothing else" (parse.rs, parse_with_tools), but for the reasoning.  *)
(* What could not be read between tags, or was cut off after them, is      *)
(* taken out before anybody looks: this does not hold.                     *)
(***************************************************************************)
AloneWhenBare == Bare(raw) => \A i \in DOMAIN raw : i \in Reasoning(raw) \/ raw[i].t \in Tools
=============================================================================
