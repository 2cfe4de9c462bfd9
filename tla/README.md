# Groow: a verification project

Groow keeps one language model "alive". A core process (the hub, in Rust) owns everything that
persists and starts one short-lived process for each turn of the conscious thread and for each step
of an inner thought; a Python brain serves the model and, in naps and nights, learns from the day;
a terminal window lets a person watch and talk. This directory holds TLA+ specifications of it,
TLC configurations that check them on small instances, and TLAPS proofs of what matters most for
every instance.

Paths below are relative to `src/`; `core/` is short for `rust/crates/core/src/`, and `harness/`,
`proto/`, `ui/` and `cli/` likewise; `neuro/` is the Python side.

Contents: [the system](#the-system), [the modules](#the-modules),
[how the code becomes actions](#how-the-code-becomes-actions), [what is checked](#what-is-checked),
[bounds](#bounds-and-why-they-are-enough), [fairness](#fairness),
[what is proved](#what-is-proved), [where code and word disagree](#where-the-code-and-its-word-disagree),
[not modelled](#what-is-not-modelled), [plan](#plan), [running it](#running-it).

## The system

| component | state it keeps | operations | hard behaviour | what makes it correct | module, status |
|---|---|---|---|---|---|
| brainstem (`core/brainstem.rs`) | what the creature is doing, what it did before it slept, unanswered nudges | `feel(stimulus)` | every stimulus may come in every state; the answer gates turns and passes | it thinks exactly while a turn is open and sleeps exactly while a pass runs | `Brainstem`, modelled |
| hub: turns (`core/hub.rs`) | the open turn, the epoch, failures in a row, files, database | `next_duty`, `begin`, `claim`, `append`, `finish`, `interrupt`, `abandon`, `say` | four parties may end a turn; dead processes still speak; crash at any moment | one turn at a time, the first to end it decides, no message lost, repeated without end or out of order | `Turns`, modelled |
| hub: thoughts (`core/hub.rs`, `core/store/thoughts.rs`) | one record per thought on disk, the set `starting` in memory | `think`, pause, resume, kill, `finish`, claim, append, end, failed, `reap`, `ready` | several processes of one thought may be alive, watched without being waited for | one process per thought, nothing held back for good, what is done is told | `Thoughts`, modelled |
| hub: status, recall, stats, events | subscribers and their bounded queues | recall, list of runs, fan-out | watchers that are slow, leave or come back | order survives dropping | `View`, `Look`, `Wire`, partly |
| scheduler, watch, spawn (`core/server.rs`, `core/spawn.rs`) | where its loop is, the turn in hand | ask for a duty, start a process, watch it to its end, abandon what it left | a watch ends before or after the connection's own word | whatever it waits for ends | `Turns`, `Thoughts`, `Home`, partly |
| connections (`core/conn.rs`, `core/peer.rs`) | the turn claimed, tasks under way, a queue to the peer | read, dispatch, stream, push, close | every request has a task of its own; full queues; torn lines | every request is answered; pieces before their answer; events in order | `Wire`, `Turns`, modelled |
| inbox (`core/store/inbox.rs`) | `new/`, `cur/`, files set aside | push, pop, ack, requeue, recover | several file operations each, and a crash between any two | never lost, bounded tries | `Post`, `Mailbox`, modelled |
| alarms (`core/store/schedule.rs`) | one file of alarms | add, cancel, due | slept-through repeats, times of day, words to parse | each due alarm rings once; the next ring is in the future and in phase | `Schedule`, modelled |
| journal (`core/store/journal.rs`) | files of lines, each stamped with its turn | append, rotate, tail, before, of turn, window | full files, midnight, resuming, a window rebuilt from lines | lines of a turn found whole; questions paired with their answers | `Journal`, `Mind`, modelled |
| database (`core/db.rs`) | outcome of each turn, what it noticed, counters | began, ended, to forget, recent | written before the file it is about is removed | the outcome never changes; what failed is forgotten | `Turns`, `Mind`, `Look`, partly |
| identity, birth, paths, home, configuration | the files of a creature and who owns them | start, seed, be born, hand over, lock, listen, stop | a start cut short anywhere; two cores on one home | nothing redone, a core that is up is whole and reached | `Home`, partly |
| traces (`core/store/trace.rs`) | one file per run | write, prune, read | pruned by name | the inside of a run is its own | `Mind`, `Look`, modelled |
| wire (`proto/`, `core/codec.rs`) | frames, roles, epochs | encode, decode, authorise | lines cut or malformed | each role does what it is for; a bad line ends one connection only | `Wire`, partly |
| brain client (`core/brain.rs`) | a generation being streamed | complete, health, reload | streams cut off or failing | one terminal answer, last | `Wire`, partly |
| harness (`harness/`) | one process's conversation and flags | claim, rounds of generation and tool calls, end | generations that stop anywhere, refused writes, limits | nothing of the reasoning is shown or run | `Mind`, `Parse`, `Wire`, partly |
| command line (`cli/`) | none | start, stop, talk, show, doctor | a body that is, or is not yet, up | a command arrives as who sent it | `Home`, `Wire`, partly |
| interface: conversation, link, loop (`ui/app.rs`, `state.rs`, `link.rs`) | bubbles, what is pending, the connection | events, pages, echoes, scrolling, clearing, reconnecting | pages and events in any order, ids that start again | what is shown of the journal is a run of it | `View`, modelled |
| interface: journal pane (`ui/state.rs`, `cards.rs`) | the list of runs, the pointer, an opened trace | filter, pick, open | the list shifts between asking and being told | the steps shown are the run's | `Look`, modelled |
| interface: the line (`ui/line.rs`, `draw.rs`) | characters, cursor, history | every key, wrapping | pages of history arriving while one reaches back | wrapped whole, the cursor's row shown, a place kept | `Line`, modelled |
| serving queue of the brain (`neuro/serve.py`) | a priority queue, one worker | generate, probe, train, consolidate, discard | jobs of a pass that was stopped | what is measured is what is merged | `Learning`, modelled |
| learning cycle (`neuro/learn.py`, `hippocampus.py`, `learning/`) | samples, mark, cursor, the gate of the merge | nap, night | a pass stopped, a job that fails, a container that goes, at any step | nothing forgotten, everything practised in the end | `Learning`, modelled |
| limbic scoring, memory (`neuro/limbic/`, `neuro/memory/`) | feelings; exchanges read back from the journal | feel, match | open turns, retries | the words practised are the turn's own | `Learning`, partly |
| model (`neuro/brain/model.py`) | base and overlay, in memory and on disk | train, save, merge, discard, load | a merge is three steps on disk | what was merged stays | `Learning`, partly |

How they interact: the hub is one task that owns its state, takes requests from one channel and
answers each without awaiting, so a handler is atomic for everybody but a crash. The scheduler, each
connection and each request of a connection are tasks of their own. Turn and thought processes, the
passes of learning and the brain are processes of the operating system that speak through
connections; one that is dead may still have a request in flight and a connection whose end has not
been noticed. Files outlive everything. The hub pushes events to whoever watches through bounded
queues that drop.

`PROJECT.json` lists the hazards this gives rise to, each at its line, with the properties that
would catch it going wrong.

## The modules

| module | what it is |
|---|---|
| `Brainstem` | `core/brainstem.rs` as pure operators: states, stimuli, `Feel`, and what it answers when asked (`Reflex`). |
| `Turns` (extends `Brainstem`) | The conscious thread: hub, scheduler, processes, connections, inbox, journal and database as far as turns go, the mentor, the brain's availability, crash and restart. |
| `Mailbox` | The abstract promise of the inbox: each signal is unsent, waiting, held or settled; one is held at a time; only a person's is given back, and only so often. It models no code; `Turns` implements it. |
| `Thoughts` | The inner thoughts: store, hub handlers, scheduler, watchers, processes, interventions, restart. |
| `Schedule` | `core/store/schedule.rs` as pure operators: what is read from words, first time, what is due, what is kept. |
| `Post` (extends `Schedule`) | The inbox and the schedule on disk, one file operation at a time, under the hub's handlers, with a crash between any two operations. |
| `Journal` | The files of the conversation and their readers: rotation, midnight, resuming, the lines of a turn, backwards pages. |
| `Parse` | `harness/parse.rs` as pure operators on pieces of a generation. |
| `Mind` (extends `Journal`, `Parse`) | What one turn is made of: the window it is handed, its rounds, what it records and notices, traces, retries, a death or restart in between. |
| `Wire` | Frames, connections, a task per request, streaming, the hub's one queue, watchers, the client's half. |
| `View` | A window's conversation with the link and the loop that feeds it, and the part of the core that answers. |
| `Look` | The window's journal pane and the requests behind it. |
| `Line` | The line being typed, every key on it, its history, and how it is wrapped and drawn. |
| `Home` | A start step by step on a creature's files, by root or by a person, of several cores, and which way a command goes. |
| `Learning` | The day, the passes over it, the brain's queue and worker, base and overlay in memory and on disk. |
| `MC*` | Small instances for TLC: values for the constants, and little else. |
| `Turns_proofs`, `Thoughts_proofs`, `Post_proofs`, `Wire_proofs`, `View_proofs`, `HomeAndLook_proofs`, `Learning_proofs`, `Text_proofs` | The theorems; `Text_proofs` has those of `Journal`, `Parse`, `Mind` and `Line`. |

Several modules look at the same code at different grains. `Turns` and `Thoughts` take each hub
handler as one step (that is what other tasks see) and are about the interleaving of tasks and
processes; `Post` opens the handlers up and is about the order of file operations, which only a
crash can see; `Mind` is about what one process does between two of them; `Wire` is about the frames
that carry them. Each says at its head what it leaves to which other.

A definition whose name ends in `Slip` is a copy of its neighbour with a mistake a change to the
code could plausibly make. No action uses one; they exist so that each property can be shown to
notice something, and each property of a passing run has such a mutant in `PROJECT.json`.

## How the code becomes actions

**Turns.** `active`, `epoch`, `stem`, `failStreak`, `cooling` are fields of the hub; `new`, `cur`,
`stamp`, `tries` the inbox (a file's name starts with priority and arrival time, which a requeue
keeps); `recorded`, `lines`, `setdown` what the journal holds of each signal and turn; `signalOf`,
`outcome`, `last`, `since` the database. Per turn, `procs` is the process started for it, `wire` its
request in flight, `conn` its connection.

| code | action |
|---|---|
| `server.rs` `run_scheduler` | `Health`, `NextDuty` (with the hub's `next_duty` inside), `TurnSpawned`, `TurnNotSpawned`, `TurnWatched`, `SettleTurn`, `LearnBegins`, `LearnNotSpawned`, `LearnEnds` |
| `hub.rs` `next_duty` | `DutyIdle`, `DutyTurn` (alarms due, pop, `Begin`), `DutyLearn`, `DutyNudge`, `DutyNothing` |
| `hub.rs` `claim`, `append`, `finish` | `HubClaim`, `HubAppend`, `HubFinish`, each behind `Guard` where the code has `guard` |
| `hub.rs` `abandon` | `Abandon`, reached from `SettleTurn` and from `HubLetsGo` |
| `hub.rs` `interrupt`, `say`, `schedule` add, emit, shutdown | `Interrupt`, `Say`, `SetAlarm`, `ToolEvent`, `Quit` |
| `conn.rs` `serve`, `dispatch` | `Reply` (notes what was claimed or finished), `ConnCloses`, `HubLetsGo` |
| `harness/run.rs`, `client.rs` | `Claim`, `Write`, `End`, `Gone` |
| `Hub::new`, `Inbox::open` | `Restart` with `RecoverHeld` |

Time is not measured: an alarm may fall due, a backoff may run out (`BackoffElapses`) and a pass may
come due whenever the hub asks, which allows every timing the code can have.

**Thoughts.** `status`, `steps`, `pid`, `attempts` are the fields of a record; `order` is the order
in which the store lists them and `rested` those saved at least `STEP_GAP` ago; `starting` is the
hub's set of thoughts handed out and not yet claimed; `told` counts reports put in the inbox.
`NextDuty` is `reap`, then the clearing of `starting`, then `ready`, in that order; `SomebodyActs` is
`thought_action`; `HubClaim`, `HubAppend`, `HubFinish`, `HubEnd` the four requests of a process;
`WatchReports` the watcher's `thought_failed`; `DiesTelling` a crash between the two effects of
`thought_end`. The scheduler asks the brainstem only when it is free, which `Turns` proves
(`Agreement`), so here the answer is always "begin".

**Post.** The state is the directories' worth of files, the schedule's file and the handler the core
is in. `at` says which operation comes next: `TakeDue`, `Ring` (once for each alarm), `Pop`,
`ReadSignal` or `SkipStray` are `next_duty`; `Close` or `Abandon`, then `Copy` (the first half of
`requeue`) and `Ack`, end a turn; `Crash` may come anywhere, then `GiveBack` is `Inbox::recover`, one
file at a time. `AlarmAction` sets an alarm from a word (`ParseWhen`, `ParseRepeat`) or cancels by
prefix. `owed` is a history variable: each ring that fell due (an alarm and how often it has gone off), from that
moment, when it was set or when time came to it, until it is cancelled or dies in the core's hands; no action reads it. A write
to a temporary name followed by a rename is one operation, because a temporary name is never listed.

**Mind.** `Begin` records what came in and opens the turn; `Claim` hands over the window
(`RestoreWindow`: lines backwards, without the turns to forget, paired by neighbours); `Ask`,
`Stream`, `Answered`, `RunCall`, `NextRound`, `Report` are the loop of `run.rs`; `Noticed` is what a
call adds to the flags; `Guard` what the core checks of each write; `Pruned` which traces go.
`ThoughtTraced` is an inner thought's trace beside them, `Tick` a second, with midnight among them.
What the model says is any sequence of pieces (`Sayable`): words, the four tags, calls.

**Wire.** `up[c]` are lines on their way to the core, `out[c]` the bounded queue back, `tasks[c]` the
task each request got and where it is, `cmds` the hub's one channel, `subs` the queues of watchers.
`OnEvent`, `OnRequest`, `Refuse`, `Close`, `Break` are the read loop; `Asks`, `Tells`, `Forward`,
`Generates`, `Pump`, `Completes` the stations of a task; `Handle` the hub taking one command and
`Fanout`; `Does`, `Call`, `Hears`, `Talk`, `Reads`, `GivesUp` the other end. What a turn does is
numbered by that turn, and the events that tell of it carry the turn and the number; what two
turns do has no order but the one the hub gives it.

**View.** `win` is the window's state (bubbles, `said`, what is loading, scrolling), `pend` the ids
waited for, `wire` the connection with its inbound queue, `log` the journal. `Top` is the head of the
loop (connect, or not reached, or ask for more), `FromCore` a reply or event taken, `Key`,
`Submit`, `Clear`, `ScrollBy` what a person does; `Handle` answers a request of the window. `lapses`
notes the moments after which the code's own bookkeeping is known to be off, so that a property can
say what holds otherwise: `astray` (the note of which bubble the answer is in no longer follows it:
a thought spoke, an event was lost, a reconnect, ctrl-l, or a first page put on top), `misled` (a
failed send drops the link without forgetting what was pending, and ids start again), `refused` (a
failed reply never clears what was pending), `crossed` (an older page asked for while the first is
on its way), `gap` (an older page that comes when the oldest line held is no longer the one it was asked before).

**Look.** `runs` is what the core knows, `win` the list as last heard with pointer and filter, `pend`
the ids waited for and the run they are about, `asked` and `rx` requests and answers in flight.
`Turn` is one round of the loop, `AskInside` the trace asked for, `TakeInside` its answer.

**Line** has one operator for each method of the editor, and one action for each kind of key and for
the pages of history that come in between (`LineNext`). `Wrap` and `CursorAt` are `wrap`; `InputHeight`
is the height the box asks for and `Granted` what the layout may give it: all of it where six rows are
left for the rest of the window, and any part of it otherwise, for how a low window is divided is the
drawing library's; `Shown` are the rows drawn, `TextColumn` and `CursorColumn` where on a row.

**Home.** `core[c].pc` is the step of a start: `Start` (as root or a person), `ReadBirth`, `BeBorn`,
`Leave`, or `FindNothing`, `BeginCopy` and `EndCopy`, for each thing of the skeleton,
`HandOver`, `LockState`, `Listen`; then `Claim`, `Stop`, `Stopped`, and `Crash` or `CopyFails` anywhere. `Act` and `Describe` are what the mind does to
its own. The look and the copy are steps of their own: whatever comes to that place in between, or
while the copy goes on, may be written over (`Outcomes`). Which core was started beside another since
the last time none was there is kept in `rivals`. `Way`, `ArrivesAs`, `RoleAt` say which way a command
goes, as whom it arrives and what it may do; a person away from the project is not told of the body
and goes to the socket, and in the sandbox the person's account is the mind's.

**Learning.** `Steps` is what a nap and a night do, in order; `Feel`/`Felt`, `Harvest`/`Harvested` go
row by row as the code commits row by row (what a pass still has before it is a set, and `IsNext` the
order it is gone through in: the oldest turn first, its example before its decision); `ReadBack` is
as much of the conversation as `LOOKBACK` reads; `AskTrain`, `AskProbe`, `AskMerge` enqueue; `Take` and the
worker's steps (`Speak`, `Probe`, `Practise`, `MarkConsumed`, `Save`, `Merge` in four steps, `Drop`)
are the brain. `JobFails`, `Stopped` (the pass is killed at its limit, its jobs stay) and `Crash` (the
container goes) are what goes wrong. `TakeTurn` stands for all a day does to the turns table and the
conversation.

## What is checked

| run | shows |
|---|---|
| `MCTurns` | Two messages of a person, an alarm and a nudge, two turns. `TypeOK`. `OneThread`: a turn is open only while the scheduler has that very turn in hand. `StemFollowsTheBody`: brainstem, hub and scheduler agree. `HeldIsActive`: `cur/` holds exactly the open turn's signal. `NothingTwice`, `InOrder`: what was dealt with stays so, and messages are dealt with in the order they came, retries included. `OutcomeIsFinal`: no step changes how a turn ended. |
| `MCTurnsRestart` | One message, three turns, one crash or quit. `NothingLost`, `WrittenDown`, `NoLateLines` (nothing is written under a turn that has ended); `KeepsThePromise`: the whole core implements `Mailbox` under the mapping `PlaceOf`; `EveryoneIsAnswered`: a person is dealt with in the end. |
| `MCPost` | One message, two alarms set with every word of interest, one unreadable file, a crash anywhere. `NeverLost`; `PatienceSurvives`: tries are bounded although a crash may undo the counting of one; `NothingStranded`: nothing readable waits in `cur/` for a restart; `AlarmsArrive`: each ring that fell due, a one-off one too, of which the schedule keeps nothing, is in exactly one of three places: due on the schedule, taken off and about to be pushed, or put in the inbox; and no signal is taken before the last is pushed; `BacklogIsSkipped`: the next ring is in the future, in phase. |
| `MCThoughts` | One thought, two processes, an intervention, a restart. `StartingIsSpokenFor`: whatever is held back has a process on its way that will claim it or be reported; `DoneIsTold`; `NoTakeover`: a record passes from one process to another only past the death of the first; `EveryThoughtSettles`: it is finished, parked or set aside in the end. |
| `MCMind` | Three signals, one turn after another. `ExchangesAreWhole`: what a turn is shown pairs each question with what was answered to it in the same turn, with the one way around it named; `AskedOnce`: a retry is not shown its own message as already said; `OfTurnIsWhole`: the lines found for a run are all of its lines; `NothingInside`: nothing of reasoning or calls is shown as said; `CutOffRunsNoOther`: wherever a generation is cut off, inside a piece too, what is run of it is the beginning of what the whole would run, the recovery of a call without tags aside. |
| `MCWire` | One turn and one window, queues two deep, a generation in pieces, a torn line or a death. `AsTheyHappened`: what a turn did a watcher is told in order, each thing once, whatever was dropped; `PartsThenAnswer`; `EveryCallEnds`: every request is answered, refusals and failures included. |
| `MCView` | A window of four bubbles over a journal, pages of two, one disturbance. `EndCorrectsItsOwn`: the end of a turn rewrites that turn's answer; `HistoryIsARun`: what is on screen of the journal is a run of it, on top of what came since, in order, each record once; `LoadingEnds`. |
| `MCLook` | Two runs, answers in any order. `StepsAreItsOwn`: the steps beside a run are its own. |
| `MCLine` | Every key on lines of up to four characters, windows of several widths and heights, some too low for the box. `RowsKeepTheLine`: wrapping puts every character on a row once, in order, breaks words only when it must, and the row the cursor is on is one of those shown, whatever height the box is given; `PlaceHolds`: reaching back keeps its place while pages arrive. |
| `MCHome` | Three starts of two cores, crashes, failed copies. `AwakeAndWhole`: a core that is up while no other was there at once is reached, holds the certificate on disk, can write its state, and is apart from the mind if it is root; `StartsRewriteNothing`: as long as no other core is there, no start writes over what the mind has made or the certificate, also where a crash or a second core left it half way before. |
| `MCLearning` | Two turns, naps and nights, one mishap. `NothingForgotten`: every answer that is read back and that the harvest has gone past became a sample; `ComparedIsMerged`: what becomes permanent is what was measured; `DayIsPractised`: every answer is practised in the end. |
| `MCLearningMerge` | Finds `MergedStays` violated, see below. |

None of `OneThread`, `StemFollowsTheBody`, `HeldIsActive` restates a line: `next_duty` opens a turn
without asking whether one is open, and relies on the scheduler, on three ways of ending and on the
brainstem's answers together.

`NothingTwice` and `PatienceBounded` speak of a core that has stayed up, on purpose: delivery is at least
once (`core/store/inbox.rs:13`). `Turns` takes `finish` and `requeue` as one step each, which is what the
other tasks see of them; but a core that dies between `db.turn_ended` and the `ack` (`core/hub.rs:828-834`)
brings an answered message back, and one that dies between the halves of `requeue`
(`core/store/inbox.rs:197-201`) leaves the uncounted file too. Those steps are apart in `Post`, whose
`PatienceSurvives` says what is left of the bound: each crash may buy the message another round.

`NothingForgotten` speaks of the exchanges that are read back. The harvest reads the last `LOOKBACK`
records (600, `neuro/hippocampus.py:27`), usually more than come between two passes; a turn
harvested only when its own exchange is further down is given the words of the nearest that is not.

`DayIsPractised` asks that the cursor goes past a sample of the turn. A job that fails in training
leaves its steps in memory and its samples unconsumed, so they are practised again.

These also hold when named in a configuration: `NoTurnOverwritten`, `PatienceBounded`,
`AbandonedOnlyWhenGone` (`Turns`), `TypeOK` and `CopiesBounded` (`Post`), `TypeOK` (`Thoughts`),
`TypeOK` and `PagesAreAwaited` (`View`), `DraftReturns` (`Line`), and `PickedIsOnScreen` (`MCLook`, with three
runs). `NoTurnOverwritten`, `PatienceBounded`, `AbandonedOnlyWhenGone`, `CopiesBounded`, `DraftReturns`
and the `TypeOK` of `Post` and of `View` are theorems.

## Bounds, and why they are enough

* `Turns`: `MaxTurns` 2 or 3 turn ids. Every race in the code is between a turn and its predecessor
  (a late word of turn *t* during turn *t+1*), so two suffice for it; three let one message use up
  its patience (`MaxAttempts` = 2, for the code's constant) with a restart in between. `MaxRounds`
  0 or 1 lines written by a process. `MaxRestarts` 1: what a restart does depends on files only, and
  one restart meets every combination of them the instance can reach. `Saturation` 2 caps the count
  of unanswered nudges, which the code caps by saturation.
* `Thoughts`: two processes of one thought, `MaxSteps` 2, `MaxAttempts` 2, one intervention, one
  restart: one process dead and not yet reported while the other claims. `TellCap` 2 stops counting
  reports where "more than one" is all that matters.
* `Post`: `MaxRestarts` 1: a
  further crash leaves one more copy of a file (`CopiesBounded`), and the theorems are for any number; `MaxCopies` 2, so three files of one signal, more than a crash and a retry can produce (a fourth
  would disable `Put` and be seen as a deadlock, never as a pass); `MaxClock` 3 with a `Day` of 2
  moments crosses a day and sleeps through up to three repeats of a period of one; `MaxFires` 2. There
  are two alarms, and what happens beside the second is bounded (`SecondAlarmIsBounded` in `MCPost`): it comes
  after the first, which is no loss as they are alike, with no unreadable file, no failed turn,
  and no period of two. All of these meet one alarm.
* `Mind`: three signals, a `Window` of 2 messages, so that an exchange falls out of it; `MaxLines` 3 makes a file
  fill up within two turns and `DaySeconds` 1 makes midnight fall between any two; `TraceKeep` 1;
  `Deep` 4 pieces of generation in the first turn, enough for a block of reasoning or a call opened
  and closed with something on either side, and `MaxPieces` 2 where later turns are to follow; `MaxTwists` 1 interrupt, death or restart.
* `Wire`: queues of two, so that a third frame is dropped; `MaxDeltas` 2 pieces of an answer, `MaxDoes`
  3 things done by the turn, `MaxTwists` 1.
* `View`: `Kept` 4 bubbles of which a page is 2, a journal of 3 lines before the window opens, one
  input and one disturbance, `MaxId` 9: nobody scrolls once so many requests were sent.
* `Look`: two runs of four kinds, four requests, two keys, one piece of news; lists drawn in windows
  two to four rows high. `Line`: four characters make a word that no row of two columns holds, with a
  blank in every position; widths 4 to 6 leave 2 to 4 columns. Of the heights, 12 gives the box all it asks
  for, which is less than a row for each, and 7 and 4 any part of it.
* `Home`: two cores (a third meets nothing two do not), three starts, so that a core may meet what
  two earlier ones left; a skeleton of a skill with its command and the settings (a page of the manual is copied as a command is); symmetric in the cores, whose
  properties are safety only.
* `Learning`: two turns, naps of one sample and nights of two (a turn may be worth two, so a nap
  leaves one behind), one mishap of any kind at any step, one request of somebody else.

`CHECK_DEADLOCK FALSE` stands where bounded inputs run out and nothing is left to do: `MCHome`,
`MCLook`, `MCMind`, `MCView`, `MCWire`. Everywhere else a state without a successor would be reported.

The theorems below carry no bounds: constants are arbitrary, subject to the named assumptions.

## Fairness

* `Turns!Fairness`: weak fairness of the scheduler's own steps (its loop has no other wait); every
  process ends (`Gone`: `watch` kills it at its limit); a backoff runs out; a core that went away is
  started again; and strong fairness of a healthy answer of the brain — the brain may come and go,
  but is not down for good from some moment on. Nothing is assumed of what a process does, of
  connections, or of the mentor, so a process may hang, write nothing or never claim.
* `Thoughts!Fairness`: likewise, with the hub answering requests, `STEP_GAP` passing and a watcher
  reporting.
* `Wire!Fairness`: tasks run, the hub takes commands, clients read. The brain may take for ever, and
  `EveryCallEnds` excepts what it is still at.
* `View!Fairness`: the loop goes round; every request has a task of its own, so each is answered;
  `FromCore` is strongly fair because tokio's `select!` picks at random among the branches that are
  ready.
* `Learning!FairSpec`: naps and nights come round on the clock for ever, the pass and the brain's
  worker run.

Liveness runs bound the turns and restarts. The bound is part of the model, not of the code; in
`MCTurnsRestart` one message needs at most `MaxAttempts` turns plus one for the restart, and gets
three, so the bound never decides the outcome.

## What is proved

For all values of the constants that satisfy the named assumptions (`SaturationAssumption`,
`TurnsAssumption`, `ThoughtsAssumption`, `ScheduleAssumption`, `PostAssumption`, `HomeAssumption`,
`WireAssumption`, `ViewAssumption`, `LearningAssumption`, `LookAssumption`, `JournalAssumption`,
`MindAssumption`, `RememberedAssumption`, `BlankAssumption`, `SizesAssumption`: disjointness of kinds,
null values outside the sets they extend, positive limits). Every safety property that a passing run
names is also a theorem; the runs show it on a small instance, and that the proof is about a model in
which the interesting cases happen.

**`Turns_proofs`.** `TypeCorrect`; `OneThreadHolds`, `StemHolds`, `HeldHolds`, `LinesStop`,
`OutcomesStand`, `NeverOverwritten`. None of `OneThread`, `StemFollowsTheBody`, `HeldIsActive` is
inductive alone: that no turn is open when the scheduler asks needs that the brainstem never claims
to be in a turn otherwise, which needs that what it returns to after a pass is not a turn
(`StemIsReady`), and that popping keeps `cur/` right needs the two directories disjoint
(`InboxIsSound`). Their conjunction is `Agreement`, and `TypeOK /\ Agreement` is inductive. The
argument is that no word of a process or connection moves the thread: each passes `Guard` or names
the turn it is about, so only the scheduler's own steps need a close look. `LinesStop` and
`OutcomesStand` need one invariant more, that the open turn is the last one issued and the only one
whose outcome is open. `NoneIsCutOff` (`AbandonedOnlyWhenGone`) rests on `Claimants`: a turn not issued
yet has no process and no connection, a grant is given to one process, a connection lets go only
once its process is gone, and what the scheduler settles has lost its process or never got one.

The second half of the module is the promise. On top of that invariant, every step of the core does one of a few things to
the mail (`Moves`: nothing, a signal arrives, a turn opens, its signal is settled, is given back, or
is recovered by a restart). From it: `PromiseKept`, the refinement of `Mailbox` (initial states map
to initial states, each move to one step of it or a stutter); and, with the bookkeeping invariant
`Ledger`, `NothingIsEverLost`, `NothingComesTwice` (while the core stays up) and `OrderIsKept`, whose hard case is a retry going
back into a queue that has grown meanwhile and keeping its stamp; with a count of what was written and
what failed, `WrittenOnceALife` and `PatienceEnds` (while the core stays up). The crashes of this module fall
between two handlers; those inside one are `Post_proofs`'.

**`Thoughts_proofs`.** `SpokenForHolds` follows the process a thought is spoken for through its
life — started, its claim in flight, dead and not yet reported — and needs that a process has at
most one request in flight, or a later one could overwrite the claim owed. `NobodyIsRobbed` is the
action property `NoTakeover`. `NoFindingIsLost` (`DoneIsTold`): a record becomes done in two places,
a finish and the end of the last step, and each puts the report in the inbox in the same step.

**`Post_proofs`.** `NothingIsLost` (`NeverLost`) rests on three facts named in the invariant: what is
in hand lies in `cur/` under that name, nothing else readable lies there while the core is up, and a
file in hand is removed only when its turn was closed or a copy waits. `HandIsAll` is
`NothingStranded`; `TypeCorrect` includes that every computed time of an alarm is one.
`AlarmsReachTheInbox` (`AlarmsArrive`): every ring that is owed is somewhere (`Somewhere`), and nowhere else
besides, because an id names one alarm for good and a ring once pushed is behind its alarm (`Unrung`);
only while the core pushes them one by one are some in neither file, and only those die with it.
`NothingRingsTwice` (`BacklogIsSkipped`) is arithmetic: the next time of a repeat, by interval or by
time of day, is after now and in phase. `PatienceHasAnEnd` (`PatienceSurvives`) counts chances, the pairs of
a readable file and a try it has left: what was tried and the chances that remain come to at most
`MaxAttempts` for each life of the core. A retry takes one chance from its copy, and the uncounted
file gives nothing as long as it is removed after; only a crash before that buys a round, and one
crash buys one, because there is at most one copy owed at a time (`CopyIsOwed`) and no two files have
the same name (`Apart`). `FewCopies` (`CopiesBounded`): outside a handler a signal is in at most one
file more than the core has died. A person's message is put in the inbox when it arrives and in `Copy`, an
alarm's ring only once, because what rings next is a number the alarm has not come to (`Unrung`); the
file the copy replaces is the only one too many until `Ack` removes it.

**`Wire_proofs`.** `PartsComeFirst` (`PartsThenAnswer`): whoever asks waits for the answer before
asking again, so of each turn the core has one request at most, written, under way in one task or on
its way back (`Exchange`); a task ends with the step that puts the answer in the queue, and everything
of it that went before is in front. `ToldInOrder` (`AsTheyHappened`): what the hub has not taken, what it has handed to
the tasks that watch, and what is in their queues and the frames is in the order it was done, for each
turn (`News`); dropping keeps an order. For any number of turns, windows, pieces and depths of queues.

**`View_proofs`.** `WhatIsOnTheWay` is the inductive invariant the other two rest on: types, that
no id or stamp on the way is one not given out yet, and what a connection that is down can still carry. `TheJournalIsShownInOrder`
(`HistoryIsARun`): a page is taken only under the id that is awaited, only one is awaited, and it ends
where the oldest record held begins (`Asked`, `OnItsWay`); everything else the window does puts a bubble
at the bottom, drops one, or rewrites one that is not of the journal, and each keeps the run on top.
`TheAnswerThatEndsIsItsOwn` (`EndCorrectsItsOwn`): between an answer and the end that corrects it no
other turn begins, neither among the bubbles nor among the events still on their way nor across the two
(`InLine`, `Awaits`), so the last answer the end finds is its turn's. For any conversation, any number of
bubbles kept and any length of page. Both are implications, as in the runs: the lapses in their
hypotheses are things the code does, recorded by the model the moment they happen.

**`HomeAndLook_proofs`.** `ShownIsItsOwn`: an id is used once on a connection and what was pending is
forgotten with it, so the answer under the id that is waited for is about the run that was noted
with that id, wherever the pointer has gone since.

In the same module, of `Home`: `SparedAndKept` and `UpIsWhole`: while no two cores are there at once, nobody
comes between a start's look and its copy, for only a core that is up has a mind; and each stage
of a start leaves something true (`Stands`) that only the mind can undo, and the mind acts in its own
name. For any skeleton, any number of cores, starts, crashes and failed copies.

**`Learning_proofs`.** `MeasuredIsMerged`: learning is one priority, and among equals the first asked
is done first, so when the brain comes to a pass's request all that earlier passes left behind is
over, and only words come between its measurement and its merge. For any day, limits, and number of
passes, generations and mishaps. `NoTurnIsForgotten` (`NothingForgotten`): among the turns that can
be felt, those felt are the oldest (`FeltInOrder`), so that nothing older than the mark is felt later and missed;
a harvest holds every row past the mark until it is written (`WritesAll`), and moves the mark only
then, past what it began with (`Ahead`). Stopped at any step, the next pass begins again from the mark.

**`Text_proofs`.** What is read, said and typed is computed by folds over sequences, for which an
induction theorem of the library would be needed that the provers cannot instantiate. Two ideas
replace it. That one comes to every number by counting up is shown for *sets* of numbers
(`CountingUp`, from the well-foundedness of `<`), and every induction names its set. And a fold of a
step given as a function goes through a path of values, one for each place (`ClimbExists`, `PathOf`),
along which an invariant of the loop can be carried like one of a machine.

* *A generation (`Parse`).* `NothingInsideIsShown` (`NothingInside`): what is shown comes from outside
  of every block (`Spares`), and while lifting, a call is open exactly if the last tag was its opening
  (`InsideAt`). `CutOffRunsNothingElse` (`CutOffRunsNoOther`): a piece more leaves what was said, or adds
  that piece (`SaidGrows`), and lifting goes on from where it was, so the calls between tags only grow
  (`CallsGrow`); what is cut short is a word, which is no call; and without a call between tags there is
  one to run only if all that is left is that call (`Bare`).
* *The line (`Line`).* `LineIsSound`: the cursor stays in the line and the place in the history,
  whatever is typed and comes. On it rest `ThePlaceHolds` (`PlaceHolds`, for any page and any line),
  `TheDraftReturns` (`DraftReturns`), and `TheRowsKeepTheLine` (`RowsKeepTheLine`): what has been placed after
  each character is rows that follow each other, fit, and break where they may (`Laid`), and the row a
  word begins on holds all of it if any row would (`WordHeld`); and of however many rows are shown, those
  around the cursor have it among them (`RowIsShown`).
* *The conversation (`Journal`).* `LogSound` is inductive: the names of files are in the order they were
  written and the newest is the one appended to (`Tidy`), so that what is read file by file grows at
  its end only, and its lines are stamped one after another and turn after turn (`InOrder`). Rotation,
  midnight and resuming each keep it. `ARunIsShownWhole` (`OfTurnIsWhole`) follows: a turn's lines are one
  stretch, which the search backwards finds to its first line or its limit.
* *The window (`Mind`).* Pairing is a loop whose invariant is that pairs are questions and the first
  answer after each, and that what is held is a question nothing was answered to (`Alternate`, `Holds`);
  cutting it to its last pairs keeps that. `HandedWhole` then follows a process and the window it was
  given: what is written later is later, so it breaks no pair. `ExchangesStayWhole`
  (`ExchangesAreWhole`) and `NobodyIsAskedTwice` (`AskedOnce`) are its consequences, for any number of signals,
  attempts, deaths and restarts, and any length of window and of file.

**Only model-checked:** liveness (`EveryoneIsAnswered`, `EveryThoughtSettles`, `EveryCallEnds`,
`LoadingEnds`, `DayIsPractised`; fairness and ENABLED are out of the prover's reach);
`PagesAreAwaited` of `View` and `PickedIsOnScreen` of `MCLook`, which no run names; and of course `MergedStays` and the definitions of the next section, which do
not hold.

## Where the code and its word disagree

`MCLearningMerge` is a run of its own: a night's merge removes the old base (or moves it aside) and
then renames the new one into its place (`neuro/brain/model.py:389-395`). A container that goes
between the two comes back, finds no base and starts from the pretrained model (`74-95`), removing the
overlay too; everything every night merged is gone.

`findings` in `PROJECT.json` quotes the lines.

The following definitions are kept in the modules although the code does not have them; naming one
in a configuration of its component shows how it fails. Each states what a comment or document says.

| module, definition | statement | what happens |
|---|---|---|
| `Turns`, `RecordedOnce` | what came in is written "here, once" (`core/hub.rs:732`) | a crash counts no attempt, so the retry writes it again |
| `Turns`, `HeldByItsOwn` | "a stray process cannot steal a turn already in progress" (`core/hub.rs:761`) | a process left over from an interrupted turn claims the next one before its own does |
| `Thoughts`, `ToldOnce` | a finish gives "one signal to the main thread" (`docs/mind.html:31`) | the process that calls finish also closes its step, and both report |
| `Thoughts`, `FinalIsFinal` | "A finished thought is never restarted" (`core/store/thoughts.rs:36`) | the report of failed processes sets a finished or killed thought to paused |
| `Thoughts`, `OneProcess` | "it is still one process per thought" (`core/hub.rs:655`) | pausing forgets the pid of a process that goes on; after a resume a second works beside it |
| `Thoughts`, `NoneUntold` | each thought "reaches back once, with the summary" (`core/store/thoughts.rs:4`) | a crash after the record is saved and before the report is pushed: done, never told |
| `Thoughts`, `AtMostMax` | "At most max_thoughts run at once" (`docs/mind.html:36`) | resuming does not count |
| `View`, `SaidIsItsOwn` | the end of a turn corrects what that turn said | the lapses called `astray` above |
| `Line`, `TypingIsVisible` | "a long message is visible as it is written" (`ui/draw.rs:55`) | the line is wrapped to the window's width less 2 (`57-61`) and its rows are drawn in the width less 5 (`653-660`): up to three characters at the end of a full row are not seen |
| `Line`, `CursorIsWhereItLands` | "The cursor sits where the next character would go" (`ui/draw.rs:675`) | it is put two columns into the box, where text begins three in, and held back further near the end of a row |
| `Mind`, `AloneWhenBare` | a call without tags is run only when "the whole message is the call and nothing else" (`harness/parse.rs:37`) | what stood between tags and could not be read, or was cut off after them, is taken out before anybody looks |
| `Home`, `SparedFromRivals` | "never over a page the mind has rewritten" (`core/home.rs:100`) | with another core up, its mind may make the page between a start's look and its copy |
| `Mind`, `NewestTraceStays` | "Keep the most recent runs and forget the rest" (`core/store/trace.rs:70`) | `prune` goes by name (`core/store/trace.rs:63`), and a thought's name is random |
| `Home`, `NothingHalfWritten` | "nothing is written in place" (`core/paths.rs`) | the skeleton is copied in place and a cut-short file is never given again; if it is the settings, no start gets past them |
| `Home`, `Reachable` | a socket is removed "if it is stale" | `listen` removes a living core's socket, and a core that stops removes whatever socket is there |
| `Home`, `LooksInTime` | a person is heard as the owner | a command that looks for the body just before it is up goes to the socket and arrives with the mind's authority (`cli/sandbox.rs:13-17`) |
| `Learning`, `SampleIsItsOwn` | an exchange is "matched by the turn's own stamp" (`neuro/memory/day.py`) | a retry's answer stands under the first attempt, and the nearest in time may be the next exchange |
| `Learning`, `NothingTwice` | nothing merged is practised over | a crash in a merge leaves the old overlay over the new base |
| `Learning`, `RestartKeepsPractice` | what was consumed is in the weights | the cursor is moved before the overlay is saved |

Seen while reading and modelling, with no definition of their own:

* *Turns and thoughts.* `finish` does not move the epoch, although `proto/turn.rs:19` says it moves
  whenever a turn ends (harmless: late writes are refused by the turn's id, `NoLateLines`). A thought
  paused during its last step and then resumed is running with no step left and never moves again
  (`EveryThoughtSettles` leaves it out by name). A thought process begun before a learning pass goes
  on through it, although `brainstem.rs:225` says nothing runs during a pass. An alarm whose ring was
  not yet pushed is lost with the core (`hub.rs:689`); `cancel` takes any prefix.
* *Mind.* A retried message's line carries the failed first attempt's turn, so a retried exchange
  never enters a later window, and its answer can be paired with the question of a turn that ended
  without a word (`ExchangesAreWhole` speaks of the rest). An answer cut off inside its reasoning ends
  the turn as completed with no text. A second block of reasoning, and a call written as bare JSON,
  are shown. "Ran out of room" is announced and not recorded. A command that leaves something running
  with its output open is reported as still running.
* *Wire.* A generation goes on when the process that asked is gone, and its "generation failed" may
  come after the turn's end. An answer that finds the queue to its peer full is dropped, and the
  harness waits without a limit of its own until the turn's. After a malformed line a watching
  connection stays half open. `brain.rs` decodes each read of the network by itself, so a character
  cut between two reads is replaced, in the final text too.
* *Interface.* History is asked for only if there are no bubbles; an older page moves the scroll by
  what was added while the draw counts lines; a reconnect may show an event twice, for it watches
  before it recalls; there is one slot for an echo. The "failed" filter lists a turn that is still
  running; a thought heard of only by an event sorts last; the pointer keeps its number when the list
  shifts and points past the end of one that shrank.
* *Home.* A shipped thing the mind deletes comes back at the next start; two first starts race for
  the certificate; a torn `groow.json` stops every later start; a temporary name is unique per process
  only; a core a person started gives the mind the person's role.
* *Learning.* A nap's practice is not measured by the night that merges it, but is merged or dropped
  with it. `feel.py:12-14` says the last turn waits for the next; the code scores it at once without
  what follows. `trainingset.pending` goes by set name where it says oldest first. `README.md:77` says
  a night tells the brain to reload; nothing calls `/reload`.

## What is not modelled

* Text: what is said, recorded, announced, beyond the pieces of `Parse` and the characters of `Line`;
  options and their spelling; how a frame is encoded; layout other than the input box and the rows
  of the list of runs.
* Errors of file operations other than the crash, the unreadable and unparsable files of `Post` and
  the failed copies of `Home`: full disks, an error of `next_duty` (which ends the scheduler's loop),
  a failing `chown` or lock (warned about, and the start goes on).
* The reuse of process ids by the operating system; `stop_process`, which kills by pid twice, three
  seconds apart.
* What a network computes: scores, losses, steps of training. What a turn is worth, and which way a
  measurement goes, is any of the outcomes.
* Passes run by hand, which could overlap with one the core runs (and would break
  `ComparedIsMerged`'s argument); writes of the learner's small files are one step each, where the code
  truncates and writes (`neuro/hippocampus.py:85`, `neuro/learning/trainingset.py:68`); a job that fails inside
  `consolidate`, after the overlay was merged in memory (`neuro/brain/model.py:381-397`); an alarm turned off, which nothing
  but an edited file does; `/reload`,
  which nothing calls; shrinking a prompt that does not fit; `brain.json`'s counts.
* A root core on the machine itself or without an account for the mind; the search for the skeleton;
  the choice of Python and hardware; what a start by a person finds it cannot write after a start by
  root was cut short between hand-over and lock is `Refused`.
* What a tool does to the world; the mind's own prompt script; stdout of children, which nobody
  reads; talk's "quit", by which the hub ends (in `Turns` it is `Quit`).
* Generated code, documentation, containers, the starting skeleton.

## Plan

Done, in this order: `Brainstem`, `Turns`, `Mailbox`, `Thoughts`, `Schedule`, `Post` with their
proofs; `Journal`, `Parse`, `Mind`; `Wire`; `View`, `Look`, `Line`; `Home`; `Learning`; then the
refinement and the ledger of `Turns_proofs`, the proofs of `Look`, `Home` and `Learning`, the alarms and
the patience of `Post`, its copies, who may abandon a turn, the proofs of `Wire` and of `View`, and those of `Parse`, `Line`, `Journal` and `Mind`.

Worth doing next:

1. Failing file operations, so that an error of `next_duty` and a pass that cannot be started
   (`core/server.rs:114`) meet a property.
2. `View` and `Look` in one window, and two windows on one core.
3. Passes run by hand beside the core's own.

## Running it

`tlc -config MCTurns.cfg MCTurns` and likewise for the rest (each run's module and configuration
are in `PROJECT.json`; the longest takes about two minutes with two workers);
`tlapm Turns_proofs.tla` and likewise for the other modules of theorems.
