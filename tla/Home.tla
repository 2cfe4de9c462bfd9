-------------------------------- MODULE Home --------------------------------
(***************************************************************************)
(* Waking up: what `groow start` does to the files of a creature, one step *)
(* after another, before anything else runs (cli/src/start.rs, core:       *)
(* paths.rs, home.rs, birth.rs, identity.rs, spawn.rs, server.rs listen).  *)
(* The core may die, or a copy may fail, between any two steps; the mind   *)
(* does what it likes with its home while a core is up; and nothing stops  *)
(* a second core from being started on the same home.                      *)
(*                                                                         *)
(* It is started as root, in the sandbox, or by a person; the mind runs    *)
(* under the person's account either way, for in the sandbox that is the   *)
(* account the host's user id belongs to (sandbox.rs:13-15).  The person   *)
(* made the directory that everything lies in.                             *)
(***************************************************************************)
EXTENDS Naturals, Sequences, FiniteSets, SequencesExt

CONSTANTS Cores,      \* the processes that may be started as a core
          Skills,     \* the shipped skills, in the order they are copied
          Pages,      \* the pages of the shipped manual
          Files,      \* the files at the top of the skeleton; the settings are one
          Settings,   \* groow.json
          NoCore,
          MaxStarts, MaxActs    \* bounds: starts, and what the mind does to its home

ASSUME HomeAssumption ==
    /\ Skills \in Seq(STRING) /\ Pages \in Seq(STRING) /\ Files \in Seq(STRING)
    /\ Settings \in ToSet(Files) /\ NoCore \notin Cores

(***************************************************************************)
(* What a home is given, in order: each skill's directory and then its     *)
(* command in bin, the manual, the files at the top.                       *)
(***************************************************************************)
Skill(s) == <<"skills", s>>
Command(s) == <<"bin", s>>
Plan == FlattenSeq([i \in DOMAIN Skills |-> <<Skill(Skills[i]), Command(Skills[i])>>])
        \o [i \in DOMAIN Pages |-> <<"recipes", Pages[i]>>]
        \o [i \in DOMAIN Files |-> <<"top", Files[i]>>]
Things == ToSet(Plan)
Conf == <<"top", Settings>>

VARIABLES home,       \* what is at each place: "absent", "part" of a copy, "shipped", or "mine", the mind's
          owner,      \* the account each of them belongs to, "nobody" when it is absent
          dirs,       \* the account the home's own directories belong to, "nobody" before there are any
          state,      \* the account the state belongs to, "nobody" before there is any
          boxes,      \* the directories a message may wait in: "mailbox" is the old name of "inbox"
          birth,      \* the number on the birth certificate, 0 for none
          identity,   \* the self-description: "none", "seed" or "own"
          core,       \* each core: where it is in its start, what it copies, the certificate it holds
          socket,     \* the core the socket file leads to, NoCore when there is no file
          rivals,     \* since the last time none was there, a core was started beside another
          starts, acts
vars == <<home, owner, dirs, state, boxes, birth, identity, core, socket, rivals, starts, acts>>

Off == [pc |-> "off", as |-> "nobody", at |-> 0, knows |-> 0]
Step(c, pc) == core' = [core EXCEPT ![c].pc = pc]
Up == {c \in Cores : core[c].pc = "up"}
Places == UNCHANGED <<home, owner, dirs>>
Rest == UNCHANGED <<state, boxes, birth, identity, socket, rivals, starts, acts>>

\* Root writes anywhere.
MayWrite(account, whose) == account = "root" \/ whose \in {"nobody", account}
\* The account the mind runs under, whoever started the core.
Mind == "person"
\* Where a thing lies, and whether an account may put something there, or over what is there.
DirOf(t) == IF t[1] = "top" THEN "person" ELSE dirs
MayPut(account, t) == MayWrite(account, IF home[t] = "absent" THEN DirOf(t) ELSE owner[t])

-----------------------------------------------------------------------------
(* The start.                                                              *)

\* Settings that were cut short do not parse, and the start ends there; so it does when the
\* state's directories cannot be made.
Start(c, account) ==
    /\ core[c].pc = "off" /\ starts < MaxStarts
    /\ home[Conf] # "part"
    /\ "inbox" \notin boxes => MayWrite(account, state)
    /\ starts' = starts + 1
    /\ rivals' = (\E d \in Cores : core[d].pc # "off")
    /\ boxes' = IF "inbox" \in boxes THEN boxes ELSE {"inbox"}     \* take_the_old_name: renamed, or made
    /\ state' = IF state = "nobody" THEN account ELSE state
    /\ core' = [core EXCEPT ![c] = [@ EXCEPT !.pc = "read", !.as = account]]
    /\ Places /\ UNCHANGED <<birth, identity, socket, acts>>

CanWeWrite(c) == MayWrite(core[c].as, state)
\* A state that root has taken is refused, whether for want of a certificate or when it is tried.
Refused(c) ==
    /\ core[c].pc \in {"read", "be born"} /\ ~CanWeWrite(c)
    /\ core' = [core EXCEPT ![c] = Off]
    /\ Places /\ Rest

\* The certificate is read, and written only when there is none; the next start's number is new.
\* The home's directories are made as soon as the state is known to be writable.
ReadBirth(c) ==
    /\ core[c].pc = "read" /\ CanWeWrite(c)
    /\ core' = [core EXCEPT ![c] = IF birth = 0 THEN [@ EXCEPT !.pc = "be born"]
                                   ELSE [@ EXCEPT !.pc = "prepare", !.knows = birth, !.at = 1]]
    /\ dirs' = IF birth # 0 /\ dirs = "nobody" THEN core[c].as ELSE dirs
    /\ UNCHANGED <<home, owner>> /\ Rest
BeBorn(c) ==
    /\ core[c].pc = "be born" /\ CanWeWrite(c)
    /\ birth' = starts
    /\ core' = [core EXCEPT ![c] = [@ EXCEPT !.pc = "prepare", !.knows = starts, !.at = 1]]
    /\ dirs' = IF dirs = "nobody" THEN core[c].as ELSE dirs
    /\ UNCHANGED <<home, owner, state, boxes, identity, socket, rivals, starts, acts>>

(***************************************************************************)
(* Each thing of the skeleton is copied where there is nothing; a skill    *)
(* that is there keeps its command from being looked at.                   *)
(***************************************************************************)
IsCommand(i) == Plan[i][1] = "bin"
SkipTo(i) == IF i < Len(Plan) /\ Plan[i][1] = "skills" /\ home[Plan[i]] # "absent" THEN i + 2 ELSE i + 1
Preparing(c) == core[c].pc = "prepare" /\ core[c].at \in DOMAIN Plan
This(c) == Plan[core[c].at]
\* The mistake of putting a skill's command in bin over whatever has that name.
OccupiedSlip(i) == ~IsCommand(i) /\ home[Plan[i]] # "absent"
Occupied(i) == home[Plan[i]] # "absent"

Leave(c) ==     \* what is there is left alone
    /\ Preparing(c) /\ Occupied(core[c].at)
    /\ core' = [core EXCEPT ![c].at = SkipTo(@)]
    /\ Places /\ Rest
\* It looks first and copies then; what has come there in between is written over.
FindNothing(c) ==
    /\ Preparing(c) /\ ~Occupied(core[c].at)
    /\ Step(c, "found nothing")
    /\ Places /\ Rest
BeginCopy(c) ==
    /\ core[c].pc = "found nothing" /\ MayPut(core[c].as, This(c))
    /\ home' = [home EXCEPT ![This(c)] = "part"]
    /\ owner' = [owner EXCEPT ![This(c)] = IF home[This(c)] = "absent" THEN core[c].as ELSE @]
    /\ Step(c, "copying")
    /\ UNCHANGED dirs /\ Rest
\* What a copy comes to.  What the mind wrote meanwhile is written over or stays, what another
\* core writes too may be cut short by it, and a tree whose root is gone is made again in part.
CopiesToo(c, t) == \E d \in Cores \ {c} : core[d].pc = "copying" /\ This(d) = t
Outcomes(c, t) ==
    CASE home[t] = "part"   -> {"shipped"} \union (IF CopiesToo(c, t) THEN {"part"} ELSE {})
      [] home[t] = "absent" -> {"absent"} \union (IF t[1] = "skills" THEN {"part"} ELSE {})
      [] OTHER              -> {home[t], "shipped"}
EndCopy(c) ==
    /\ core[c].pc = "copying"
    /\ \E there \in Outcomes(c, This(c)) :
          /\ home' = [home EXCEPT ![This(c)] = there]
          /\ owner' = [owner EXCEPT ![This(c)] = IF home[This(c)] = "absent" /\ there = "part" THEN core[c].as ELSE @]
    /\ core' = [core EXCEPT ![c] = [@ EXCEPT !.pc = "prepare", !.at = core[c].at + 1]]
    /\ UNCHANGED dirs /\ Rest
\* A copy that fails, or may not be made, ends the preparing with a warning, and the start goes on.
CopyFails(c) ==
    /\ core[c].pc \in {"found nothing", "copying"}
    /\ Step(c, "hand over")
    /\ Places /\ Rest
Prepared(c) ==
    /\ core[c].pc = "prepare" /\ core[c].at \notin DOMAIN Plan
    /\ Step(c, "hand over")
    /\ Places /\ Rest

\* What root made here is given away before the mind is run, and what is the mind's stays so.
HandOver(c) ==
    /\ core[c].pc = "hand over"
    /\ IF core[c].as # "root" THEN UNCHANGED <<dirs, owner>>
       ELSE dirs' = Mind /\ owner' = [t \in Things |-> IF home[t] = "absent" THEN "nobody" ELSE Mind]
    /\ Step(c, "lock")
    /\ UNCHANGED home /\ Rest

\* The state is taken for root, all of it, so that the mind cannot write its own history.
LockState(c) ==
    /\ core[c].pc = "lock"
    /\ state' = IF core[c].as = "root" THEN "root" ELSE state
    /\ Step(c, "listen")
    /\ Places /\ UNCHANGED <<boxes, birth, identity, socket, rivals, starts, acts>>

\* The mistake of taking the socket that is there for one's own.
ListenSlip(c) ==
    /\ core[c].pc = "listen"
    /\ socket' = IF socket = NoCore THEN c ELSE socket
    /\ Step(c, "up")
    /\ Places /\ UNCHANGED <<state, boxes, birth, identity, rivals, starts, acts>>
\* Whatever is at the place of the socket is removed, and the socket made anew.
Listen(c) ==
    /\ core[c].pc = "listen"
    /\ socket' = c
    /\ Step(c, "up")
    /\ Places /\ UNCHANGED <<state, boxes, birth, identity, rivals, starts, acts>>

-----------------------------------------------------------------------------
(* Being awake, and the end of it.                                         *)

\* Every turn's prompt has the self-description in it, which is seeded when there is none.
Claim(c) ==
    /\ c \in Up
    /\ identity' = IF identity = "none" THEN "seed" ELSE identity
    /\ Places /\ UNCHANGED <<state, boxes, birth, core, socket, rivals, starts, acts>>

\* A stop is noticed a moment after the hub is gone, and the socket's file goes last.
Stop(c) ==
    /\ c \in Up
    /\ Step(c, "stopping")
    /\ Places /\ Rest
Stopped(c) ==
    /\ core[c].pc = "stopping"
    /\ core' = [core EXCEPT ![c] = Off]
    /\ socket' = NoCore
    /\ Places /\ UNCHANGED <<state, boxes, birth, identity, rivals, starts, acts>>

Crash(c) ==
    /\ core[c].pc # "off"
    /\ core' = [core EXCEPT ![c] = Off]
    /\ Places /\ Rest

\* The mind rewrites what is its own, removes what it likes from directories that are its own,
\* and puts things of its own there where there was nothing.
Act ==
    /\ acts < MaxActs /\ acts' = acts + 1
    /\ Up # {}
    /\ \E t \in Things :
        \/ /\ IF home[t] = "absent" THEN DirOf(t) = Mind ELSE owner[t] = Mind
           /\ home' = [home EXCEPT ![t] = "mine"] /\ owner' = [owner EXCEPT ![t] = Mind]
        \/ /\ home[t] # "absent" /\ DirOf(t) = Mind
           /\ home' = [home EXCEPT ![t] = "absent"] /\ owner' = [owner EXCEPT ![t] = "nobody"]
    /\ UNCHANGED <<dirs, state, boxes, birth, identity, core, socket, rivals, starts>>

\* The mentor writes another self-description, or wipes it.
Describe ==
    /\ identity # "none" /\ acts < MaxActs /\ acts' = acts + 1
    /\ identity' \in {"none", "own"}
    /\ Places /\ UNCHANGED <<state, boxes, birth, core, socket, rivals, starts>>

-----------------------------------------------------------------------------
(* The command line: a person types a command on the machine the sandbox   *)
(* runs on, or the mind runs one in a turn.                                *)

Verbs == {"start", "stop", "status", "ui", "say", "recall", "remind", "schedule", "thoughts",
          "thought", "doctor", "run-turn", "run-thought"}
MentorOnly == {"start", "stop", "ui"}
\* The body is there as soon as a core is being started in it, and while it stops.
BodyRuns == \E c \in Cores : core[c].as = "root"

\* Which way a command goes: nowhere, nowhere but here, through the body as its owner, or to the
\* socket.  The body is only looked for near the project, which is where its compose file is.
Way(who, near, verb) ==
    IF who = "mind" /\ verb \in MentorOnly THEN "refused"
    ELSE IF verb \in {"start", "doctor", "run-turn", "run-thought"} THEN "here"
    ELSE IF who = "person" /\ near /\ BodyRuns THEN "inside" ELSE "socket"

\* A person's own account is the mind's.
ArrivesAs(who, way) == IF way = "inside" THEN "root" ELSE IF who = "mind" THEN Mind ELSE "person"
RoleAt(c, account) == IF account \in {"root", core[c].as} THEN "mentor" ELSE "agent"
HeardAs(c, who, near, verb) == RoleAt(c, ArrivesAs(who, Way(who, near, verb)))

-----------------------------------------------------------------------------
Init ==
    /\ home = [t \in Things |-> "absent"] /\ owner = [t \in Things |-> "nobody"] /\ dirs = "nobody"
    /\ \/ boxes = {} /\ state = "nobody"
       \/ boxes = {"mailbox"} /\ state \in {"root", "person"}
    /\ birth = 0 /\ identity = "none"
    /\ core = [c \in Cores |-> Off] /\ socket = NoCore
    /\ rivals = FALSE /\ starts = 0 /\ acts = 0

Life(c) == Claim(c) \/ Stop(c) \/ Stopped(c) \/ Crash(c)
Waking(c) == \/ (\E account \in {"root", "person"} : Start(c, account)) \/ Refused(c) \/ ReadBirth(c)
             \/ BeBorn(c) \/ Leave(c) \/ FindNothing(c) \/ BeginCopy(c) \/ EndCopy(c) \/ CopyFails(c) \/ Prepared(c)
             \/ HandOver(c) \/ LockState(c) \/ Listen(c)
Next == (\E c \in Cores : Waking(c) \/ Life(c)) \/ Act \/ Describe
Spec == Init /\ [][Next]_vars

-----------------------------------------------------------------------------
(* What must hold.                                                         *)

\* Unless another core is there, no start touches what the mind has made its own: not a page it
\* rewrote, not a command of its own that has the name of a shipped one, also when the skill that
\* goes with it is gone and is given again (home.rs: "without touching anything it has changed").
SparesTheMinds == ~rivals' /\ (\E c \in Cores : Waking(c) \/ Life(c)) =>
    \A t \in Things : home[t] = "mine" => home'[t] = "mine"

\* What is on the certificate is never written again, unless two cores are born at once.
KeepsTheBirth == birth # 0 /\ ~rivals' => birth' = birth

\* However often it is started, and wherever a start was cut short, neither the mind's own things
\* nor its certificate are redone (home.rs seed, birth.rs load_or_create).
StartsRewriteNothing == [][SparesTheMinds /\ KeepsTheBirth]_vars

(***************************************************************************)
(* While no two cores are there at once, a core that is up is the one the  *)
(* socket leads to, holds the certificate that is on disk and can write    *)
(* its state, whoever ran before it; a person near the project, or near    *)
(* none if the core is not in its body, is heard as its owner ("not you",  *)
(* sandbox.rs, for what happens otherwise); and one that is root has given *)
(* away the home in all its parts, kept the state from the mind ("Those    *)
(* two together are the whole boundary", start.rs) and hears the mind as   *)
(* the mind; through crashes, failed copies, and starts by others in       *)
(* between.                                                                *)
(***************************************************************************)
AwakeAndWhole == ~rivals => \A c \in Up :
    /\ socket = c
    /\ core[c].knows = birth
    /\ MayWrite(core[c].as, state)
    /\ \A verb \in Verbs, near \in BOOLEAN :
          (near \/ core[c].as = "person") /\ Way("person", near, verb) # "here" =>
              HeardAs(c, "person", near, verb) = "mentor"
    /\ core[c].as = "root" =>
          /\ state = "root" /\ dirs = Mind
          /\ \A t \in Things : home[t] # "absent" => owner[t] = Mind
          /\ \A verb \in Verbs, near \in BOOLEAN :
                Way("mind", near, verb) = "socket" => HeardAs(c, "mind", near, verb) = "agent"

-----------------------------------------------------------------------------
(* What does not hold; naming one of these in a configuration shows why.   *)

(***************************************************************************)
(* At rest nothing is half written (paths.rs: "a reader must never see a   *)
(* half-written file. So nothing is written in place").  The skeleton is   *)
(* copied in place: what a crash or a full disk cuts short is there, and   *)
(* is never given again; if it is the settings, no start gets past them.   *)
(***************************************************************************)
NothingHalfWritten == (\A c \in Cores : core[c].pc \in {"off", "up"}) => \A t \in Things : home[t] # "part"

(***************************************************************************)
(* A start spares what the mind has made its own also when another core is *)
(* up in the meantime (home.rs: "never over a page the mind has            *)
(* rewritten").  Between looking and copying it does not look again.       *)
(***************************************************************************)
SparedFromRivals == [][(\E c \in Cores : Waking(c)) =>
    \A t \in Things : home[t] = "mine" => home'[t] = "mine"]_vars

(***************************************************************************)
(* A person's command is heard as the owner's wherever it is typed, and    *)
(* also when it has looked for the body just before the body was there: it *)
(* goes to the socket on the bind mount, and arrives with the mind's       *)
(* authority (sandbox.rs:13-17, 50).                                       *)
(***************************************************************************)
LooksInTime == \A c \in Up : RoleAt(c, ArrivesAs("person", "socket")) = "mentor"

(***************************************************************************)
(* Each core that is up can be reached.  A second start removes the socket *)
(* of a living core, for listen does not look whether it is stale, and a   *)
(* core that is stopping removes whatever socket is there.                 *)
(***************************************************************************)
Reachable == \A c \in Up : socket = c
=============================================================================
