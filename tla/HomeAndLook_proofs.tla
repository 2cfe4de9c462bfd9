-------------------------- MODULE HomeAndLook_proofs --------------------------
(***************************************************************************)
(* Two components whose proofs are short, one after the other, with        *)
(* nothing in common.                                                      *)
(*                                                                         *)
(* Home: starts spare what is there and a core that is up is whole, proved *)
(* for any skeleton, any number of starts, and cores cut short anywhere.   *)
(* The argument: while no two cores are there at once, each step of        *)
(* a start leaves something true that nobody but the mind can undo, and    *)
(* what the mind does it does in its own name.                             *)
(*                                                                         *)
(* Look: what is shown beside a run is its own, proved for any number of   *)
(* runs, keys and requests, and any order of the answers.  The argument:   *)
(* an id is used once on a connection, and what was pending on the last    *)
(* one is forgotten with it; so the answer with the id that is waited for  *)
(* is about the run that was noted with that id.                           *)
(***************************************************************************)
EXTENDS Home, Look, TLAPS, FiniteSetTheorems, SequenceTheorems

------------------------------------------------------------------------------
(* Home *)

Stages == {"off", "read", "be born", "prepare", "found nothing", "copying", "hand over", "lock", "listen", "up",
           "stopping"}
\* A core is in its start, or past it, in the name of root or of the person; or it is not there.
Process == {p \in [pc : Stages, as : {"nobody", "root", "person"}, at : Nat, knows : Nat] :
              p.pc = "off" <=> p.as = "nobody"}
CoresOK == core \in [Cores -> Process]
PlacesOK == home \in [Things -> {"absent", "part", "shipped", "mine"}]
            /\ DOMAIN owner = Things /\ owner = [t \in Things |-> owner[t]]
CountsOK == birth \in Nat /\ starts \in Nat /\ rivals \in BOOLEAN
TypeOK == CoresOK /\ PlacesOK /\ CountsOK

Alone == \A c, d \in Cores : core[c].pc # "off" /\ core[d].pc # "off" => c = d

\* What each stage of a start has left behind.
Named == {"prepare", "found nothing", "copying", "hand over", "lock", "listen", "up"}
GivenAway == dirs = Mind /\ \A t \in Things : home[t] # "absent" => owner[t] = Mind
Stands(c) ==
  /\ core[c].pc = "be born" => birth = 0
  /\ core[c].pc \in Named => core[c].knows = birth /\ MayWrite(core[c].as, state)
  /\ core[c].pc = "found nothing" => This(c) \in Things /\ home[This(c)] = "absent"
  /\ core[c].pc = "copying" => This(c) \in Things /\ home[This(c)] = "part"
  /\ core[c].pc \in {"lock", "listen", "up"} /\ core[c].as = "root" => GivenAway
  /\ core[c].pc \in {"listen", "up"} /\ core[c].as = "root" => state = "root"
  /\ core[c].pc = "up" => socket = c

Inv == TypeOK /\ (~rivals => Alone /\ \A c \in Cores : Stands(c))

\* Before the first start nobody is there.
LEMMA InvInit == Init => Inv
<1> SUFFICES ASSUME Init PROVE Inv  OBVIOUS
<1>1. Off \in Process  BY DEF Off, Process, Stages
<1>2. CoresOK  BY <1>1 DEF Init, CoresOK
<1>3. PlacesOK /\ CountsOK  BY DEF Init, PlacesOK, CountsOK
<1>4. \A c \in Cores : core[c].pc = "off"  BY DEF Init, Off
<1>5. Alone /\ \A c \in Cores : Stands(c)  BY <1>4 DEF Alone, Stands, Named
<1>6. QED  BY <1>2, <1>3, <1>5 DEF Inv, TypeOK

------------------------------------------------------------------------------
(* Where a core is, and in whose name *)

\* The stage a core goes on to.
LEMMA GoesOn ==
  ASSUME CoresOK, NEW c \in Cores, core[c].pc # "off", NEW pc \in Stages \ {"off"}, NEW at \in Nat, NEW knows \in Nat
  PROVE  /\ [core[c] EXCEPT !.pc = pc] \in Process
         /\ [core[c] EXCEPT !.at = at] \in Process
         /\ [core[c] EXCEPT !.pc = pc, !.at = at] \in Process
         /\ [core[c] EXCEPT !.pc = pc, !.knows = knows, !.at = at] \in Process
  BY DEF CoresOK, Process, Stages

LEMMA SkipsOn == ASSUME NEW i \in Nat PROVE SkipTo(i) \in Nat
  BY DEF SkipTo

\* One core steps, or goes, or none does.
LEMMA CoresStep == TypeOK /\ [Next]_vars => CoresOK'
<1> SUFFICES ASSUME TypeOK, [Next]_vars PROVE CoresOK'  OBVIOUS
<1>0. CoresOK /\ CountsOK /\ \A c \in Cores : core[c] \in Process /\ core[c].at \in Nat /\ core[c].pc \in Stages
  BY DEF TypeOK, CoresOK, Process
<1>1. ASSUME NEW c \in Cores, NEW p \in Process, core' = [core EXCEPT ![c] = p] PROVE CoresOK'
  BY <1>0, <1>1 DEF CoresOK
<1>2. Off \in Process  BY DEF Off, Process, Stages
<1>3. ASSUME NEW c \in Cores, NEW account \in {"root", "person"}, Start(c, account) PROVE CoresOK'
  <2>1. [core[c] EXCEPT !.pc = "read", !.as = account] \in Process  BY <1>0 DEF Process, Stages
  <2>2. QED  BY <1>1, <1>3, <2>1 DEF Start
<1>4. ASSUME NEW c \in Cores, Refused(c) \/ Stopped(c) \/ Crash(c) PROVE CoresOK'
  BY <1>1, <1>2, <1>4 DEF Refused, Stopped, Crash
<1>5. ASSUME NEW c \in Cores, ReadBirth(c) \/ BeBorn(c) PROVE CoresOK'
  <2>1. core[c].pc # "off" /\ birth \in Nat /\ starts \in Nat  BY <1>0, <1>5 DEF ReadBirth, BeBorn, CountsOK
  <2>2. /\ [core[c] EXCEPT !.pc = "be born"] \in Process
        /\ [core[c] EXCEPT !.pc = "prepare", !.knows = birth, !.at = 1] \in Process
        /\ [core[c] EXCEPT !.pc = "prepare", !.knows = starts, !.at = 1] \in Process
    BY <1>0, <2>1, GoesOn DEF Stages
  <2>3. \E p \in Process : core' = [core EXCEPT ![c] = p]
    <3>1. CASE BeBorn(c)  BY <2>2, <3>1 DEF BeBorn
    <3>2. CASE ReadBirth(c) /\ birth = 0  BY <2>2, <3>2 DEF ReadBirth
    <3>3. CASE ReadBirth(c) /\ birth # 0  BY <2>2, <3>3 DEF ReadBirth
    <3>4. QED  BY <1>5, <3>1, <3>2, <3>3
  <2>4. QED  BY <1>1, <2>3
<1>6. ASSUME NEW c \in Cores, Leave(c) \/ EndCopy(c) PROVE CoresOK'
  <2>1. core[c].pc # "off"  BY <1>6 DEF Leave, EndCopy, Preparing
  <2>2. SkipTo(core[c].at) \in Nat /\ core[c].at + 1 \in Nat  BY <1>0, SkipsOn
  <2>3. /\ [core[c] EXCEPT !.at = SkipTo(core[c].at)] \in Process
        /\ [core[c] EXCEPT !.pc = "prepare", !.at = core[c].at + 1] \in Process
    BY <1>0, <2>1, <2>2, GoesOn DEF Stages
  <2>4. \E p \in Process : core' = [core EXCEPT ![c] = p]
    BY <1>6, <2>3 DEF Leave, EndCopy
  <2>5. QED  BY <1>1, <2>4
<1>7. ASSUME NEW c \in Cores, core[c].pc # "off", NEW pc \in Stages \ {"off"}, Step(c, pc) PROVE CoresOK'
  <2>1. [core[c] EXCEPT !.pc = pc] \in Process  BY <1>0, <1>7, GoesOn
  <2>2. QED  BY <1>1, <1>7, <2>1 DEF Step
<1>8. ASSUME NEW c \in Cores,
             FindNothing(c) \/ BeginCopy(c) \/ CopyFails(c) \/ Prepared(c) \/ HandOver(c) \/ LockState(c)
                \/ Listen(c) \/ Stop(c)
      PROVE  CoresOK'
  <2>1. core[c].pc # "off"
    BY <1>8 DEF FindNothing, BeginCopy, CopyFails, Prepared, HandOver, LockState, Listen, Stop, Up, Preparing
  <2>2. \E pc \in Stages \ {"off"} : Step(c, pc)
    BY <1>8 DEF FindNothing, BeginCopy, CopyFails, Prepared, HandOver, LockState, Listen, Stop, Stages
  <2>3. QED  BY <1>7, <2>1, <2>2
<1>9. ASSUME UNCHANGED core PROVE CoresOK'  BY <1>0, <1>9 DEF CoresOK
<1>10. ASSUME Act \/ Describe \/ UNCHANGED vars \/ \E c \in Cores : Claim(c) PROVE CoresOK'
  BY <1>9, <1>10 DEF Act, Describe, Claim, vars
<1>11. QED  BY <1>3, <1>4, <1>5, <1>6, <1>8, <1>10 DEF Next, Waking, Life

\* Nothing at a place but what a place may have.
LEMMA PlacesStep == TypeOK /\ [Next]_vars => PlacesOK'
<1> SUFFICES ASSUME TypeOK, [Next]_vars PROVE PlacesOK'  OBVIOUS
<1>0. PlacesOK  BY DEF TypeOK
<1>1. ASSUME UNCHANGED <<home, owner>> PROVE PlacesOK'  BY <1>0, <1>1 DEF PlacesOK
<1>2. ASSUME NEW c \in Cores, \/ \E account \in {"root", "person"} : Start(c, account)
                              \/ Refused(c) \/ ReadBirth(c) \/ BeBorn(c) \/ Leave(c) \/ FindNothing(c)
                              \/ CopyFails(c) \/ Prepared(c) \/ LockState(c) \/ Listen(c) \/ Life(c)
      PROVE  PlacesOK'
  BY <1>1, <1>2 DEF Start, Refused, ReadBirth, BeBorn, Leave, FindNothing, CopyFails, Prepared, LockState, Listen, Life,
     Claim, Stop, Stopped, Crash, Places
<1>3. ASSUME NEW c \in Cores, BeginCopy(c) \/ EndCopy(c) PROVE PlacesOK'
  <2>1. CASE BeginCopy(c)  BY <1>0, <2>1 DEF BeginCopy, PlacesOK
  <2>2. CASE EndCopy(c)
    <3>1. PICK there \in Outcomes(c, This(c)) :
             /\ home' = [home EXCEPT ![This(c)] = there]
             /\ owner' = [owner EXCEPT ![This(c)] =
                             IF home[This(c)] = "absent" /\ there = "part" THEN core[c].as ELSE @]
      BY <2>2 DEF EndCopy
    <3>2. This(c) \in Things => there \in {"absent", "part", "shipped", "mine"}
      BY <1>0 DEF Outcomes, PlacesOK
    <3>3. QED  BY <1>0, <3>1, <3>2 DEF PlacesOK
  <2>3. QED  BY <1>3, <2>1, <2>2
<1>4. ASSUME NEW c \in Cores, HandOver(c) PROVE PlacesOK'
  BY <1>0, <1>4 DEF HandOver, PlacesOK
<1>5. ASSUME Act PROVE PlacesOK'  BY <1>0, <1>5 DEF Act, PlacesOK
<1>6. ASSUME Describe \/ UNCHANGED vars PROVE PlacesOK'  BY <1>1, <1>6 DEF Describe, Places, vars
<1>7. QED  BY <1>2, <1>3, <1>4, <1>5, <1>6 DEF Next, Waking

\* Numbers stay numbers, and who has met has met until a core is started alone.
LEMMA CountsStep == TypeOK /\ [Next]_vars =>
    CountsOK' /\ (rivals' = rivals \/ \E c \in Cores, account \in {"root", "person"} : Start(c, account))
<1> DEFINE Meets == rivals' = rivals \/ \E c \in Cores, account \in {"root", "person"} : Start(c, account)
<1> SUFFICES ASSUME TypeOK, [Next]_vars PROVE CountsOK' /\ Meets  OBVIOUS
<1>0. CountsOK  BY DEF TypeOK
<1>1. ASSUME UNCHANGED <<birth, starts, rivals>> PROVE CountsOK' /\ Meets  BY <1>0, <1>1 DEF CountsOK
<1>2. ASSUME NEW c \in Cores, \/ Refused(c) \/ ReadBirth(c) \/ Leave(c) \/ FindNothing(c) \/ CopyFails(c)
                              \/ Prepared(c) \/ BeginCopy(c) \/ EndCopy(c) \/ HandOver(c) \/ LockState(c)
                              \/ Listen(c) \/ Life(c)
      PROVE  CountsOK' /\ Meets
  BY <1>1, <1>2 DEF Refused, ReadBirth, Leave, FindNothing, CopyFails, Prepared, LockState, Listen, Life, BeginCopy,
     EndCopy, HandOver, Claim, Stop, Stopped, Crash, Rest
<1>3. ASSUME NEW c \in Cores, NEW account \in {"root", "person"}, Start(c, account) PROVE CountsOK' /\ Meets
  <2>1. starts' = starts + 1 /\ rivals' \in BOOLEAN /\ birth' = birth  BY <1>3 DEF Start
  <2>2. CountsOK'  BY <1>0, <2>1 DEF CountsOK
  <2>3. Meets  BY <1>3
  <2>4. QED  BY <2>2, <2>3
<1>4. ASSUME NEW c \in Cores, BeBorn(c) PROVE CountsOK' /\ Meets
  BY <1>0, <1>4 DEF BeBorn, CountsOK
<1>5. ASSUME Act \/ Describe \/ UNCHANGED vars PROVE CountsOK' /\ Meets
  BY <1>1, <1>5 DEF Act, Describe, vars
<1>6. ASSUME NEW c \in Cores, Waking(c) PROVE CountsOK' /\ Meets  BY <1>2, <1>3, <1>4, <1>6 DEF Waking
<1>7. QED  BY <1>2, <1>5, <1>6 DEF Next

------------------------------------------------------------------------------
(* What each stage has left behind, while no two cores have met *)

\* A step of the only core there is leaves only it to be looked at.
LEMMA OnlyOne ==
  ASSUME CoresOK, NEW c \in Cores, \A d \in Cores \ {c} : core[d].pc = "off",
         NEW p, core' = [core EXCEPT ![c] = p]
  PROVE  /\ core'[c] = p /\ Alone'
         /\ Stands(c)' => \A d \in Cores : Stands(d)'
<1>1. core'[c] = p /\ \A d \in Cores \ {c} : core'[d].pc = "off"  BY DEF CoresOK
<1>2. \A d \in Cores \ {c} : Stands(d)'  BY <1>1 DEF Stands, Named
<1>3. QED  BY <1>1, <1>2 DEF Alone

\* What stands of a core that is somewhere in its start.
LEMMA StandStep ==
  ASSUME Inv, [Next]_vars, ~rivals'
  PROVE  Alone' /\ \A c \in Cores : Stands(c)'
<1>a. /\ TypeOK /\ CoresOK /\ PlacesOK
      /\ \A c \in Cores : /\ core[c] \in [pc : Stages, as : {"nobody", "root", "person"}, at : Nat, knows : Nat]
                          /\ core[c].pc = "off" <=> core[c].as = "nobody"
  BY DEF Inv, TypeOK, CoresOK, Process
<1>b. ASSUME NEW c \in Cores, NEW account \in {"root", "person"}, Start(c, account)
      PROVE  Alone' /\ \A d \in Cores : Stands(d)'
  <2>1. \A d \in Cores : core[d].pc = "off"  BY <1>b DEF Start
  <2>2. core' = [core EXCEPT ![c] = [core[c] EXCEPT !.pc = "read", !.as = account]]  BY <1>b DEF Start
  <2>3. core'[c].pc = "read"  BY <1>a, <2>2 DEF CoresOK
  <2>4. Stands(c)'  BY <2>3 DEF Stands, Named
  <2>5. QED  BY <1>a, <2>1, <2>2, <2>4, OnlyOne
<1> SUFFICES ASSUME ~\E c \in Cores, account \in {"root", "person"} : Start(c, account)
             PROVE  Alone' /\ \A d \in Cores : Stands(d)'
  BY <1>b
<1>0. /\ TypeOK /\ CoresOK /\ PlacesOK /\ Alone /\ \A c \in Cores : Stands(c)
      /\ \A c \in Cores : /\ core[c] \in [pc : Stages, as : {"nobody", "root", "person"}, at : Nat, knows : Nat]
                          /\ core[c].pc = "off" <=> core[c].as = "nobody"
  BY <1>a, CountsStep DEF Inv
<1>1. ASSUME NEW c \in Cores, core[c].pc # "off", NEW p, core' = [core EXCEPT ![c] = p], Stands(c)'
      PROVE  Alone' /\ \A d \in Cores : Stands(d)'
  <2>1. \A d \in Cores \ {c} : core[d].pc = "off"  BY <1>0, <1>1 DEF Alone
  <2>2. QED  BY <1>0, <1>1, <2>1, OnlyOne
<1>3. ASSUME NEW c \in Cores, Refused(c) \/ Stopped(c) \/ Crash(c)
      PROVE  Alone' /\ \A d \in Cores : Stands(d)'
  <2>1. core[c].pc # "off" /\ core' = [core EXCEPT ![c] = Off]
    BY <1>3 DEF Refused, Stopped, Crash
  <2>2. core'[c].pc = "off"  BY <1>0, <2>1 DEF CoresOK, Off
  <2>3. Stands(c)'  BY <2>2 DEF Stands, Named
  <2>4. QED  BY <1>1, <2>1, <2>3
<1>4. ASSUME NEW c \in Cores, ReadBirth(c) PROVE Alone' /\ \A d \in Cores : Stands(d)'
  <2>1. core[c].pc = "read" /\ CanWeWrite(c) /\ UNCHANGED <<birth, state>>  BY <1>4 DEF ReadBirth, Rest
  <2>2. CASE birth = 0
    <3>1. core' = [core EXCEPT ![c] = [core[c] EXCEPT !.pc = "be born"]]  BY <1>4, <2>2 DEF ReadBirth
    <3>2. core'[c].pc = "be born"  BY <1>0, <3>1 DEF CoresOK
    <3>3. Stands(c)'  BY <2>1, <2>2, <3>2 DEF Stands, Named
    <3>4. QED  BY <1>1, <2>1, <3>1, <3>3
  <2>3. CASE birth # 0
    <3>1. core' = [core EXCEPT ![c] = [core[c] EXCEPT !.pc = "prepare", !.knows = birth, !.at = 1]]
      BY <1>4, <2>3 DEF ReadBirth
    <3>2. core'[c].pc = "prepare" /\ core'[c].knows = birth /\ core'[c].as = core[c].as
      BY <1>0, <3>1 DEF CoresOK
    <3>3. Stands(c)'  BY <2>1, <3>2 DEF Stands, Named, CanWeWrite, MayWrite
    <3>4. QED  BY <1>1, <2>1, <3>1, <3>3
  <2>4. QED  BY <2>2, <2>3
<1>5. ASSUME NEW c \in Cores, BeBorn(c) PROVE Alone' /\ \A d \in Cores : Stands(d)'
  <2>1. /\ core[c].pc = "be born" /\ CanWeWrite(c) /\ UNCHANGED state /\ birth' = starts
        /\ core' = [core EXCEPT ![c] = [core[c] EXCEPT !.pc = "prepare", !.knows = starts, !.at = 1]]
    BY <1>5 DEF BeBorn
  <2>2. core'[c].pc = "prepare" /\ core'[c].knows = starts /\ core'[c].as = core[c].as
    BY <1>0, <2>1 DEF CoresOK
  <2>3. Stands(c)'  BY <2>1, <2>2 DEF Stands, Named, CanWeWrite, MayWrite
  <2>4. QED  BY <1>1, <2>1, <2>3
<1>6. ASSUME NEW c \in Cores, Leave(c) \/ EndCopy(c) PROVE Alone' /\ \A d \in Cores : Stands(d)'
  <2>1. core[c].pc \in {"prepare", "copying"} /\ UNCHANGED <<birth, state>>
    BY <1>6 DEF Leave, EndCopy, Preparing, Rest
  <2>2. CASE Leave(c)
    <3>1. core' = [core EXCEPT ![c] = [core[c] EXCEPT !.at = SkipTo(core[c].at)]]  BY <1>0, <2>2 DEF Leave, CoresOK
    <3>2. core[c].pc = "prepare"  BY <2>2 DEF Leave, Preparing
    <3>3. core'[c].pc = "prepare" /\ core'[c].knows = core[c].knows /\ core'[c].as = core[c].as
      BY <1>0, <3>1, <3>2 DEF CoresOK
    <3>4. Stands(c)'  BY <1>0, <2>1, <3>3 DEF Stands, Named, MayWrite
    <3>5. QED  BY <1>1, <2>1, <3>1, <3>4
  <2>3. CASE EndCopy(c)
    <3>1. core' = [core EXCEPT ![c] = [core[c] EXCEPT !.pc = "prepare", !.at = core[c].at + 1]]  BY <2>3 DEF EndCopy
    <3>2. core'[c].pc = "prepare" /\ core'[c].knows = core[c].knows /\ core'[c].as = core[c].as
      BY <1>0, <3>1 DEF CoresOK
    <3>3. Stands(c)'  BY <1>0, <2>1, <3>2 DEF Stands, Named, MayWrite
    <3>4. QED  BY <1>1, <2>1, <3>1, <3>3
  <2>4. QED  BY <1>6, <2>2, <2>3
<1>7. ASSUME NEW c \in Cores, NEW pc, Step(c, pc) PROVE core'[c] = [core[c] EXCEPT !.pc = pc] /\ core'[c].pc = pc
                                                        /\ core'[c].as = core[c].as /\ core'[c].knows = core[c].knows
  BY <1>0, <1>7 DEF Step, CoresOK
<1>8. ASSUME NEW c \in Cores, FindNothing(c) \/ BeginCopy(c) \/ CopyFails(c) \/ Prepared(c)
      PROVE  Alone' /\ \A d \in Cores : Stands(d)'
  <2>1. core[c].pc \in {"prepare", "found nothing", "copying"} /\ UNCHANGED <<birth, state>>
    BY <1>8 DEF FindNothing, BeginCopy, CopyFails, Prepared, Preparing, Rest
  <2>2. PICK pc \in {"found nothing", "copying", "hand over"} : Step(c, pc)
    BY <1>8 DEF FindNothing, BeginCopy, CopyFails, Prepared
  <2>3. /\ core'[c].pc = pc /\ core'[c].as = core[c].as /\ core'[c].knows = core[c].knows /\ This(c)' = This(c)
    <3>1. core'[c] = [core[c] EXCEPT !.pc = pc]  BY <1>7, <2>2
    <3>2. core'[c].at = core[c].at  BY <1>0, <3>1
    <3>3. QED  BY <1>7, <2>2, <3>2 DEF This
  <2>4. core[c].knows = birth /\ MayWrite(core[c].as, state)  BY <1>0, <2>1 DEF Stands, Named
  <2>5. pc = "found nothing" => This(c) \in Things /\ home'[This(c)] = "absent"
    <3>1. CASE FindNothing(c)
      BY <3>1 DEF FindNothing, Preparing, Occupied, This, Things, ToSet, Places
    <3>2. CASE ~FindNothing(c)
      <4>1. CASE Step(c, "copying")
        <5>1. core'[c].pc = "copying"  BY <1>7, <4>1
        <5>2. QED  BY <2>3, <5>1
      <4>2. CASE Step(c, "hand over")
        <5>1. core'[c].pc = "hand over"  BY <1>7, <4>2
        <5>2. QED  BY <2>3, <5>1
      <4>3. QED  BY <1>8, <3>2, <4>1, <4>2 DEF BeginCopy, CopyFails, Prepared
    <3>3. QED  BY <3>1, <3>2
  <2>6. pc = "copying" => This(c) \in Things /\ home'[This(c)] = "part"
    <3>1. CASE BeginCopy(c)
      BY <1>0, <3>1 DEF BeginCopy, Stands, PlacesOK
    <3>2. CASE ~BeginCopy(c)
      <4>1. CASE Step(c, "found nothing")
        <5>1. core'[c].pc = "found nothing"  BY <1>7, <4>1
        <5>2. QED  BY <2>3, <5>1
      <4>2. CASE Step(c, "hand over")
        <5>1. core'[c].pc = "hand over"  BY <1>7, <4>2
        <5>2. QED  BY <2>3, <5>1
      <4>3. QED  BY <1>8, <3>2, <4>1, <4>2 DEF FindNothing, CopyFails, Prepared
    <3>3. QED  BY <3>1, <3>2
  <2>7. Stands(c)'  BY <2>1, <2>3, <2>4, <2>5, <2>6 DEF Stands, Named, MayWrite
  <2>8. QED  BY <1>1, <2>1, <2>2, <2>7 DEF Step
<1>9. ASSUME NEW c \in Cores, HandOver(c) PROVE Alone' /\ \A d \in Cores : Stands(d)'
  <2>1. core[c].pc = "hand over" /\ Step(c, "lock") /\ UNCHANGED <<birth, state, home>>  BY <1>9 DEF HandOver, Rest
  <2>2. core[c].as = "root" => GivenAway'  BY <1>9 DEF HandOver, GivenAway
  <2>3. core'[c].pc = "lock" /\ core'[c].as = core[c].as /\ core'[c].knows = core[c].knows  BY <1>7, <2>1
  <2>4. core[c].knows = birth /\ MayWrite(core[c].as, state)  BY <1>0, <2>1 DEF Stands, Named
  <2>5. Stands(c)'  BY <2>1, <2>2, <2>3, <2>4 DEF Stands, Named, MayWrite
  <2>6. QED  BY <1>1, <2>1, <2>5 DEF Step
<1>10. ASSUME NEW c \in Cores, LockState(c) PROVE Alone' /\ \A d \in Cores : Stands(d)'
  <2>1. /\ core[c].pc = "lock" /\ Step(c, "listen") /\ UNCHANGED <<birth, home, owner, dirs>>
        /\ state' = IF core[c].as = "root" THEN "root" ELSE state
    BY <1>10 DEF LockState, Places
  <2>2. core'[c].pc = "listen" /\ core'[c].as = core[c].as /\ core'[c].knows = core[c].knows  BY <1>7, <2>1
  <2>3. core[c].knows = birth /\ MayWrite(core[c].as, state) /\ (core[c].as = "root" => GivenAway)
    BY <1>0, <2>1 DEF Stands, Named
  <2>4. GivenAway => GivenAway'  BY <2>1 DEF GivenAway
  <2>5. Stands(c)'  BY <2>1, <2>2, <2>3, <2>4 DEF Stands, Named, MayWrite
  <2>6. QED  BY <1>1, <2>1, <2>5 DEF Step
<1>11. ASSUME NEW c \in Cores, Listen(c) PROVE Alone' /\ \A d \in Cores : Stands(d)'
  <2>1. core[c].pc = "listen" /\ Step(c, "up") /\ UNCHANGED <<birth, home, owner, dirs, state>> /\ socket' = c
    BY <1>11 DEF Listen, Places
  <2>2. core'[c].pc = "up" /\ core'[c].as = core[c].as /\ core'[c].knows = core[c].knows  BY <1>7, <2>1
  <2>3. /\ core[c].knows = birth /\ MayWrite(core[c].as, state)
        /\ core[c].as = "root" => GivenAway /\ state = "root"
    BY <1>0, <2>1 DEF Stands, Named
  <2>4. GivenAway => GivenAway'  BY <2>1 DEF GivenAway
  <2>5. Stands(c)'  BY <2>1, <2>2, <2>3, <2>4 DEF Stands, Named, MayWrite
  <2>6. QED  BY <1>1, <2>1, <2>5 DEF Step
<1>12. ASSUME NEW c \in Cores, Stop(c) PROVE Alone' /\ \A d \in Cores : Stands(d)'
  <2>1. core[c].pc = "up" /\ Step(c, "stopping")  BY <1>12 DEF Stop, Up
  <2>2. core'[c].pc = "stopping"  BY <1>7, <2>1
  <2>3. Stands(c)'  BY <2>2 DEF Stands, Named
  <2>4. QED  BY <1>1, <2>1, <2>3 DEF Step
<1>13. ASSUME UNCHANGED <<home, owner, dirs, state, birth, core, socket>>
       PROVE  Alone' /\ \A d \in Cores : Stands(d)'
  BY <1>0, <1>13 DEF Alone, Stands, GivenAway, This
<1>14. ASSUME (\E c \in Cores : Claim(c)) \/ Describe \/ UNCHANGED vars
       PROVE  Alone' /\ \A d \in Cores : Stands(d)'
  BY <1>13, <1>14 DEF Claim, Describe, Places, vars
<1>15. ASSUME Act PROVE Alone' /\ \A d \in Cores : Stands(d)'
  <2>1. PICK c \in Up, t \in Things :
          \/ home' = [home EXCEPT ![t] = "mine"] /\ owner' = [owner EXCEPT ![t] = Mind]
          \/ home' = [home EXCEPT ![t] = "absent"] /\ owner' = [owner EXCEPT ![t] = "nobody"]
    BY <1>15 DEF Act
  <2>2. UNCHANGED <<dirs, state, birth, core, socket>>  BY <1>15 DEF Act
  <2>3. c \in Cores /\ core[c].pc = "up"  BY DEF Up
  <2>5. GivenAway => GivenAway'
    BY <1>0, <2>1, <2>2 DEF GivenAway, PlacesOK
  <2>6. Stands(c)'  BY <1>0, <2>2, <2>3, <2>5 DEF Stands, Named, MayWrite
  <2>7. \A d \in Cores \ {c} : core[d].pc = "off"  BY <1>0, <2>3 DEF Alone
  <2>8. \A d \in Cores \ {c} : Stands(d)'  BY <2>2, <2>7 DEF Stands, Named
  <2>9. Alone'  BY <1>0, <2>2 DEF Alone
  <2>10. QED  BY <2>6, <2>8, <2>9
<1>16. QED
  BY <1>3, <1>4, <1>5, <1>6, <1>8, <1>9, <1>10, <1>11, <1>12, <1>14, <1>15 DEF Next, Waking, Life

LEMMA InvStep == Inv /\ [Next]_vars => Inv'
<1> SUFFICES ASSUME Inv, [Next]_vars PROVE Inv'  OBVIOUS
<1>1. TypeOK'  BY CoresStep, PlacesStep, CountsStep DEF Inv, TypeOK
<1>2. QED  BY <1>1, StandStep DEF Inv

------------------------------------------------------------------------------
(* What a reader should know of *)

\* While no other core is there, no start, and nothing else a core does, touches what the mind has
\* made its own; and a certificate is written once, unless two cores met.
THEOREM SparedAndKept == Spec => StartsRewriteNothing
<1>1. ASSUME Inv, [Next]_vars PROVE [SparesTheMinds /\ KeepsTheBirth]_vars
  <2>1. ASSUME NEW c \in Cores, Waking(c) \/ Life(c), ~rivals'
        PROVE  \A t \in Things : home[t] = "mine" => home'[t] = "mine"
    <3>0. PlacesOK  BY <1>1 DEF Inv, TypeOK
    <3>1. CASE BeginCopy(c) \/ EndCopy(c)
      <4>1. ~rivals  BY <2>1, <3>1 DEF BeginCopy, EndCopy, Rest
      <4>2. home[This(c)] # "mine"  BY <1>1, <3>1, <4>1 DEF Inv, Stands, BeginCopy, EndCopy
      <4>3. \E there : home' = [home EXCEPT ![This(c)] = there]  BY <3>1 DEF BeginCopy, EndCopy
      <4>4. QED  BY <3>0, <4>2, <4>3 DEF PlacesOK
    <3>2. CASE ~(BeginCopy(c) \/ EndCopy(c))
      BY <2>1, <3>2 DEF Waking, Life, Start, Refused, ReadBirth, BeBorn, Leave, FindNothing, CopyFails, Prepared,
         HandOver, LockState, Listen, Claim, Stop, Stopped, Crash, Places
    <3>3. QED  BY <3>1, <3>2
  <2>2. SparesTheMinds  BY <2>1 DEF SparesTheMinds
  <2>3. KeepsTheBirth
    <3>1. ASSUME NEW c \in Cores, BeBorn(c), birth # 0, ~rivals' PROVE FALSE
      BY <1>1, <3>1 DEF BeBorn, Inv, Stands
    <3>2. (\E c \in Cores : BeBorn(c)) \/ birth' = birth
      BY <1>1 DEF Next, Waking, Life, Start, Refused, ReadBirth, Leave, FindNothing, BeginCopy, EndCopy, CopyFails,
         Prepared, HandOver, LockState, Listen, Claim, Stop, Stopped, Crash, Rest, Act, Describe, vars
    <3>3. QED  BY <3>1, <3>2 DEF KeepsTheBirth
  <2>4. QED  BY <2>2, <2>3
<1>2. QED  BY <1>1, InvInit, InvStep, PTL DEF Spec, StartsRewriteNothing

\* Who is heard as whom by the one core there is.
LEMMA HeardRight ==
  ASSUME TypeOK, Alone, NEW c \in Up, NEW verb \in Verbs, NEW near \in BOOLEAN
  PROVE  /\ (near \/ core[c].as = "person") /\ Way("person", near, verb) # "here" =>
              HeardAs(c, "person", near, verb) = "mentor"
         /\ core[c].as = "root" /\ Way("mind", near, verb) = "socket" => HeardAs(c, "mind", near, verb) = "agent"
<1>1. /\ c \in Cores /\ core[c].pc = "up" /\ core[c].as \in {"root", "person"}
      /\ \A d \in Cores : core[d].pc = "off" <=> core[d].as = "nobody"
  BY DEF Up, TypeOK, CoresOK, Process
<1>2. \A d \in Cores : core[d].as = "root" => d = c  BY <1>1 DEF Alone
<1>3. CASE core[c].as = "root"
  <2>1. BodyRuns  BY <1>1, <1>3 DEF BodyRuns
  <2>2. near /\ Way("person", near, verb) # "here" => Way("person", near, verb) = "inside"  BY <2>1 DEF Way
  <2>3. QED  BY <1>3, <2>2 DEF HeardAs, ArrivesAs, RoleAt, Mind
<1>4. CASE core[c].as = "person"
  <2>1. ~BodyRuns  BY <1>2, <1>4 DEF BodyRuns
  <2>2. Way("person", near, verb) # "here" => Way("person", near, verb) = "socket"  BY <2>1 DEF Way
  <2>3. QED  BY <1>4, <2>2 DEF HeardAs, ArrivesAs, RoleAt
<1>5. QED  BY <1>1, <1>3, <1>4

\* A core that is up, while no other was there at once, is reached, born, able to write and, where
\* the mind has an account of its own, apart from it: for any skeleton and any number of starts.
THEOREM UpIsWhole == Spec => []AwakeAndWhole
<1>1. Inv => AwakeAndWhole
  <2> SUFFICES ASSUME Inv, ~rivals, NEW c \in Up
               PROVE  /\ socket = c /\ core[c].knows = birth /\ MayWrite(core[c].as, state)
                      /\ \A verb \in Verbs, near \in BOOLEAN :
                            (near \/ core[c].as = "person") /\ Way("person", near, verb) # "here" =>
                                HeardAs(c, "person", near, verb) = "mentor"
                      /\ core[c].as = "root" =>
                            /\ state = "root" /\ dirs = Mind
                            /\ \A t \in Things : home[t] # "absent" => owner[t] = Mind
                            /\ \A verb \in Verbs, near \in BOOLEAN :
                                  Way("mind", near, verb) = "socket" => HeardAs(c, "mind", near, verb) = "agent"
    BY DEF AwakeAndWhole
  <2>1. Stands(c) /\ core[c].pc = "up" /\ TypeOK /\ Alone  BY DEF Inv, Up
  <2>2. socket = c /\ core[c].knows = birth /\ MayWrite(core[c].as, state)  BY <2>1 DEF Stands, Named
  <2>3. core[c].as = "root" => state = "root" /\ GivenAway  BY <2>1 DEF Stands
  <2>4. QED  BY <2>1, <2>2, <2>3, HeardRight DEF GivenAway
<1>2. QED  BY <1>1, InvInit, InvStep, PTL DEF Spec

------------------------------------------------------------------------------
(* Look *)

\* A list of messages, whatever they say.
IsList(s) == \E S : s \in Seq(S)

\* An answer or a question under an id that was given out; under the id waited for, the trace
\* of the run waited for.
FitsAnswer(m, p, n) == m.name = "reply" => m.id \in 1..(n - 1) /\ (m.id = p.inside => m.v.of = p.of)
FitsQuestion(q, p, n) == q.id \in 1..(n - 1) /\ (q.id = p.inside => q.op = "trace" /\ q.of = p.of)

Asked ==
  /\ next \in Nat \ {0} /\ pend.inside \in Nat /\ pend.inside < next
  /\ \A q \in asked : FitsQuestion(q, pend, next)
  /\ IsList(rx) /\ \A i \in 1..Len(rx) : FitsAnswer(rx[i], pend, next)

Shape ==
  /\ DOMAIN win = {"pane", "filter", "column", "picked", "step", "opened", "inside", "want", "turns", "rows"}
  /\ DOMAIN pend = {"stats", "thoughts", "inside", "of"}
  /\ win = [k \in DOMAIN win |-> win[k]] /\ pend = [k \in DOMAIN pend |-> pend[k]]

\* What was read last is the inside of the run it was read for.
ReadIsItsOwn == win.opened # 0 => win.inside.of = win.opened

LookInv == Shape /\ Asked /\ ReadIsItsOwn

------------------------------------------------------------------------------
(* Lists *)

\* One more message leaves the others where they were.
LEMMA OneMore ==
  ASSUME NEW s, NEW m, IsList(s)
  PROVE  /\ IsList(Append(s, m)) /\ Len(s) \in Nat /\ Len(Append(s, m)) = Len(s) + 1
         /\ \A i \in 1..Len(s) : Append(s, m)[i] = s[i]
         /\ Append(s, m)[Len(s) + 1] = m
<1>1. PICK S : s \in Seq(S)  BY DEF IsList
<1>2. s \in Seq(S \union {m})  BY <1>1, SeqMonotonic
<1>3. Append(s, m) \in Seq(S \union {m})  BY <1>2, AppendProperties
<1>4. IsList(Append(s, m))  BY <1>3 DEF IsList
<1>5. QED  BY <1>2, <1>4, AppendProperties

\* Taking the first moves every other one place up.
LEMMA OneLess ==
  ASSUME NEW s, IsList(s), s # <<>>
  PROVE  /\ IsList(Tail(s)) /\ Len(s) \in Nat \ {0} /\ Len(Tail(s)) = Len(s) - 1
         /\ \A i \in 1..Len(Tail(s)) : Tail(s)[i] = s[i + 1] /\ i + 1 \in 1..Len(s)
         /\ Head(s) = s[1] /\ 1 \in 1..Len(s)
<1>1. PICK S : s \in Seq(S)  BY DEF IsList
<1>2. Tail(s) \in Seq(S) /\ Len(s) \in Nat \ {0} /\ Len(Tail(s)) = Len(s) - 1
  BY <1>1, HeadTailProperties, EmptySeq
<1>3. \A i \in 1..Len(Tail(s)) : Tail(s)[i] = s[i + 1]  BY <1>1, HeadTailProperties
<1>4. Head(s) = s[1]  BY <1>1, HeadTailProperties
<1>5. QED  BY <1>2, <1>3, <1>4 DEF IsList

\* Nothing to read.
LEMMA NoneYet == IsList(<<>>) /\ Len(<<>>) = 0
<1>1. <<>> \in Seq({}) /\ Len(<<>>) = 0  BY EmptySeq
<1>2. QED  BY <1>1 DEF IsList

\* A list that grew by something that fits fits.
LEMMA Grown ==
  ASSUME IsList(rx), \A i \in 1..Len(rx) : FitsAnswer(rx[i], pend, next),
         NEW m, FitsAnswer(m, pend, next), next' = next, pend' = pend, rx' = Append(rx, m)
  PROVE  IsList(rx') /\ \A i \in 1..Len(rx') : FitsAnswer(rx'[i], pend', next')
<1>1. \A i \in 1..Len(rx') : FitsAnswer(rx'[i], pend, next)  BY OneMore
<1>2. QED  BY <1>1, OneMore

------------------------------------------------------------------------------
\* It starts with nothing asked and nothing read.
LEMMA LookInvInit == LookInit => LookInv
  BY NoneYet DEF LookInit, LookInv, Shape, Asked, ReadIsItsOwn, Nobody, Blank

\* Moving about the pane leaves what was read as it is.
LEMMA PickReadsNothing ==
  ASSUME NEW by
  PROVE  LET w == Pick(win, by) IN Shape =>
           /\ DOMAIN w = DOMAIN win /\ w = [k \in DOMAIN w |-> w[k]]
           /\ w.opened = win.opened /\ w.inside = win.inside
  BY DEF Pick, Shape

\* A request under the next id.
LEMMA OneId == ASSUME NEW q PROVE Cardinality({q}) = 1
  BY FS_Singleton
LEMMA TwoIds == ASSUME NEW q, NEW r, q # r PROVE Cardinality({q, r}) = 2
<1>1. IsFiniteSet({q}) /\ Cardinality({q}) = 1 /\ r \notin {q}  BY FS_Singleton
<1>2. Cardinality({q} \union {r}) = 2  BY <1>1, FS_AddElement
<1>3. {q, r} = {q} \union {r}  OBVIOUS
<1>4. QED  BY <1>2, <1>3

\* What is waited for stays what it was when others are asked for under new ids.
LEMMA MoreAsked ==
  ASSUME Asked, NEW ids, NEW n \in Nat, asked' = asked \union ids, next' = next + n, rx' = rx,
         pend'.inside = pend.inside, pend'.of = pend.of,
         \A q \in ids : q.id \in next..(next + n - 1)
  PROVE  Asked'
<1>0. next \in Nat \ {0} /\ pend.inside \in Nat /\ pend.inside < next  BY DEF Asked
<1>1. \A q \in asked' : FitsQuestion(q, pend', next')
  <2>1. ASSUME NEW q \in asked PROVE FitsQuestion(q, pend', next')
    BY <1>0, <2>1 DEF Asked, FitsQuestion
  <2>2. ASSUME NEW q \in ids PROVE FitsQuestion(q, pend', next')
    BY <1>0, <2>2 DEF FitsQuestion
  <2>3. QED  BY <2>1, <2>2
<1>2. IsList(rx') /\ \A i \in 1..Len(rx') : FitsAnswer(rx'[i], pend', next')
  BY <1>0 DEF Asked, FitsAnswer
<1>3. QED  BY <1>0, <1>1, <1>2 DEF Asked

------------------------------------------------------------------------------
(* The kinds of step there are for what is waited for *)

\* The core goes on, and may say so.
Lives == /\ UNCHANGED <<win, pend, asked, next>>
         /\ rx' = rx \/ \E m : rx' = Append(rx, m) /\ m.name = "thought"
Answers == /\ UNCHANGED <<win, pend, next>>
           /\ \E q \in asked : /\ asked' = asked \ {q}
                               /\ \E m : /\ rx' = Append(rx, m) /\ m.id = q.id
                                         /\ q.op = "trace" => m.v.of = q.of
AsksFor(n, ids) == /\ asked' = asked \union ids /\ next' = next + n
                   /\ \A q \in ids : q.id \in next..(next + n - 1)
\* Somebody moves about; other things are asked for; the run pointed at is.
Moves == /\ UNCHANGED rx /\ Shape'
         /\ win'.opened = win.opened /\ win'.inside = win.inside
         /\ pend'.inside = pend.inside /\ pend'.of = pend.of
         /\ \/ UNCHANGED <<asked, next>>
            \/ \E n \in Nat : \E ids : AsksFor(n, ids)
LooksInside ==
  /\ UNCHANGED rx /\ Shape' /\ win'.opened = 0
  /\ \E r : /\ asked' = asked \union {[op |-> "trace", id |-> next, of |-> r]} /\ next' = next + 1
            /\ pend'.inside = next /\ pend'.of = r
Loses == /\ UNCHANGED <<win, next>> /\ pend' = Nobody /\ asked' = {} /\ rx' = <<>>
Hears == /\ rx # <<>> /\ rx' = Tail(rx) /\ UNCHANGED <<asked, next>> /\ Shape'
         /\ \/ /\ win'.opened = win.opened /\ win'.inside = win.inside
               /\ pend'.inside = pend.inside /\ pend'.of = pend.of
            \/ /\ Head(rx).name = "reply" /\ Head(rx).id = pend.inside
               /\ win'.opened = pend.of /\ win'.inside = Head(rx).v
               /\ pend'.inside = 0 /\ pend'.of = 0

\* Every step is of one of these kinds.
LEMMA EveryStepIs ==
  ASSUME LookInv, [LookNext]_lookVars
  PROVE  Lives \/ Answers \/ Moves \/ LooksInside \/ Loses \/ Hears
<1>0. Shape /\ next \in Nat \ {0}  BY DEF LookInv, Asked
<1>1. ASSUME StartTurn PROVE Lives  BY <1>1 DEF StartTurn, Lives
<1>3. ASSUME StartThought PROVE Lives  BY <1>3 DEF StartThought, Lives, Tell
<1>4. ASSUME NEW r \in DOMAIN runs, EndTurn(r) PROVE Lives  BY <1>4 DEF EndTurn, Lives
<1>5. ASSUME NEW r \in DOMAIN runs, Settle(r) PROVE Lives  BY <1>5 DEF Settle, Lives, Tell
<1>6. ASSUME NEW q \in asked, Handle(q) PROVE Answers
  <2> DEFINE v == CASE q.op = "stats"   -> RecentTurns
                    [] q.op = "thought" -> {[of |-> r, status |-> runs[r].outcome] : r \in {i \in DOMAIN runs : runs[i].inner}}
                    [] q.op = "trace"   -> [of |-> q.of, steps |-> q.of]
             m == [name |-> "reply", id |-> q.id, v |-> v]
  <2>1. UNCHANGED <<win, pend, next>> /\ asked' = (asked \ {q}) /\ rx' = Append(rx, m)
    BY <1>6 DEF Handle
  <2>2. q.op = "trace" => v = [of |-> q.of, steps |-> q.of]  OBVIOUS
  <2>3. m.id = q.id /\ m.v = v  OBVIOUS
  <2>4. q.op = "trace" => m.v.of = q.of  BY <2>2, <2>3
  <2> HIDE DEF m
  <2>5. QED  BY <2>1, <2>3, <2>4 DEF Answers
<1>7. ASSUME Connect PROVE Moves
  <2> DEFINE a == [op |-> "stats", id |-> next, of |-> 0]
             b == [op |-> "thought", id |-> next + 1, of |-> 0]
  <2>1. a.id = next /\ b.id = next + 1 /\ a # b  BY <1>0
  <2>2. UNCHANGED <<rx, win>> /\ Ask({a, b}) /\ pend' = [pend EXCEPT !.stats = next, !.thoughts = next + 1]
    BY <1>7 DEF Connect
  <2> HIDE DEF a, b
  <2>3. asked' = asked \union {a, b} /\ next' = next + 2  BY <2>1, <2>2, TwoIds DEF Ask
  <2>4. \A q \in {a, b} : q.id \in next..(next + 2 - 1)  BY <1>0, <2>1
  <2>5. Shape' /\ pend'.inside = pend.inside /\ pend'.of = pend.of  BY <1>0, <2>2 DEF Shape
  <2>6. AsksFor(2, {a, b}) /\ 2 \in Nat  BY <2>3, <2>4 DEF AsksFor
  <2>7. \E n \in Nat : \E ids : AsksFor(n, ids)  BY <2>6
  <2>8. QED  BY <2>2, <2>5, <2>7 DEF Moves
<1>8. ASSUME Refresh PROVE Moves
  <2> DEFINE a == [op |-> "stats", id |-> next, of |-> 0]
             b == [op |-> "thought", id |-> next + 1, of |-> 0]
  <2>1. a.id = next /\ b.id = next + 1 /\ a # b  BY <1>0
  <2>2. UNCHANGED <<rx, win>> /\ Ask({a, b}) /\ pend' = [pend EXCEPT !.stats = next, !.thoughts = next + 1]
    BY <1>8 DEF Refresh, Turn
  <2> HIDE DEF a, b
  <2>3. asked' = asked \union {a, b} /\ next' = next + 2  BY <2>1, <2>2, TwoIds DEF Ask
  <2>4. \A q \in {a, b} : q.id \in next..(next + 2 - 1)  BY <1>0, <2>1
  <2>5. Shape' /\ pend'.inside = pend.inside /\ pend'.of = pend.of  BY <1>0, <2>2 DEF Shape
  <2>6. AsksFor(2, {a, b}) /\ 2 \in Nat  BY <2>3, <2>4 DEF AsksFor
  <2>7. \E n \in Nat : \E ids : AsksFor(n, ids)  BY <2>6
  <2>8. QED  BY <2>2, <2>5, <2>7 DEF Moves
<1>9. ASSUME Gone PROVE Loses  BY <1>9 DEF Gone, Loses
<1>10. ASSUME AskInside PROVE Moves \/ LooksInside
  <2> DEFINE r == PointingAt(win)
             q == [op |-> "trace", id |-> next, of |-> r]
  <2>1. CASE up /\ r # 0 /\ win.opened # r
    <3>1. /\ UNCHANGED rx /\ win' = [win EXCEPT !.want = FALSE, !.inside = Blank, !.opened = 0]
          /\ Ask({q}) /\ pend' = [pend EXCEPT !.inside = next, !.of = r]
      BY <1>10, <2>1 DEF AskInside
    <3>2. Shape' /\ win'.opened = 0 /\ pend'.inside = next /\ pend'.of = r  BY <1>0, <3>1 DEF Shape
    <3>3. asked' = asked \union {q} /\ next' = next + 1  BY <3>1, OneId DEF Ask
    <3>4. QED  BY <3>1, <3>2, <3>3 DEF LooksInside
  <2>2. CASE ~(up /\ r # 0 /\ win.opened # r)
    <3>1. UNCHANGED <<rx, asked, next, pend>> /\ win' = [win EXCEPT !.want = FALSE]
      BY <1>10, <2>2 DEF AskInside
    <3>2. Shape' /\ win'.opened = win.opened /\ win'.inside = win.inside  BY <1>0, <3>1 DEF Shape
    <3>3. QED  BY <3>1, <3>2 DEF Moves
  <2>3. QED  BY <2>1, <2>2
<1>11. ASSUME Show PROVE Moves
  <2> DEFINE q == [op |-> "stats", id |-> next, of |-> 0]
  <2>1. PICK p \in {"conversation", "journal", "admin"} \ {win.pane} :
          /\ win' = [win EXCEPT !.pane = p, !.want = (p = "journal")]
          /\ IF p = "admin" /\ up /\ next + 1 <= MaxAsks
             THEN Ask({q}) /\ pend' = [pend EXCEPT !.stats = next]
             ELSE UNCHANGED <<asked, next, pend>>
    BY <1>11 DEF Show
  <2>2. UNCHANGED rx  BY <1>11 DEF Show
  <2>3. DOMAIN win' = DOMAIN win /\ win' = [k \in DOMAIN win' |-> win'[k]]
        /\ win'.opened = win.opened /\ win'.inside = win.inside  BY <1>0, <2>1 DEF Shape
  <2>4. CASE Ask({q}) /\ pend' = [pend EXCEPT !.stats = next]
    <3>1. Shape' /\ pend'.inside = pend.inside /\ pend'.of = pend.of  BY <1>0, <2>3, <2>4 DEF Shape
    <3>2. asked' = asked \union {q} /\ next' = next + 1  BY <2>4, OneId DEF Ask
    <3>3. \A x \in {q} : x.id \in next..(next + 1 - 1)  BY <1>0
    <3> HIDE DEF q
    <3>4. AsksFor(1, {q})  BY <3>2, <3>3 DEF AsksFor
    <3>5. 1 \in Nat  OBVIOUS
    <3>6. \E n \in Nat : \E ids : AsksFor(n, ids)  BY <3>4, <3>5
    <3>7. QED  BY <2>2, <2>3, <3>1, <3>6 DEF Moves
  <2>5. CASE UNCHANGED <<asked, next, pend>>
    <3>1. Shape'  BY <1>0, <2>3, <2>5 DEF Shape
    <3>2. QED  BY <2>2, <2>3, <2>5, <3>1 DEF Moves
  <2>6. QED  BY <2>1, <2>4, <2>5
<1>12. ASSUME Key PROVE Moves
  <2>1. UNCHANGED <<rx, pend, asked, next>>  BY <1>12 DEF Key
  <2>2. DOMAIN win' = DOMAIN win /\ win' = [k \in DOMAIN win' |-> win'[k]]
        /\ win'.opened = win.opened /\ win'.inside = win.inside
    <3>1. CASE \E by \in {-Stride, -1, 1, Stride} : win' = Pick(win, by)
      BY <1>0, <3>1, PickReadsNothing
    <3>2. CASE win' = [win EXCEPT !.column = Right(@)]  BY <1>0, <3>2 DEF Shape
    <3>3. CASE win' = [win EXCEPT !.column = LeftOf(@)]  BY <1>0, <3>3 DEF Shape
    <3>4. CASE \E f \in Offered \ {win.filter} : win' = [win EXCEPT !.filter = f, !.picked = 0, !.want = TRUE]
      BY <1>0, <3>4 DEF Shape
    <3>5. QED  BY <1>12, <3>1, <3>2, <3>3, <3>4 DEF Key
  <2>3. Shape'  BY <1>0, <2>1, <2>2 DEF Shape
  <2>4. QED  BY <2>1, <2>2, <2>3 DEF Moves
<1>13. ASSUME FromCore PROVE Hears
  <2> DEFINE m == Head(rx)
  <2>1. rx # <<>> /\ rx' = Tail(rx) /\ UNCHANGED <<asked, next>>  BY <1>13 DEF FromCore
  <2>2. \/ (\E rows : win' = [win EXCEPT !.rows = rows]) /\ UNCHANGED pend
        \/ win' = [win EXCEPT !.turns = m.v] /\ pend' = [pend EXCEPT !.stats = 0]
        \/ (\E rows : win' = [win EXCEPT !.rows = rows]) /\ pend' = [pend EXCEPT !.thoughts = 0]
        \/ /\ m.name = "reply" /\ m.id = pend.inside
           /\ win' = TakeInside(win, m.v) /\ pend' = [pend EXCEPT !.inside = 0, !.of = 0]
        \/ UNCHANGED <<win, pend>>
    BY <1>13 DEF FromCore
  <2> HIDE DEF m
  <2>3. CASE (\E rows : win' = [win EXCEPT !.rows = rows]) /\ UNCHANGED pend
    BY <1>0, <2>1, <2>3 DEF Shape, Hears
  <2>4. CASE win' = [win EXCEPT !.turns = m.v] /\ pend' = [pend EXCEPT !.stats = 0]
    BY <1>0, <2>1, <2>4 DEF Shape, Hears
  <2>5. CASE (\E rows : win' = [win EXCEPT !.rows = rows]) /\ pend' = [pend EXCEPT !.thoughts = 0]
    BY <1>0, <2>1, <2>5 DEF Shape, Hears
  <2>6. CASE /\ m.name = "reply" /\ m.id = pend.inside
             /\ win' = TakeInside(win, m.v) /\ pend' = [pend EXCEPT !.inside = 0, !.of = 0]
    <3>1. Shape' /\ win'.opened = pend.of /\ win'.inside = m.v /\ pend'.inside = 0 /\ pend'.of = 0
      BY <1>0, <2>6 DEF Shape, TakeInside
    <3>2. QED  BY <2>1, <2>6, <3>1 DEF Hears, m
  <2>7. CASE UNCHANGED <<win, pend>>
    BY <1>0, <2>1, <2>7 DEF Shape, Hears
  <2>8. QED  BY <2>2, <2>3, <2>4, <2>5, <2>6, <2>7
<1>14. ASSUME UNCHANGED lookVars PROVE Lives  BY <1>14 DEF lookVars, Lives
<1>15. QED  BY <1>1, <1>3, <1>4, <1>5, <1>6, <1>7, <1>8, <1>9, <1>10, <1>11, <1>12, <1>13, <1>14 DEF LookNext

------------------------------------------------------------------------------
(* No step shows what is not its own *)

LEMMA LookInvStep == LookInv /\ [LookNext]_lookVars => LookInv'
<1> SUFFICES ASSUME LookInv, [LookNext]_lookVars PROVE LookInv'  OBVIOUS
<1>0. /\ Shape /\ Asked /\ ReadIsItsOwn
      /\ next \in Nat \ {0} /\ pend.inside \in Nat /\ pend.inside < next
      /\ IsList(rx) /\ \A i \in 1..Len(rx) : FitsAnswer(rx[i], pend, next)
      /\ \A q \in asked : FitsQuestion(q, pend, next)
  BY DEF LookInv, Asked
<1>1. ASSUME Lives PROVE LookInv'
  <2>1. IsList(rx') /\ \A i \in 1..Len(rx') : FitsAnswer(rx'[i], pend', next')
    <3>1. CASE rx' = rx  BY <1>0, <1>1, <3>1 DEF Lives
    <3>2. ASSUME NEW m, rx' = Append(rx, m), m.name = "thought"
          PROVE  IsList(rx') /\ \A i \in 1..Len(rx') : FitsAnswer(rx'[i], pend', next')
      <4>1. FitsAnswer(m, pend, next)  BY <3>2 DEF FitsAnswer
      <4>2. QED  BY <1>0, <1>1, <3>2, <4>1, Grown DEF Lives
    <3>3. QED  BY <1>1, <3>1, <3>2 DEF Lives
  <2>2. Asked'  BY <1>0, <1>1, <2>1 DEF Lives, Asked
  <2>3. QED  BY <1>0, <1>1, <2>2 DEF Lives, LookInv, Shape, ReadIsItsOwn
<1>2. ASSUME Answers PROVE LookInv'
  <2>0. PICK q \in asked : \E m : /\ asked' = asked \ {q} /\ rx' = Append(rx, m) /\ m.id = q.id
                                  /\ q.op = "trace" => m.v.of = q.of
    BY <1>2 DEF Answers
  <2>1. PICK m : /\ asked' = asked \ {q} /\ rx' = Append(rx, m) /\ m.id = q.id
                 /\ q.op = "trace" => m.v.of = q.of
    BY <2>0
  <2>2. FitsAnswer(m, pend, next)  BY <1>0, <2>1 DEF FitsAnswer, FitsQuestion
  <2>3. IsList(rx') /\ \A i \in 1..Len(rx') : FitsAnswer(rx'[i], pend', next')
    BY <1>0, <1>2, <2>1, <2>2, Grown DEF Answers
  <2>4. Asked'  BY <1>0, <1>2, <2>1, <2>3 DEF Answers, Asked
  <2>5. QED  BY <1>0, <1>2, <2>4 DEF Answers, LookInv, Shape, ReadIsItsOwn
<1>3. ASSUME Moves PROVE LookInv'
  <2>1. Asked'
    <3>1. CASE UNCHANGED <<asked, next>>
      <4>1. \A x, n : FitsQuestion(x, pend', n) <=> FitsQuestion(x, pend, n)  BY <1>3 DEF Moves, FitsQuestion
      <4>2. \A x, n : FitsAnswer(x, pend', n) <=> FitsAnswer(x, pend, n)  BY <1>3 DEF Moves, FitsAnswer
      <4>3. QED  BY <1>0, <1>3, <3>1, <4>1, <4>2 DEF Moves, Asked
    <3>2. ASSUME NEW n \in Nat, NEW ids, AsksFor(n, ids) PROVE Asked'
      BY <1>0, <1>3, <3>2, MoreAsked DEF Moves, AsksFor
    <3>3. QED  BY <1>3, <3>1, <3>2 DEF Moves
  <2>2. QED  BY <1>0, <1>3, <2>1 DEF Moves, LookInv, ReadIsItsOwn
<1>4. ASSUME LooksInside PROVE LookInv'
  <2>1. PICK r : /\ asked' = asked \union {[op |-> "trace", id |-> next, of |-> r]} /\ next' = next + 1
                 /\ pend'.inside = next /\ pend'.of = r
    BY <1>4 DEF LooksInside
  <2>2. \A q \in asked' : FitsQuestion(q, pend', next')  BY <1>0, <2>1 DEF FitsQuestion
  <2>3. \A i \in 1..Len(rx) : FitsAnswer(rx[i], pend', next')  BY <1>0, <2>1 DEF FitsAnswer
  <2>4. Asked'  BY <1>0, <1>4, <2>1, <2>2, <2>3 DEF LooksInside, Asked
  <2>5. QED  BY <1>4, <2>4 DEF LooksInside, LookInv, ReadIsItsOwn
<1>5. ASSUME Loses PROVE LookInv'
  <2>1. IsList(rx') /\ Len(rx') = 0  BY <1>5, NoneYet DEF Loses
  <2>2. Asked'  BY <1>0, <1>5, <2>1 DEF Loses, Asked, Nobody
  <2>3. QED  BY <1>0, <1>5, <2>2 DEF Loses, LookInv, Shape, ReadIsItsOwn, Nobody
<1>6. ASSUME Hears PROVE LookInv'
  <2>1. /\ IsList(rx') /\ 1 \in 1..Len(rx) /\ Head(rx) = rx[1]
        /\ \A i \in 1..Len(rx') : rx'[i] = rx[i + 1] /\ i + 1 \in 1..Len(rx)
    BY <1>0, <1>6, OneLess DEF Hears
  <2>2. CASE /\ win'.opened = win.opened /\ win'.inside = win.inside
             /\ pend'.inside = pend.inside /\ pend'.of = pend.of
    <3>1. \A q \in asked' : FitsQuestion(q, pend', next')  BY <1>0, <1>6, <2>2 DEF Hears, FitsQuestion
    <3>2. \A i \in 1..Len(rx') : FitsAnswer(rx'[i], pend', next')
      BY <1>0, <1>6, <2>1, <2>2 DEF Hears, FitsAnswer
    <3>3. Asked'  BY <1>0, <1>6, <2>1, <2>2, <3>1, <3>2 DEF Hears, Asked
    <3>4. QED  BY <1>0, <1>6, <2>2, <3>3 DEF Hears, LookInv, ReadIsItsOwn
  <2>3. CASE /\ Head(rx).name = "reply" /\ Head(rx).id = pend.inside
             /\ win'.opened = pend.of /\ win'.inside = Head(rx).v
             /\ pend'.inside = 0 /\ pend'.of = 0
    <3>1. Head(rx).v.of = pend.of  BY <1>0, <2>1, <2>3 DEF FitsAnswer
    <3>2. \A q \in asked' : FitsQuestion(q, pend', next')  BY <1>0, <1>6, <2>3 DEF Hears, FitsQuestion
    <3>3. \A i \in 1..Len(rx') : FitsAnswer(rx'[i], pend', next')
      BY <1>0, <1>6, <2>1, <2>3 DEF Hears, FitsAnswer
    <3>4. Asked'  BY <1>0, <1>6, <2>1, <2>3, <3>2, <3>3 DEF Hears, Asked
    <3>5. QED  BY <1>6, <2>3, <3>1, <3>4 DEF Hears, LookInv, ReadIsItsOwn
  <2>4. QED  BY <1>6, <2>2, <2>3 DEF Hears
<1>7. QED  BY <1>1, <1>2, <1>3, <1>4, <1>5, <1>6, EveryStepIs

\* The steps shown beside a run are those of its own trace, however many runs there are, in
\* whatever order the answers come, and wherever the pointer went in the meantime.
THEOREM ShownIsItsOwn == LookSpec => []StepsAreItsOwn
<1>1. LookInv => StepsAreItsOwn
  <2> SUFFICES ASSUME LookInv, StepsShown(win) = "steps" PROVE win.inside.of = PointingAt(win)
    BY DEF StepsAreItsOwn
  <2>1. PointingAt(win) # 0 /\ win.opened = PointingAt(win)  BY DEF StepsShown
  <2>2. QED  BY <2>1 DEF LookInv, ReadIsItsOwn
<1>2. QED  BY <1>1, LookInvInit, LookInvStep, PTL DEF LookSpec
==============================================================================
