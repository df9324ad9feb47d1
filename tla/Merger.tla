------------------------------- MODULE Merger -------------------------------
(***************************************************************************)
(* The merger, src/DemoMerger/demo_merger.cpp: pieces ("cuts") of demos of *)
(* one game are written one after the other as one demo, each snapshot     *)
(* coded anew by the writer of src/DemoTrimmer/demo_utils.cpp.  A cut ends *)
(* where the next one starts.  Cuts of the same demo share its reader.     *)
(*                                                                         *)
(* The messages of the output are numbered consecutively, while a snapshot *)
(* keeps the distance to its base that it had in its demo.  The commands   *)
(* of a cut are shifted so that they follow those of the cut before, and a *)
(* cut begins with commands that bring the viewer up to date.              *)
(*                                                                         *)
(* What was written is judged by a second reader, "out", which reads each  *)
(* message as it is written.  The server and the recording clients are     *)
(* external.  Of the configstrings one is modelled, and a message brings   *)
(* at most one command; a client that got a message has all commands       *)
(* before it.  All demos have the same entity baselines.                   *)
(***************************************************************************)
EXTENDS Integers, Sequences, FiniteSets, SnapshotSlots

CONSTANTS
  MaxReliableCommands,  \* MAX_RELIABLE_COMMANDS (128)
  FudgeFactor,          \* 10: commands of the ring that are given up at once
  CutDemos,             \* the demo of each cut
  TargetMaps,           \* the maps that the cuts can be from
  FirstNumber,          \* demo -> number of its first message
  GamestateCommand,     \* demo -> the command number in its gamestate
  Worlds,               \* the worlds there can be
  Strings,              \* what a configstring or a tinfo command can say
  NewTexts,             \* the commands there can be
  FirstString,          \* the configstring when recording began
  MaxSpan,              \* bound: how far the base of a snapshot lies back
  MaxMaps,              \* bound: map changes in a demo
  Times,                \* when cuts can start
  MaxMessages           \* bound: demo -> its messages

Demos == {CutDemos[i] : i \in DOMAIN CutDemos}
Cuts == DOMAIN CutDemos

NoString == "none"

(* Commands: the empty text of slot 0, "cs", "tinfo", and the "cs" of a    *)
(* system info with another server id.                                     *)
NoText == [cmd |-> "", says |-> NoString]
Cs(s) == [cmd |-> "cs", says |-> s]
TInfo(s) == [cmd |-> "tinfo", says |-> s]
NewServerId == [cmd |-> "serverid", says |-> NoString]
Texts == {NewServerId} \cup {Cs(s) : s \in Strings} \cup {TInfo(s) : s \in Strings}

ASSUME MergerAssumption ==
  /\ MaxReliableCommands \in Nat \ {0}
  /\ FudgeFactor \in 0 .. MaxReliableCommands - 1
  /\ GamestateCommand \in [Demos -> Nat]
  /\ CutDemos \in Seq(Demos) /\ Len(CutDemos) > 0
  /\ FirstNumber \in [Demos -> Nat \ {0}]
  /\ \A w \in Worlds : IsWorld(w)
  /\ FirstString \in Strings
  /\ NewTexts \subseteq Texts
  /\ TargetMaps \subseteq [Cuts -> 0 .. MaxMaps]
  /\ MaxSpan \in 0 .. PacketBackup - 1
  /\ MaxMaps \in Nat
  /\ Times \subseteq Nat
  /\ MaxMessages \in [Demos -> Nat]

VARIABLES
  \* Each demo, as far as it was read.
  serverMessageSequence,     \* clc.serverMessageSequence
  in,                        \* its reader
  serverCommandSequence,     \* clc.serverCommandSequence
  lastExecutedServerCommand, \* clc.lastExecutedServerCommand
  commands,                  \* clc.serverCommands: the ones up to the newest
                             \* that are not executed, or were last of all
  configstring,              \* in cl.gameState
  lastTeamInfo,
  currentMap,
  levelStart,                \* the message before the map's first one
  \* The cuts.
  startMillis, targetMap,
  firstServerCommand,
  framesSaved,
  idx,                       \* the cut at work
  loop,                      \* "parse", "header", "write", "read", "done" or
                             \* "failed"
  \* The output and its reader.
  outSequence,               \* serverMessageSequence of RunMerge
  serverCommandOffset,
  out,
  outCommandSequence,        \* its clc.serverCommandSequence
  outConfigstring,
  outTeamInfo,
  due,                       \* for CommandsFollow: the number that comes after
                             \* the commands written so far
  origin                     \* for OutputExact: the message the cut began
                             \* with, 0 once a base is Misplaced

demoVars == <<serverMessageSequence, in, serverCommandSequence,
              lastExecutedServerCommand, commands, configstring, lastTeamInfo,
              currentMap, levelStart>>
planVars == <<startMillis, targetMap>>
outVars == <<outSequence, serverCommandOffset, out, outCommandSequence,
             outConfigstring, outTeamInfo, due>>
vars == <<demoVars, planVars, firstServerCommand, framesSaved, idx, loop,
          outVars, origin>>

NoSnapshot == -1      \* the span of a message without a snapshot
HasCommand(list, cmd) == \E j \in DOMAIN list : list[j].cmd = cmd

(* What the last command of a kind says, or what was if there is none. *)
Said(list, cmd, was) ==
  IF HasCommand(list, cmd)
  THEN list[CHOOSE j \in DOMAIN list :
              /\ list[j].cmd = cmd
              /\ \A k \in DOMAIN list : list[k].cmd = cmd => k <= j].says
  ELSE was

d == CutDemos[idx]       \* the demo that "ctx" is set to

Put(f, v) == [f EXCEPT ![d] = v]

-----------------------------------------------------------------------------
(* getCurrentTime, in messages. *)
CurrentTime(r, start) == r.snap.messageNum - start

(* The message is lost. *)
Lose ==
  /\ loop \in {"parse", "read"}
  /\ serverMessageSequence[d] < FirstNumber[d] + MaxMessages[d] - 1
  /\ serverMessageSequence' = Put(serverMessageSequence, serverMessageSequence[d] + 1)
  /\ origin' = 0
  /\ UNCHANGED <<in, serverCommandSequence, lastExecutedServerCommand, commands,
                 configstring, lastTeamInfo, currentMap, levelStart, planVars,
                 firstServerCommand, framesSaved, idx, loop, outVars>>

(* The server codes a snapshot as a delta to one that the client has. *)
CanSend(m, span) ==
  /\ m < FirstNumber[d] + MaxMessages[d]
  /\ span > 0 => LET s == in[d].snapshots[SlotOf(m - span)]
                 IN  s.valid /\ s.messageNum = m - span

Parsed(m, w, span) ==
  IF span = NoSnapshot THEN in[d]
  ELSE ParseSnapshot(in[d], m, span,
         Delta(IF span = 0 THEN NoWorld
               ELSE in[d].snapshots[SlotOf(m - span)].world, w))

(* The commands that are not executed, with new ones.                      *)
Waiting(new) ==
  (IF lastExecutedServerCommand[d] > serverCommandSequence[d]
   THEN <<>> ELSE commands[d]) \o new

(* ReadNextMessageRaw, and ReadNextMessage up to the commands: a message   *)
(* with world w, coded span messages back, and the given new commands.     *)
ReadMessage(w, span, new) ==
  LET m == serverMessageSequence[d] + 1
  IN  /\ CanSend(m, span)
      /\ HasCommand(new, "serverid") => currentMap[d] < MaxMaps
      /\ serverMessageSequence' = Put(serverMessageSequence, m)
      /\ in' = Put(in, Parsed(m, w, span))
      /\ serverCommandSequence' =
           Put(serverCommandSequence, serverCommandSequence[d] + Len(new))
      /\ levelStart' =
           Put(levelStart, IF HasCommand(new, "serverid") THEN m - 1 ELSE levelStart[d])
      /\ UNCHANGED <<planVars, framesSaved, idx, outVars, origin>>

(* Of more commands than the ring holds the first ones are passed over.    *)
InReach(list) ==
  IF Len(list) - 1 > MaxReliableCommands
  THEN SubSeq(list, Len(list) - (MaxReliableCommands - FudgeFactor), Len(list))
  ELSE list

(* The commands that are run through, which are those that a message is    *)
(* written with: where some were passed over, from the first that is not   *)
(* empty on.                                                               *)
ToRun(list) ==
  LET reach == InReach(list)
      texts == {j \in DOMAIN reach : reach[j] # NoText}
  IN  IF Len(reach) = MaxReliableCommands - FudgeFactor + 1 /\ texts # {}
      THEN SubSeq(reach, CHOOSE j \in texts : \A k \in texts : j <= k, Len(reach))
      ELSE reach

(* Bound: in the ring is room for these and for those that a cut may begin *)
(* with (a configstring and a tinfo).                                      *)
HasRoom(list) == Len(list) + 2 <= MaxReliableCommands

(* The commands are run through, the newest one too.                       *)
RunCommands(new) ==
  /\ commands' = Put(commands, ToRun(Waiting(new)))
  /\ HasRoom(commands'[d])
  /\ firstServerCommand' =
       [firstServerCommand EXCEPT ![idx] =
          serverCommandSequence'[d] - Len(commands'[d]) + 1]
  /\ lastExecutedServerCommand' =
       Put(lastExecutedServerCommand, serverCommandSequence'[d] + 1)
  /\ configstring' = Put(configstring, Said(commands'[d], "cs", configstring[d]))
  /\ lastTeamInfo' = Put(lastTeamInfo, Said(commands'[d], "tinfo", lastTeamInfo[d]))
  /\ currentMap' = Put(currentMap,
       currentMap[d] + IF in[d].snap.valid /\ HasCommand(commands'[d], "serverid")
                       THEN 1 ELSE 0)

(* Before the demo's first snapshot a message is only parsed. *)
ReadEarly(w, span, new) ==
  /\ loop = "parse"
  /\ ReadMessage(w, span, new)
  /\ ~ in'[d].newSnapshots
  /\ commands' = Put(commands, Waiting(new))
  /\ UNCHANGED <<firstServerCommand, lastExecutedServerCommand, configstring,
                 lastTeamInfo, currentMap, loop>>

(* Is the start of the cut reached? *)
Started == /\ CurrentTime(in'[d], levelStart'[d]) > startMillis[idx]
           /\ currentMap'[d] >= targetMap[idx]

(* A step of ParseDemoContext. *)
ParseDemoContext(w, span, new) ==
  /\ loop = "parse"
  /\ ReadMessage(w, span, new)
  /\ in'[d].newSnapshots
  /\ RunCommands(new)
  /\ loop' = IF ~ Started THEN "parse" ELSE IF idx = 1 THEN "header" ELSE "write"

(* The message after one that was written. *)
ReadNextMessage(w, span, new) ==
  /\ loop = "read"
  /\ ReadMessage(w, span, new)
  /\ in'[d].newSnapshots
  /\ RunCommands(new)
  /\ loop' = "write"

(* The demo ends: nothing more is written, whatever cuts there are left. *)
NoMessage ==
  /\ loop \in {"parse", "read"}
  /\ loop' = IF loop = "parse" THEN "failed" ELSE "done"
  /\ UNCHANGED <<demoVars, planVars, firstServerCommand, framesSaved, idx,
                 outVars, origin>>

-----------------------------------------------------------------------------
(* writeDemoHeader, once: a gamestate, which is numbered one lower.        *)
WriteHeader ==
  /\ loop = "header"
  /\ outSequence' = serverMessageSequence[d]
  /\ outCommandSequence' = serverCommandSequence[d] - MaxReliableCommands + 1
  /\ outConfigstring' = configstring[d]
  /\ loop' = "write"
  /\ UNCHANGED <<demoVars, planVars, firstServerCommand, framesSaved, idx,
                 serverCommandOffset, out, outTeamInfo, due, origin>>

EndMillis == IF idx = Len(CutDemos) THEN 0 ELSE startMillis[idx + 1]

EndOfCut ==
  \/ EndMillis > 0 /\ CurrentTime(in[d], levelStart[d]) > EndMillis
  \/ currentMap[d] # targetMap[idx]

NextCut ==
  /\ loop = "write"
  /\ EndOfCut
  /\ IF idx = Len(CutDemos) THEN loop' = "done" /\ idx' = idx
     ELSE loop' = "parse" /\ idx' = idx + 1
  /\ UNCHANGED <<demoVars, planVars, firstServerCommand, framesSaved, outVars, origin>>

(* The output's reader is given commands from number first on: it takes    *)
(* those that are new to it.                                               *)
Hear(list, first) ==
  LET known == {j \in DOMAIN list : first + j - 1 <= outCommandSequence}
      new   == [j \in 1 .. Len(list) - Cardinality(known) |-> list[j + Cardinality(known)]]
  IN  /\ outCommandSequence' =
           IF new = <<>> THEN outCommandSequence ELSE first + Len(list) - 1
      /\ outConfigstring' = Said(new, "cs", outConfigstring)
      /\ outTeamInfo' = Said(new, "tinfo", outTeamInfo)

(* writeDeltaSnapshot: the last snapshot under the output's next number,   *)
(* and the given commands, the last of which is the newest of the demo.    *)
WriteDeltaSnapshot(list, forceNonDelta) ==
  LET span  == BaseDistance(in[d], forceNonDelta)
      snap  == in[d].snap
      base  == in[d].snapshots[SlotOf(snap.messageNum - span)]
      first == serverCommandSequence[d] - Len(list) + 1
  IN  /\ outSequence' = outSequence + 1
      /\ out' = ParseSnapshot(out, outSequence', span,
                   Delta(IF span = 0 THEN NoWorld ELSE base.world, snap.world))
      /\ firstServerCommand' = [firstServerCommand EXCEPT ![idx] = first]
      /\ Hear(list, first + serverCommandOffset')
      /\ due' = serverCommandSequence[d] + serverCommandOffset' + 1
      /\ framesSaved' = [framesSaved EXCEPT ![idx] = @ + 1]
      /\ loop' = "read"
      /\ UNCHANGED <<demoVars, planVars, idx>>

(* Does the snapshot find another base in the output?  It does if its base *)
(* lies before the cut, or if it stands for a later message that had none. *)
Misplaced ==
  LET span == BaseDistance(in[d], FALSE)
  IN  \/ span > 0 /\ in[d].snap.messageNum - span < origin
      \/ span > 1 /\ in[d].snap.messageNum < serverMessageSequence[d]

Write ==
  /\ loop = "write"
  /\ ~ EndOfCut
  /\ framesSaved[idx] > 0
  /\ serverCommandOffset' = serverCommandOffset
  /\ WriteDeltaSnapshot(commands[d], FALSE)
  /\ origin' = IF Misplaced THEN 0 ELSE origin

(* A mistake: a tinfo that the demo before had as well is not sent. *)
IntroductionOfNews ==
  IF idx = 1 THEN <<>>
  ELSE (IF configstring[d] # configstring[CutDemos[idx - 1]]
        THEN <<Cs(configstring[d])>> ELSE <<>>)
       \o (IF lastTeamInfo[d] # lastTeamInfo[CutDemos[idx - 1]]
           THEN <<TInfo(lastTeamInfo[d])>> ELSE <<>>)

(* What a later cut begins with: the configstring if it is not the one of  *)
(* the demo before, and the last tinfo.                                    *)
Introduction ==
  IF idx = 1 THEN <<>>
  ELSE (IF configstring[d] # configstring[CutDemos[idx - 1]]
        THEN <<Cs(configstring[d])>> ELSE <<>>)
       \o (IF lastTeamInfo[d] # NoString THEN <<TInfo(lastTeamInfo[d])>> ELSE <<>>)

(* A mistake: the commands that were put in front are not counted. *)
OffsetWithoutFront(list) ==
  IF idx = 1 THEN 0
  ELSE serverCommandOffset + firstServerCommand[idx - 1] - firstServerCommand[idx]

(* By how much a later cut's commands are shifted: its first one follows   *)
(* the last one written of the cut before, whose next one was read.        *)
OffsetFor(list) ==
  IF idx = 1 THEN 0
  ELSE serverCommandOffset + firstServerCommand[idx - 1]
         - (serverCommandSequence[d] - Len(list) + 1)

(* The first message of a cut. *)
Begin ==
  /\ loop = "write"
  /\ ~ EndOfCut
  /\ framesSaved[idx] = 0
  /\ serverCommandOffset' = OffsetFor(Introduction \o commands[d])
  /\ WriteDeltaSnapshot(Introduction \o commands[d], TRUE)
  /\ origin' = serverMessageSequence[d]

-----------------------------------------------------------------------------
Init ==
  /\ serverMessageSequence = [e \in Demos |-> FirstNumber[e] - 1]
  /\ in = [e \in Demos |-> ZeroReader]
  /\ serverCommandSequence = GamestateCommand
  /\ lastExecutedServerCommand = [e \in Demos |-> 0]
  /\ commands = [e \in Demos |-> [i \in 1 .. GamestateCommand[e] + 1 |-> NoText]]
  /\ configstring = [e \in Demos |-> FirstString]
  /\ lastTeamInfo = [e \in Demos |-> NoString]
  /\ currentMap = [e \in Demos |-> 0]
  /\ levelStart = [e \in Demos |-> FirstNumber[e] - 1]
  /\ startMillis \in [Cuts -> Times]
  /\ \A i, j \in Cuts : i < j => startMillis[i] < startMillis[j]
  /\ targetMap \in TargetMaps
  /\ firstServerCommand = [i \in Cuts |-> 0]
  /\ framesSaved = [i \in Cuts |-> 0]
  /\ idx = 1
  /\ loop = "parse"
  /\ outSequence = 0
  /\ serverCommandOffset = 0
  /\ out = ZeroReader
  /\ outCommandSequence = 0
  /\ outConfigstring = NoString
  /\ outTeamInfo = NoString
  /\ due = 0
  /\ origin = 0

Next ==
  \/ \E w \in Worlds, span \in NoSnapshot .. MaxSpan,
        new \in {<<>>} \cup {<<c>> : c \in NewTexts} :
       \/ ReadEarly(w, span, new)
       \/ ParseDemoContext(w, span, new)
       \/ ReadNextMessage(w, span, new)
  \/ Lose \/ NoMessage \/ WriteHeader \/ NextCut \/ Write \/ Begin

Spec == Init /\ [][Next]_vars

-----------------------------------------------------------------------------
JustWritten == loop = "read"

(* Whoever watches the output sees what the demo's reader saw: the reader   *)
(* of the output accepts every snapshot and gets its world, although the    *)
(* snapshots of the cut before lie in the same slots, numbers differ and a  *)
(* snapshot is written again for a message without one.  So it is from the  *)
(* start of a cut until a message of the demo is missing or a base is       *)
(* Misplaced: the distance to the base is the one in the demo.              *)
OutputExact ==
  JustWritten /\ origin > 0 =>
    /\ out.snap.messageNum = outSequence
    /\ out.snap.world = in[d].snap.world

(* The commands of the output are numbered without a gap or an overlap,    *)
(* where cuts meet too ("needed to keep sequencing", demo_merger.cpp:205): *)
(* the output's reader takes every one.  So it is as long as no cut was    *)
(* passed over without a message, which OffsetFor does not allow for.      *)
CommandsFollow ==
  [][/\ JustWritten' /\ loop = "write"
     /\ idx > 1 \/ framesSaved[1] > 0
     /\ \A i \in 1 .. idx - 1 : framesSaved[i] > 0
     => /\ firstServerCommand'[idx] + serverCommandOffset' = due
        /\ outCommandSequence < due]_vars

(* From a later cut on, the viewer's team info is the last one of the demo *)
(* shown ("send the last tinfo update if we have one"), even where the cut *)
(* was switched to between two updates.                                    *)
TeamInfoExact ==
  /\ JustWritten /\ idx > 1 /\ lastTeamInfo[d] # NoString
  /\ \A i \in 1 .. idx - 1 : framesSaved[i] > 0
  => outTeamInfo = lastTeamInfo[d]

(* The viewer's configstrings are those of the demo shown, when the cut    *)
(* before was written and of another demo ("configstrings might need to    *)
(* change", demo_merger.cpp:240).                                          *)
ConfigstringExact ==
  /\ JustWritten
  /\ \A i \in 1 .. idx - 1 : framesSaved[i] > 0 /\ CutDemos[i] # CutDemos[i + 1]
  => outConfigstring = configstring[d]
=============================================================================
