------------------------------ MODULE Trimmer ------------------------------
(***************************************************************************)
(* The trimmer: the loop of src/DemoTrimmer/demo_trimmer.cpp and the       *)
(* writer of src/DemoTrimmer/demo_utils.cpp.  It reads a demo, and from    *)
(* startTime to endTime writes what it read: a gamestate, a snapshot that  *)
(* is delta coded from nothing, some snapshots coded anew, and then the    *)
(* messages as they came.                                                  *)
(*                                                                         *)
(* What was written is judged by a second reader, for which the output is  *)
(* a demo like any other.  It reads each message as it is written.         *)
(*                                                                         *)
(* Server, network and client are external: the server sends messages with *)
(* or without a snapshot, codes a snapshot as a delta to one the client    *)
(* acknowledged, and repeats commands the client may not have seen.  Time  *)
(* is counted in messages.  Reliable commands are their numbers; those up   *)
(* to the one that the demo's gamestate names were never in the demo.      *)
(***************************************************************************)
EXTENDS Integers, FiniteSets, SnapshotSlots

CONSTANTS
  RewriteFrames,        \* 10: frames always coded anew after the first
  MaxReliableCommands,  \* MAX_RELIABLE_COMMANDS (128): commands a reader keeps
  GamestateCommand,     \* the command number in the demo's gamestate
  Worlds,               \* the worlds there can be
  MaxSpan,              \* bound: how far the base of a snapshot lies back
  MaxNewCommands,       \* bound: commands in a message that are new to the client
  MaxMessages           \* bound: messages sent

ASSUME TrimmerAssumption ==
  /\ RewriteFrames \in Nat
  /\ MaxReliableCommands \in Nat \ {0, 1}
  /\ GamestateCommand \in Nat
  /\ \A w \in Worlds : IsWorld(w)
  /\ MaxSpan \in Nat /\ MaxNewCommands \in Nat /\ MaxMessages \in Nat

VARIABLES
  \* Server and network.
  sent,                      \* message number -> world, the last sent
  acked,                     \* messages whose snapshot the client stored
  serverMessageSequence,     \* clc.serverMessageSequence of the last message
  issued,                    \* number of the last command
  \* The trimmer.
  msg,                       \* the message that was read
  in,                        \* its reader
  serverCommandSequence,     \* clc.serverCommandSequence
  lastExecutedServerCommand, \* clc.lastExecutedServerCommand
  startTime, endTime,
  framesSaved,
  loop,                      \* "read", "write" or "done"
  \* The reader of the output.
  out,
  outCommandSequence,        \* its clc.serverCommandSequence
  outCommands,               \* commands it was given, in a gamestate or one
                             \* by one
  last                       \* the last message written: how it was written
                             \* and the world the trimmer saw then

serverVars == <<sent, acked, serverMessageSequence, issued>>
inputVars == <<msg, in, serverCommandSequence, startTime, endTime>>
outVars == <<out, outCommandSequence, outCommands, last>>
vars == <<serverVars, inputVars, lastExecutedServerCommand, framesSaved, loop,
          outVars>>

NoSnapshot == -1             \* msg.span of a message without a snapshot

NoMsg == [span |-> NoSnapshot, delta |-> Delta(NoWorld, NoWorld), from |-> 1]

Window(m) == {k \in 1 .. m : k > m - PacketBackup}

-----------------------------------------------------------------------------
(* A reader of commands that is at number seq and gets those in range:     *)
(* it takes the ones it does not have yet.                                 *)
Taken(seq, range) == {c \in range : c > seq}
After(seq, range) == IF Taken(seq, range) = {} THEN seq
                     ELSE CHOOSE c \in range : \A d \in range : d <= c

(* The last command that the trimmer has run through, or had no need to.   *)
LastRun == IF lastExecutedServerCommand > GamestateCommand
           THEN lastExecutedServerCommand ELSE GamestateCommand

(* The server sends the next message with world w, after k commands.  No   *)
(* more are on their way than the ring holds.                              *)
Send(w, k) ==
  LET m == serverMessageSequence + 1
  IN  /\ loop = "read"
      /\ m <= MaxMessages
      /\ serverMessageSequence' = m
      /\ issued' = issued + k
      /\ issued' - serverCommandSequence <= MaxNewCommands
      /\ issued' - LastRun <= MaxReliableCommands
      /\ sent' = [n \in Window(m) |-> IF n = m THEN w ELSE sent[n]]

(* The message is lost. *)
Lose(w, k) ==
  /\ Send(w, k)
  /\ acked' = acked \cap Window(serverMessageSequence')
  /\ UNCHANGED <<inputVars, lastExecutedServerCommand, framesSaved, loop, outVars>>

(* CL_ReadDemoMessage and CL_ParseServerMessage: the message holds the     *)
(* commands from the given one on, as many as the server's ring may have,  *)
(* and a snapshot coded span messages back (0: from nothing).              *)
Read(w, k, span, from) ==
  LET m == serverMessageSequence + 1
  IN  /\ Send(w, k)
      /\ from \in 1 .. serverCommandSequence + 1
      /\ issued' - from < MaxReliableCommands
      /\ span > 0 => m - span \in acked \cap Window(m)
      /\ msg' = [span |-> span, from |-> from,
                 delta |-> Delta(IF span > 0 THEN sent[m - span] ELSE NoWorld,
                                 IF span = NoSnapshot THEN NoWorld ELSE w)]
      /\ serverCommandSequence' = After(serverCommandSequence, from .. issued')
      /\ in' = IF span = NoSnapshot THEN in
               ELSE ParseSnapshot(in, m, span, msg'.delta)
      /\ acked' = (acked \cup (IF in'.snap.messageNum = m THEN {m} ELSE {}))
                    \cap Window(m)
      /\ loop' = "write"
      /\ UNCHANGED <<startTime, endTime, lastExecutedServerCommand,
                     framesSaved, outVars>>

-----------------------------------------------------------------------------
(* The commands the trimmer runs through: all but the newest, which is left *)
(* for the next message.                                                    *)
Executed == lastExecutedServerCommand .. serverCommandSequence - 1

(* Is there a command in the slot of c?  It may be a newer one; before the *)
(* demo's own commands come the slots are empty.                           *)
SlotUsed(c) ==
  \E n \in GamestateCommand + 1 .. serverCommandSequence :
    n % MaxReliableCommands = c % MaxReliableCommands

(* A mistake: the newest command is the first that is written.             *)
NewestOnly == serverCommandSequence

(* The first command that is written with a snapshot: the last one run     *)
(* through that was not empty.                                             *)
FirstServerCommand ==
  LET found == {c \in Executed : SlotUsed(c)}
  IN  IF found = {} THEN lastExecutedServerCommand
      ELSE CHOOSE c \in found : \A e \in found : e <= c

(* A mistake: the newest command is counted as run through. *)
TurnPast ==
  /\ loop = "write"
  /\ in.newSnapshots
  /\ lastExecutedServerCommand' = serverCommandSequence + 1
  /\ UNCHANGED <<serverVars, inputVars>>

(* A message was read, and a snapshot with it or before it. *)
Turn ==
  /\ loop = "write"
  /\ in.newSnapshots
  /\ lastExecutedServerCommand' = IF Executed = {} THEN lastExecutedServerCommand
                                  ELSE serverCommandSequence
  /\ UNCHANGED <<serverVars, inputVars>>

Now == in.snap.messageNum

(* How far back the base of the written snapshot lies, be that before the  *)
(* cut.                                                                    *)
LastFrame(forceNonDelta) == BaseDistance(in, forceNonDelta)

(* The output's reader is given a message: commands in range, and a        *)
(* snapshot.  Before it was at command seq and knew of those in known.     *)
Put(how, seq, known, range, span, delta) ==
  /\ out' = IF span = NoSnapshot THEN [out EXCEPT !.baseInvalid = FALSE]
            ELSE ParseSnapshot(out, serverMessageSequence, span, delta)
  /\ outCommandSequence' = After(seq, range)
  /\ outCommands' = known \cup Taken(seq, range)
  /\ last' = [how |-> how, messageNum |-> serverMessageSequence,
              world |-> in.snap.world]
  /\ framesSaved' = framesSaved + 1
  /\ loop' = "read"

(* A mistake: a base is named, and the entities are coded from nothing. *)
WriteFromNothing(seq, known, forceNonDelta) ==
  Put("coded", seq, known, FirstServerCommand .. serverCommandSequence,
      LastFrame(forceNonDelta), Delta(NoWorld, in.snap.world))

(* writeDeltaSnapshot: the last snapshot, under the number of the message  *)
(* that was read last.                                                     *)
WriteDeltaSnapshot(seq, known, forceNonDelta) ==
  LET span == LastFrame(forceNonDelta)
      base == in.snapshots[SlotOf(in.snap.messageNum - span)]
  IN  Put("coded", seq, known, FirstServerCommand .. serverCommandSequence, span,
          Delta(IF span = 0 THEN NoWorld ELSE base.world, in.snap.world))

(* A mistake: the gamestate is numbered with the commands it comes after.  *)
HeaderAtEnd == serverCommandSequence

(* The command number in the gamestate of the output: low enough that the  *)
(* commands of the first snapshot are taken.                               *)
HeaderSequence == serverCommandSequence - MaxReliableCommands + 1

(* A mistake: messages are copied however far back they refer. *)
CopyAfterFew == framesSaved > RewriteFrames

(* Is the message written as it came? *)
CopiedNow == /\ framesSaved > RewriteFrames
             /\ framesSaved > in.snap.messageNum - in.snap.deltaNum

(* No snapshot was seen yet, and nothing happens, not even to commands. *)
Skip ==
  /\ loop = "write"
  /\ ~ in.newSnapshots
  /\ loop' = "read"
  /\ UNCHANGED <<serverVars, inputVars, lastExecutedServerCommand, framesSaved,
                 outVars>>

Finish ==
  /\ Turn
  /\ Now > endTime
  /\ loop' = "done"
  /\ UNCHANGED <<framesSaved, outVars>>

Copy ==
  /\ Turn
  /\ Now <= endTime
  /\ framesSaved > 0
  /\ CopiedNow
  /\ Put("copied", outCommandSequence, outCommands, msg.from .. issued,
         msg.span, msg.delta)

Rewrite ==
  /\ Turn
  /\ Now <= endTime
  /\ framesSaved > 0
  /\ ~ CopiedNow
  /\ WriteDeltaSnapshot(outCommandSequence, outCommands, FALSE)

(* The gamestate, which holds what commands changed that were run through, *)
(* and the first snapshot.                                                 *)
Begin ==
  /\ Turn
  /\ framesSaved = 0
  /\ Now <= endTime /\ Now > startTime
  /\ WriteDeltaSnapshot(HeaderSequence, 1 .. lastExecutedServerCommand' - 1, TRUE)

Wait ==
  /\ Turn
  /\ framesSaved = 0
  /\ Now <= endTime /\ Now <= startTime
  /\ loop' = "read"
  /\ UNCHANGED <<framesSaved, outVars>>

-----------------------------------------------------------------------------
Init ==
  /\ sent = [n \in {} |-> NoWorld]
  /\ acked = {}
  /\ serverMessageSequence = 0
  /\ issued = GamestateCommand
  /\ msg = NoMsg
  /\ in = ZeroReader
  /\ serverCommandSequence = GamestateCommand
  /\ lastExecutedServerCommand = 0
  /\ startTime \in 0 .. MaxMessages
  /\ endTime \in 0 .. MaxMessages
  /\ framesSaved = 0
  /\ loop = "read"
  /\ out = ZeroReader
  /\ outCommandSequence = 0
  /\ outCommands = {}
  /\ last = [how |-> "none", messageNum |-> 0, world |-> NoWorld]

Next ==
  \/ \E w \in Worlds, k \in 0 .. MaxNewCommands : Lose(w, k)
  \/ \E w \in Worlds, k \in 0 .. MaxNewCommands, span \in NoSnapshot .. MaxSpan,
        from \in 1 .. serverCommandSequence + 1 : Read(w, k, span, from)
  \/ Skip \/ Finish \/ Copy \/ Rewrite \/ Begin \/ Wait

Spec == Init /\ [][Next]_vars

-----------------------------------------------------------------------------
SomeWorlds == {r.world : r \in {in.snap, out.snap, last}}

TypeOK ==
  /\ serverMessageSequence \in 0 .. MaxMessages
  /\ DOMAIN sent = Window(serverMessageSequence) /\ acked \subseteq DOMAIN sent
  /\ serverCommandSequence \in 0 .. issued
  /\ lastExecutedServerCommand \in 0 .. serverCommandSequence
  /\ \A w \in SomeWorlds : IsWorld(w)
  /\ outCommandSequence \in Int /\ outCommands \subseteq 0 .. issued
  /\ framesSaved \in 0 .. MaxMessages
  /\ loop \in {"read", "write", "done"}
  /\ last.how \in {"none", "coded", "copied"}

(* Whoever watches the output sees what the trimmer saw: a snapshot that    *)
(* the output's reader accepts holds the world of the snapshot it was       *)
(* written for, although its base, its number and its coding differ         *)
(* ("the rest should just work.  in theory", demo_trimmer.cpp), as long as  *)
(* none was a delta to a base that the output's reader does not have.  The  *)
(* exception is a snapshot that is written again for a message without one  *)
(* and has a base further back than the message before: its base then lies  *)
(* at another message.                                                      *)
OutputExact ==
  /\ loop = "read" /\ framesSaved > 0
  /\ last.messageNum = out.snap.messageNum /\ ~ out.anyInvalid
  /\ Now = last.messageNum \/ LastFrame(FALSE) <= 1
  => out.snap.world = last.world

(* A command is missing from the output only if it came with two newer     *)
(* ones in a message that was coded anew (of the commands run through the  *)
(* loop in main keeps the last).  The gamestate and the first message of   *)
(* the cut make up for all before, a copied message brings all that are    *)
(* new, and whatever is missing, the output's reader is at the command     *)
(* that the demo's reader is at, so that the next message is not taken for *)
(* an old one.                                                             *)
LostOnlyInBulk ==
  [][loop = "write" /\ framesSaved' > framesSaved =>
     /\ outCommandSequence' = serverCommandSequence
     /\ \A c \in 1 .. serverCommandSequence :
          \/ c \in outCommands'
          \/ framesSaved > 0 /\ c \notin outCommands /\ c <= lastExecutedServerCommand
          \/ /\ framesSaved > 0 /\ last'.how = "coded"
             /\ lastExecutedServerCommand < c /\ c < serverCommandSequence - 1]_vars

(* A message is written as it came only when the output has its base: main  *)
(* counts frames, and messages may be missing or hold no snapshot.          *)
CopiedBaseKnown == last.how = "copied" => ~ out.baseInvalid
=============================================================================
