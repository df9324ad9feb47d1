---------------------------- MODULE CommandMerge ----------------------------
(***************************************************************************)
(* Server commands through the demo combiner and the demo splitter: the    *)
(* loops over new commands in RunMerge (src/DemoCombiner/demo_combiner.cpp)*)
(* and RunSplit (src/DemoSplitter/demo_splitter.cpp), one command a step   *)
(* in the combiner, one frame a step in the splitter.                      *)
(*                                                                         *)
(* In every frame the combiner merges the new commands of the demos that   *)
(* have the frame into one list.  A command equal to one that is already   *)
(* in the frame is shared: a bit mask says whose it is.  Any other command *)
(* is inserted after the last command of the same demo, and those behind   *)
(* it move up.  The splitter hands each client the commands with its bit.  *)
(*                                                                         *)
(* The server (external) issues a command to some of the clients; a client *)
(* that misses a frame gets its commands with the next one.  Commands are  *)
(* not empty: an empty one is skipped by the combiner.                     *)
(***************************************************************************)
EXTENDS Integers, Sequences, FiniteSets, SequencesExt, FiniteSetsExt

CONSTANTS
  Clients,      \* client numbers, one demo each, in the order of the demos
  Texts,        \* what a command can say
  Recipients,   \* the sets of clients a command can be issued to
  Repeats,      \* TRUE: the server may issue the same text again
  MaxReliable,  \* MAX_RELIABLE_COMMANDS (128)
  Fudge,        \* 10: what the splitter drops besides, when it has to
  MaxPerFrame,  \* bound: commands that the demos of one frame have new
  MaxIssued,    \* bound: commands issued
  MaxFrames     \* bound: frames

ASSUME CommandAssumption ==
  /\ Clients \subseteq Nat /\ IsFiniteSet(Clients)
  /\ Recipients \subseteq SUBSET Clients
  /\ MaxReliable \in Nat \ {0} /\ Fudge \in 0 .. MaxReliable
  /\ {MaxPerFrame, MaxIssued, MaxFrames} \subseteq Nat
  /\ Repeats \in BOOLEAN

VARIABLES
  \* The server and the demos read.
  issued,     \* the commands issued: [text, mask]
  seen,       \* client -> how many of these its demo has got past
  \* The combiner.
  serverCommands,             \* ring of the last commands
  serverCommandBitmask,       \* ring of the clients they are for
  serverCommandSequence,      \* the number of the last command
  lastExecutedServerCommand,  \* where the next frame starts
  serverCommandSyncIdx,       \* client -> behind its last command
  matchedClients,             \* the clients whose demos have this frame
  matches,                    \* those of them still to be merged, in order
  fresh,                      \* client -> its new commands in this frame
  commandNum,                 \* how many of the first match's are merged
  curCommand,                 \* where the next one is inserted
  firstServerCommand,         \* where this frame starts
  \* The merged demo and the splitter.
  file,                 \* frames written: [matched, commands]
  framesRead,
  splitRing,            \* ring of the last commands: [seq, text, mask]
  splitSequence,        \* its serverCommandSequence
  splitLastExecuted,    \* its lastExecutedServerCommand
  split                 \* client -> the commands of its new demo

serverVars == <<issued, seen>>
ringVars == <<serverCommands, serverCommandBitmask, serverCommandSequence,
              lastExecutedServerCommand, serverCommandSyncIdx>>
frameVars == <<matchedClients, matches, fresh, commandNum, curCommand,
               firstServerCommand>>
splitVars == <<framesRead, splitRing, splitSequence, splitLastExecuted, split>>
vars == <<serverVars, ringVars, frameVars, file, splitVars>>

Slots == 0 .. MaxReliable - 1
Slot(k) == k % MaxReliable

NoText == ""
Merging == matches # <<>>
TextAt(k) == serverCommands[Slot(k)]
MaskAt(k) == serverCommandBitmask[Slot(k)]

(* The texts of the commands of a list that are for client c, in order.    *)
TextsFor(list, c) ==
  LET upTo[i \in 0 .. Len(list)] ==
        IF i = 0 THEN <<>>
        ELSE IF c \in list[i].mask THEN Append(upTo[i - 1], list[i].text)
        ELSE upTo[i - 1]
  IN  upTo[Len(list)]

(* The texts issued to client c, from the (m + 1)st command to the n-th.   *)
IssuedTo(c, m, n) == TextsFor(SubSeq(issued, m + 1, n), c)

Pending(c) == IssuedTo(c, seen[c], Len(issued))

-----------------------------------------------------------------------------
(* The server. *)

Issue(text, to) ==
  /\ ~ Merging
  /\ Len(issued) < MaxIssued
  /\ Repeats \/ \A i \in DOMAIN issued : issued[i].text # text
  /\ issued' = Append(issued, [text |-> text, mask |-> to])
  /\ UNCHANGED <<seen, ringVars, frameVars, file, splitVars>>

-----------------------------------------------------------------------------
(* The combiner. *)

(* The clients of a set, in the order of their demos. *)
Orders(clients) ==
  {order \in [1 .. Cardinality(clients) -> clients] :
     /\ Range(order) = clients
     /\ \A i, j \in DOMAIN order : i < j => order[i] < order[j]}

(* How many commands the clients of a list have, new[c] being those of c.  *)
HowMany(list, new) ==
  LET upTo[i \in 0 .. Len(list)] ==
        IF i = 0 THEN 0 ELSE upTo[i - 1] + Len(new[list[i]])
  IN  upTo[Len(list)]

(* The next frame is the one that the demos in matched have.  No client    *)
(* can have more than MaxReliable commands outstanding: the server drops   *)
(* it.                                                                     *)
StartFrame(matched) ==
  /\ ~ Merging
  /\ Len(file) < MaxFrames
  /\ \A c \in matched : Len(Pending(c)) <= MaxReliable
  /\ matchedClients' = matched
  /\ matches' \in Orders(matched)
  /\ fresh' = [c \in Clients |-> IF c \in matched THEN Pending(c) ELSE <<>>]
  /\ HowMany(matches', fresh') <= MaxPerFrame
  /\ seen' = [c \in Clients |->
                IF c \in matched THEN Len(issued) ELSE seen[c]]
  /\ firstServerCommand' = lastExecutedServerCommand
  /\ curCommand' = lastExecutedServerCommand
  /\ commandNum' = 0
  /\ UNCHANGED <<issued, ringVars, file, splitVars>>

Client == Head(matches)
Command == fresh[Client][commandNum + 1]
MoreCommands == Merging /\ commandNum < Len(fresh[Client])

(* Where the search for a command starts. *)
SearchStart == Max({firstServerCommand, serverCommandSyncIdx[Client]})

(* Mistakes: the last command is not searched; one too many is. *)
PlacesShort ==
  {k \in SearchStart .. serverCommandSequence - 1 : TextAt(k) = Command}
PlacesLong ==
  {k \in SearchStart .. serverCommandSequence + 1 : TextAt(k) = Command}

(* Where the command being merged is already. *)
Places == {k \in SearchStart .. serverCommandSequence : TextAt(k) = Command}

(* The command ends up at k, and the next one comes behind it. *)
PlacedAt(k) ==
  /\ curCommand' = k + 1
  /\ serverCommandSyncIdx' = [serverCommandSyncIdx EXCEPT ![Client] = k + 1]
  /\ commandNum' = commandNum + 1
  /\ UNCHANGED <<serverVars, matchedClients, matches, fresh, firstServerCommand,
                 file, splitVars>>

(* The command is there already. *)
Share ==
  /\ MoreCommands
  /\ Places # {}
  /\ LET k == Min(Places)
     IN  /\ serverCommandBitmask' =
              [serverCommandBitmask EXCEPT ![Slot(k)] = @ \cup {Client}]
         /\ PlacedAt(k)
  /\ UNCHANGED <<serverCommands, serverCommandSequence,
                 lastExecutedServerCommand>>

(* A mistake: the entries behind are overwritten. *)
ShiftNone(ring, k) == ring

(* Move the entries of a ring from k on up by one, the last one first. *)
ShiftUp(ring, k) ==
  LET n == serverCommandSequence + 1
      moved[i \in 0 .. n - k] ==
        IF i = 0 THEN ring
        ELSE LET r == moved[i - 1]
             IN  [r EXCEPT ![Slot(n + 1 - i)] = r[Slot(n - i)]]
  IN  moved[n - k]

(* Insert the command at curCommand; the others' masks are then masks.     *)
InsertWith(masks) ==
  /\ MoreCommands
  /\ Places = {}
  /\ serverCommandSequence' = serverCommandSequence + 1
  /\ lastExecutedServerCommand' = lastExecutedServerCommand + 1
  /\ serverCommands' =
       [ShiftUp(serverCommands, curCommand) EXCEPT ![Slot(curCommand)] = Command]
  /\ serverCommandBitmask' = [masks EXCEPT ![Slot(curCommand)] = {Client}]
  /\ PlacedAt(curCommand)

(* A mistake: the masks stay behind when the commands move. *)
MasksStay == InsertWith(serverCommandBitmask)

(* It is a new command. *)
Insert == InsertWith(ShiftUp(serverCommandBitmask, curCommand))

(* All commands of a demo are merged; the next demo starts over. *)
NextMatch ==
  /\ Len(matches) > 1
  /\ ~ MoreCommands
  /\ matches' = Tail(matches)
  /\ commandNum' = 0
  /\ curCommand' = firstServerCommand
  /\ UNCHANGED <<serverVars, ringVars, matchedClients, fresh, firstServerCommand,
                 file, splitVars>>

(* The commands of the frame, so far. *)
FrameCommands ==
  [i \in 1 .. serverCommandSequence + 1 - firstServerCommand |->
     LET k == firstServerCommand + i - 1
     IN  [seq |-> k, text |-> TextAt(k), mask |-> MaskAt(k)]]

(* All demos are merged, and the frame is written with its commands.       *)
WriteFrame ==
  /\ Len(matches) = 1
  /\ ~ MoreCommands
  /\ matches' = <<>>
  /\ file' = Append(file, [matched |-> matchedClients, commands |-> FrameCommands])
  /\ fresh' = [c \in Clients |-> <<>>]
  /\ commandNum' = 0
  /\ UNCHANGED <<serverVars, ringVars, matchedClients, curCommand,
                 firstServerCommand, splitVars>>

-----------------------------------------------------------------------------
(* The splitter. *)

(* A ring with commands stored in it, the last one where two share a slot. *)
Stored(ring, commands) ==
  [s \in Slots |->
     LET here == {x \in Range(commands) : Slot(x.seq) = s}
     IN  IF here = {} THEN ring[s]
         ELSE CHOOSE x \in here : \A y \in here : y.seq <= x.seq]

(* The commands of a frame are stored, and those not executed yet are      *)
(* handed to the clients that have the frame and are in their masks.       *)
SplitFrame ==
  LET frame == file[framesRead + 1]
      ring  == Stored(splitRing, frame.commands)
      last  == IF frame.commands = <<>> THEN splitSequence
               ELSE Last(frame.commands).seq
      first == IF last - splitLastExecuted > MaxReliable
               THEN last - MaxReliable + Fudge ELSE splitLastExecuted
      executed == [i \in 1 .. last + 1 - first |-> ring[Slot(first + i - 1)]]
  IN  /\ framesRead < Len(file)
      /\ framesRead' = framesRead + 1
      /\ splitRing' = ring
      /\ splitSequence' = last
      /\ splitLastExecuted' = last + 1
      /\ split' = [c \in Clients |->
                     IF c \in frame.matched THEN split[c] \o TextsFor(executed, c)
                     ELSE split[c]]
      /\ UNCHANGED <<serverVars, ringVars, frameVars, file>>

Init ==
  /\ issued = <<>>
  /\ seen = [c \in Clients |-> 0]
  /\ serverCommands = [s \in Slots |-> NoText]
  /\ serverCommandBitmask = [s \in Slots |-> {}]
  /\ serverCommandSequence = -1
  /\ lastExecutedServerCommand = 0
  /\ serverCommandSyncIdx = [c \in Clients |-> 0]
  /\ matchedClients = {}
  /\ matches = <<>>
  /\ fresh = [c \in Clients |-> <<>>]
  /\ commandNum = 0
  /\ curCommand = 0
  /\ firstServerCommand = 0
  /\ file = <<>>
  /\ framesRead = 0
  /\ splitRing = [s \in Slots |-> [seq |-> 0, text |-> NoText, mask |-> {}]]
  /\ splitSequence = -1
  /\ splitLastExecuted = 0
  /\ split = [c \in Clients |-> <<>>]

Combine == Share \/ Insert \/ NextMatch \/ WriteFrame

Next ==
  \/ \E text \in Texts, to \in Recipients : Issue(text, to)
  \/ \E matched \in (SUBSET Clients) \ {{}} : StartFrame(matched)
  \/ Combine
  \/ SplitFrame

(* Both programs are loops that run until their input ends: they take     *)
(* their next step whenever they can.                                     *)
Spec == Init /\ [][Next]_vars /\ WF_vars(Combine) /\ WF_vars(SplitFrame)

-----------------------------------------------------------------------------
TextLists == Seq(Texts)

TypeOK ==
  /\ serverCommands \in [Slots -> Texts \cup {NoText}]
  /\ serverCommandBitmask \in [Slots -> SUBSET Clients]
  /\ serverCommandSequence >= -1
  /\ lastExecutedServerCommand = serverCommandSequence + 1
  /\ \A c \in Clients :
       serverCommandSyncIdx[c] \in 0 .. serverCommandSequence + 1
  /\ matchedClients \subseteq Clients
  /\ \A i \in DOMAIN matches : matches[i] \in matchedClients
  /\ \A c \in Clients : fresh[c] \in TextLists /\ split[c] \in TextLists
  /\ framesRead \in 0 .. Len(file)
  /\ splitLastExecuted = splitSequence + 1

(* The commands of this frame that have the bit of client c, in order.     *)
Handed(c) == TextsFor(FrameCommands, c)

(* How many of its new commands in this frame are merged for client c.     *)
Merged(c) == CASE c = Client -> commandNum
               [] c \in Range(Tail(matches)) -> 0
               [] OTHER -> Len(fresh[c])

(* What the demos of one frame have new fits into the ring.  RunMerge does *)
(* not check it: it holds for any one demo.                                *)
FrameFits == MaxPerFrame <= MaxReliable

(* While a frame is being merged, every demo merged so far finds exactly   *)
(* its own commands behind its bit, in its own order, whatever the demos   *)
(* merged after it shared, put between them or moved: the search for a     *)
(* place in RunMerge.                                                      *)
MergedInOrder ==
  Merging => \A c \in matchedClients :
               Handed(c) = SubSeq(fresh[c], 1, Merged(c))

TextsDiffer == \A j, k \in DOMAIN issued : issued[j].text = issued[k].text => j = k
OneOrAll ==
  \A k \in DOMAIN issued : issued[k].mask \in {Clients} \cup {{c} : c \in Clients}

(* As long as texts do not repeat and commands are for one client or for   *)
(* all, a frame holds a command once that was issued to everybody, even    *)
(* when the demos have it with different commands before it ("search for   *)
(* place to insert it" in RunMerge).                                       *)
BroadcastOnce ==
  Merging /\ TextsDiffer /\ OneOrAll =>
    \A i, j \in firstServerCommand .. serverCommandSequence :
      (TextAt(i) = TextAt(j)
         /\ \E k \in DOMAIN issued :
              issued[k].text = TextAt(i) /\ issued[k].mask = Clients) => i = j

(* "write bitmask of who should get this command" (the merged writer): a   *)
(* client is handed the commands of its demo and no others.                *)
SplitExact ==
  \A c \in Clients : IsPrefix(split[c], IssuedTo(c, 0, seen[c]))

(* Merging and splitting implements a relay of each demo's commands that   *)
(* hands on all of them.                                                   *)
Relay == INSTANCE CommandRelay
           WITH held <- [c \in Clients |-> IssuedTo(c, 0, seen[c])],
                handed <- split
RelaySpec == Relay!Spec
=============================================================================
