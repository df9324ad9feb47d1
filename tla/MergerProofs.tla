---------------------------- MODULE MergerProofs ----------------------------
(***************************************************************************)
(* For any list of cuts of any demos, any messages and losses: the         *)
(* commands of the merged demo are numbered without a gap or an overlap,   *)
(* within a cut and where two cuts meet, as long as every cut before was   *)
(* written; its viewer sees the worlds that the demos' own readers saw and *)
(* has the team info of the demo shown.  What is said about worlds needs   *)
(* what is said about numbers only for which cuts were written.            *)
(***************************************************************************)
EXTENDS Merger, SlotProofs, SequenceTheorems

Heard == NewTexts \cup {NoText}

CommandTypes ==
  /\ idx \in Cuts
  /\ loop \in {"parse", "header", "write", "read", "done", "failed"}
  /\ serverCommandSequence \in [Demos -> Int]
  /\ lastExecutedServerCommand \in [Demos -> Int]
  /\ commands \in [Demos -> Seq(Heard)]
  /\ firstServerCommand \in [Cuts -> Int]
  /\ framesSaved \in [Cuts -> Nat]
  /\ serverCommandOffset \in Int /\ outCommandSequence \in Int /\ due \in Int

(* Of the commands that were not run through, none is missing. *)
Pending ==
  \A e \in Demos :
    /\ lastExecutedServerCommand[e] <= serverCommandSequence[e] + 1
    /\ lastExecutedServerCommand[e] <= serverCommandSequence[e] =>
         Len(commands[e]) = serverCommandSequence[e] - lastExecutedServerCommand[e] + 1

(* A message that is to be written brings all from firstServerCommand on;  *)
(* afterwards nothing is left to run through.                              *)
ToWrite ==
  /\ loop \in {"header", "write"} =>
       Len(commands[d]) = serverCommandSequence[d] - firstServerCommand[idx] + 1
  /\ loop \in {"header", "write", "read"} =>
       lastExecutedServerCommand[d] = serverCommandSequence[d] + 1

(* Which cuts were written. *)
Frames ==
  /\ loop \in {"parse", "header"} => framesSaved[idx] = 0
  /\ loop = "read" => framesSaved[idx] > 0
  /\ \A i \in Cuts : i > idx => framesSaved[i] = 0

(* The first cut is not shifted, and the gamestate's number is low. *)
FirstCut ==
  /\ loop = "header" => idx = 1
  /\ idx = 1 => serverCommandOffset = 0
  /\ idx = 1 /\ framesSaved[1] = 0 /\ loop = "write" =>
       outCommandSequence <= serverCommandSequence[d]

(* Where the next command belongs: in the cut at work, ...                 *)
InCut ==
  framesSaved[idx] > 0 =>
    /\ loop = "write" => firstServerCommand[idx] + serverCommandOffset = due
    /\ loop = "read" => serverCommandSequence[d] + 1 + serverCommandOffset = due

(* ... and after the cut before.  Nothing that was written lies behind it. *)
BetweenCuts ==
  idx > 1 /\ framesSaved[idx] = 0 /\ framesSaved[idx - 1] > 0 =>
    firstServerCommand[idx - 1] + serverCommandOffset = due

AllWritten == /\ idx > 1 \/ framesSaved[1] > 0
              /\ \A i \in 1 .. idx - 1 : framesSaved[i] > 0

NothingAhead == AllWritten => outCommandSequence < due

NumberInv == /\ CommandTypes /\ Pending /\ ToWrite /\ Frames /\ FirstCut
             /\ InCut /\ BetweenCuts /\ NothingAhead

-----------------------------------------------------------------------------
NewLists == {<<>>} \cup {<<c>> : c \in NewTexts}

(* The cut that is written is one of the list, and its demo one of the *)
(* demos. *)
LEMMA DemoAtWork ==
  ASSUME CommandTypes
  PROVE  d \in Demos /\ idx \in 1 .. Len(CutDemos)
BY MergerAssumption, SMTT(30) DEF CommandTypes, d, Cuts

(* What is new in a message is a list of commands. *)
LEMMA NewListsHeard ==
  ASSUME NEW new \in NewLists
  PROVE  new \in Seq(Heard) /\ Len(new) \in Nat
<1>1. CASE new = <<>>
  BY <1>1
<1>2. CASE \E c \in NewTexts : new = <<c>>
  <2>1. PICK c \in NewTexts : new = <<c>>
    BY <1>2
  <2>2. c \in Heard
    BY DEF Heard
  <2> QED
    BY <2>1, <2>2
<1> QED
  BY <1>1, <1>2 DEF NewLists

(* The commands that wait are those that were not run through, and a new   *)
(* one.                                                                    *)
LEMMA ReadCommands ==
  ASSUME CommandTypes, Pending, NEW w, NEW span, NEW new \in NewLists,
         ReadMessage(w, span, new)
  PROVE  /\ serverCommandSequence' \in [Demos -> Int]
         /\ \A e \in Demos \ {d} : serverCommandSequence'[e] = serverCommandSequence[e]
         /\ serverCommandSequence'[d] >= serverCommandSequence[d]
         /\ serverCommandSequence'[d] <= serverCommandSequence[d] + 1
         /\ Waiting(new) \in Seq(Heard)
         /\ Len(Waiting(new)) = serverCommandSequence'[d] - lastExecutedServerCommand[d] + 1
         /\ UNCHANGED <<framesSaved, idx, serverCommandOffset, outCommandSequence, due>>
<1> DEFINE left == IF lastExecutedServerCommand[d] > serverCommandSequence[d]
                   THEN <<>> ELSE commands[d]
<1>1. d \in Demos
  BY DemoAtWork
<1>2. new \in Seq(Heard) /\ Len(new) \in Nat
  BY NewListsHeard
<1>3. /\ serverCommandSequence' =
           [serverCommandSequence EXCEPT ![d] = serverCommandSequence[d] + Len(new)]
      /\ UNCHANGED <<framesSaved, idx, serverCommandOffset, outCommandSequence, due>>
  BY DEF ReadMessage, Put, outVars
<1>4. left \in Seq(Heard)
  BY <1>1 DEF CommandTypes
<1>5. left \o new \in Seq(Heard) /\ Len(left \o new) = Len(left) + Len(new)
  BY <1>2, <1>4
<1>6. Len(left) = serverCommandSequence[d] - lastExecutedServerCommand[d] + 1
  BY <1>1 DEF CommandTypes, Pending
<1>7. Waiting(new) = left \o new
  BY DEF Waiting
<1> HIDE DEF left
<1>8. /\ serverCommandSequence' \in [Demos -> Int]
      /\ serverCommandSequence'[d] = serverCommandSequence[d] + Len(new)
      /\ \A e \in Demos \ {d} : serverCommandSequence'[e] = serverCommandSequence[e]
  BY <1>1, <1>2, <1>3 DEF CommandTypes
<1>9. Len(Waiting(new)) = serverCommandSequence'[d] - lastExecutedServerCommand[d] + 1
  BY <1>1, <1>2, <1>5, <1>6, <1>7, <1>8 DEF CommandTypes
<1>10. /\ serverCommandSequence'[d] >= serverCommandSequence[d]
       /\ serverCommandSequence'[d] <= serverCommandSequence[d] + 1
  <2>1. Len(new) <= 1
    BY DEF NewLists
  <2> QED
    BY <1>1, <1>2, <1>8, <2>1 DEF CommandTypes
<1> QED
  BY <1>3, <1>5, <1>7, <1>8, <1>9, <1>10

(* Of a single command none is passed over. *)
LEMMA ToRunList ==
  ASSUME NEW X, NEW list \in Seq(X)
  PROVE  /\ ToRun(list) \in Seq(X)
         /\ Len(list) <= 1 => ToRun(list) = list
<1> DEFINE reach == InReach(list)
           texts == {j \in DOMAIN reach : reach[j] # NoText}
           kept == MaxReliableCommands - FudgeFactor
           first == CHOOSE j \in texts : \A k \in texts : j <= k
<1>1. /\ MaxReliableCommands \in Nat \ {0} /\ FudgeFactor \in Nat
      /\ kept \in Nat /\ kept >= 1 /\ kept <= MaxReliableCommands
  BY MergerAssumption
<1>2. /\ Len(list) \in Nat
      /\ \A i, j \in Nat : i > 0 /\ j <= Len(list) => SubSeq(list, i, j) \in Seq(X)
  <2>1. ASSUME NEW i \in Nat, NEW j \in Nat, i > 0, j <= Len(list)
        PROVE  SubSeq(list, i, j) \in Seq(X)
    BY <2>1, SubSeqProperties
  <2> QED
    BY <2>1
<1>3. reach \in Seq(X) /\ (Len(list) <= 1 => reach = list)
  <2>1. CASE Len(list) - 1 > MaxReliableCommands
    <3>1. reach = SubSeq(list, Len(list) - kept, Len(list))
      BY <2>1 DEF InReach
    <3>2. Len(list) - kept \in Nat /\ Len(list) - kept > 0 /\ Len(list) > 1
      BY <1>1, <1>2, <2>1
    <3> HIDE DEF kept, reach
    <3> QED
      BY <1>2, <3>1, <3>2
  <2>2. CASE ~ Len(list) - 1 > MaxReliableCommands
    BY <2>2 DEF InReach
  <2> QED
    BY <2>1, <2>2
<1> HIDE DEF reach
<1>4. CASE Len(reach) = kept + 1 /\ texts # {}
  <2>1. ToRun(list) = SubSeq(reach, first, Len(reach))
    BY <1>4 DEF ToRun, reach
  <2>2. texts \subseteq Nat \ {0} /\ Len(reach) \in Nat
    BY <1>3
  <2> HIDE DEF texts
  <2>3. first \in texts
    <3>1. \E j \in texts : \A k \in texts : j <= k
      BY <1>4, <2>2, LeastOf
    <3> QED
      BY <3>1
  <2> HIDE DEF first
  <2>4. SubSeq(reach, first, Len(reach)) \in Seq(X)
    BY <1>3, <2>2, <2>3, SubSeqProperties
  <2>5. Len(list) > 1
    BY <1>1, <1>2, <1>3, <1>4
  <2> QED
    BY <1>2, <2>1, <2>4, <2>5
<1>5. CASE ~ (Len(reach) = kept + 1 /\ texts # {})
  <2>1. ToRun(list) = reach
    BY <1>5 DEF ToRun, reach
  <2> QED
    BY <1>3, <2>1
<1> QED
  BY <1>4, <1>5

(* What RunCommands does to them then: a message of which at most one      *)
(* command waits brings that one.                                          *)
LEMMA RunAfterRead ==
  ASSUME CommandTypes, Pending, NEW w, NEW span, NEW new \in NewLists,
         ReadMessage(w, span, new), RunCommands(new)
  PROVE  /\ commands' \in [Demos -> Seq(Heard)]
         /\ lastExecutedServerCommand' \in [Demos -> Int]
         /\ lastExecutedServerCommand'[d] = serverCommandSequence'[d] + 1
         /\ firstServerCommand' \in [Cuts -> Int]
         /\ Len(commands'[d]) = serverCommandSequence'[d] - firstServerCommand'[idx] + 1
         /\ serverCommandSequence'[d] - lastExecutedServerCommand[d] <= 0 =>
              firstServerCommand'[idx] = lastExecutedServerCommand[d]
         /\ \A i \in Cuts \ {idx} : firstServerCommand'[i] = firstServerCommand[i]
         /\ Pending'
<1> DEFINE list == ToRun(Waiting(new))
<1>1. d \in Demos /\ d' = d /\ idx \in Cuts
  BY DemoAtWork DEF ReadMessage, d, CommandTypes
<1>2. /\ serverCommandSequence' \in [Demos -> Int]
      /\ \A e \in Demos \ {d} : serverCommandSequence'[e] = serverCommandSequence[e]
      /\ Waiting(new) \in Seq(Heard)
      /\ Len(Waiting(new)) = serverCommandSequence'[d] - lastExecutedServerCommand[d] + 1
  BY ReadCommands
<1>3. list \in Seq(Heard) /\ (Len(Waiting(new)) <= 1 => list = Waiting(new))
  BY <1>2, ToRunList
<1>4. /\ commands' = [commands EXCEPT ![d] = list]
      /\ lastExecutedServerCommand' =
           [lastExecutedServerCommand EXCEPT ![d] = serverCommandSequence'[d] + 1]
      /\ firstServerCommand' =
           [firstServerCommand EXCEPT ![idx] =
              serverCommandSequence'[d] - Len(commands'[d]) + 1]
  BY DEF RunCommands, Put
<1> HIDE DEF list
<1>5. /\ commands' \in [Demos -> Seq(Heard)]
      /\ commands'[d] = list /\ Len(list) \in Nat
      /\ \A e \in Demos \ {d} : commands'[e] = commands[e]
  BY <1>1, <1>3, <1>4 DEF CommandTypes
<1>6. /\ lastExecutedServerCommand' \in [Demos -> Int]
      /\ lastExecutedServerCommand'[d] = serverCommandSequence'[d] + 1
      /\ \A e \in Demos \ {d} : lastExecutedServerCommand'[e] = lastExecutedServerCommand[e]
  BY <1>1, <1>2, <1>4 DEF CommandTypes
<1>7. serverCommandSequence'[d] - Len(list) + 1 \in Int
  BY <1>1, <1>2, <1>5
<1>8. /\ firstServerCommand' \in [Cuts -> Int]
      /\ firstServerCommand'[idx] = serverCommandSequence'[d] - Len(list) + 1
      /\ \A i \in Cuts \ {idx} : firstServerCommand'[i] = firstServerCommand[i]
  BY <1>1, <1>4, <1>5, <1>7 DEF CommandTypes
<1>9. Len(commands'[d]) = serverCommandSequence'[d] - firstServerCommand'[idx] + 1
  BY <1>1, <1>2, <1>5, <1>8
<1>10. ASSUME serverCommandSequence'[d] - lastExecutedServerCommand[d] <= 0
       PROVE  firstServerCommand'[idx] = lastExecutedServerCommand[d]
  <2>1. serverCommandSequence'[d] \in Int /\ lastExecutedServerCommand[d] \in Int
    BY <1>1, <1>2 DEF CommandTypes
  <2>2. Len(Waiting(new)) <= 1
    BY <1>2, <1>10, <2>1
  <2>3. Len(list) = serverCommandSequence'[d] - lastExecutedServerCommand[d] + 1
    BY <1>2, <1>3, <2>2
  <2> QED
    BY <1>8, <2>1, <2>3
<1>11. Pending'
  <2> SUFFICES ASSUME NEW e \in Demos
      PROVE  /\ lastExecutedServerCommand'[e] <= serverCommandSequence'[e] + 1
             /\ lastExecutedServerCommand'[e] <= serverCommandSequence'[e] =>
                  Len(commands'[e]) =
                    serverCommandSequence'[e] - lastExecutedServerCommand'[e] + 1
    BY DEF Pending
  <2>1. CASE e = d
    BY <1>2, <1>6, <2>1
  <2>2. CASE e # d
    BY <1>2, <1>5, <1>6, <2>2 DEF Pending
  <2> QED
    BY <2>1, <2>2
<1> QED
  BY <1>5, <1>6, <1>8, <1>9, <1>10, <1>11

-----------------------------------------------------------------------------
(* Slots that no command was received for. *)
LEMMA EmptySlots ==
  ASSUME NEW n \in Nat
  PROVE  /\ [i \in 1 .. n + 1 |-> NoText] \in Seq(Heard)
         /\ Len([i \in 1 .. n + 1 |-> NoText]) = n + 1
BY DEF Heard

(* The numbers at the start. *)
LEMMA NumberInit == Init => NumberInv
<1> SUFFICES ASSUME Init PROVE NumberInv
  OBVIOUS
<1>1. CommandTypes
  <2>1. 1 \in Cuts
    BY MergerAssumption DEF Cuts
  <2>2. /\ serverCommandSequence = GamestateCommand
        /\ commands = [e \in Demos |-> [i \in 1 .. GamestateCommand[e] + 1 |-> NoText]]
        /\ GamestateCommand \in [Demos -> Nat]
    BY MergerAssumption DEF Init
  <2>3. commands \in [Demos -> Seq(Heard)]
    BY <2>2, EmptySlots
  <2>4. serverCommandSequence \in [Demos -> Int]
    BY <2>2
  <2> QED
    BY <2>1, <2>3, <2>4 DEF Init, CommandTypes
<1>2. \A e \in Demos : /\ serverCommandSequence[e] \in Nat
                      /\ Len(commands[e]) = serverCommandSequence[e] + 1
                      /\ lastExecutedServerCommand[e] = 0
  <2>1. /\ serverCommandSequence = GamestateCommand
        /\ commands = [e \in Demos |-> [i \in 1 .. GamestateCommand[e] + 1 |-> NoText]]
        /\ lastExecutedServerCommand = [e \in Demos |-> 0]
        /\ GamestateCommand \in [Demos -> Nat]
    BY MergerAssumption DEF Init
  <2> QED
    BY <2>1, EmptySlots
<1>3. Pending
  BY <1>2, SMTT(30) DEF Pending
<1>4. framesSaved = [i \in Cuts |-> 0] /\ idx = 1 /\ 1 \in Cuts /\ loop = "parse"
  BY <1>1 DEF Init, CommandTypes
<1>5. ToWrite /\ Frames /\ FirstCut /\ InCut /\ BetweenCuts /\ NothingAhead
  BY <1>4 DEF Init, ToWrite, Frames, FirstCut, InCut, BetweenCuts, NothingAhead, AllWritten
<1> QED
  BY <1>1, <1>3, <1>5 DEF NumberInv

(* Reading up to the start of a cut writes nothing, so due stays. *)
LEMMA ReadEarlyKeeps ==
  ASSUME NumberInv, NEW w, NEW span, NEW new \in NewLists, ReadEarly(w, span, new)
  PROVE  NumberInv'
<1> USE DEF NumberInv
<1>1. /\ loop = "parse" /\ loop' = "parse"
      /\ UNCHANGED <<firstServerCommand, lastExecutedServerCommand>>
      /\ ReadMessage(w, span, new)
      /\ commands' = [commands EXCEPT ![d] = Waiting(new)]
  BY DEF ReadEarly, Put
<1>2. /\ serverCommandSequence' \in [Demos -> Int]
      /\ \A e \in Demos \ {d} : serverCommandSequence'[e] = serverCommandSequence[e]
      /\ serverCommandSequence'[d] >= serverCommandSequence[d]
      /\ Waiting(new) \in Seq(Heard)
      /\ Len(Waiting(new)) = serverCommandSequence'[d] - lastExecutedServerCommand[d] + 1
      /\ UNCHANGED <<framesSaved, idx, serverCommandOffset, outCommandSequence, due>>
  BY <1>1, ReadCommands
<1>3. /\ d \in Demos
      /\ commands' \in [Demos -> Seq(Heard)] /\ commands'[d] = Waiting(new)
      /\ \A e \in Demos \ {d} : commands'[e] = commands[e]
  BY <1>1, <1>2, DemoAtWork DEF CommandTypes
<1>4. CommandTypes'
  BY <1>1, <1>2, <1>3 DEF CommandTypes
<1>5. Pending'
  <2> SUFFICES ASSUME NEW e \in Demos
      PROVE  /\ lastExecutedServerCommand[e] <= serverCommandSequence'[e] + 1
             /\ lastExecutedServerCommand[e] <= serverCommandSequence'[e] =>
                  Len(commands'[e]) =
                    serverCommandSequence'[e] - lastExecutedServerCommand[e] + 1
    BY <1>1 DEF Pending
  <2>1. CASE e = d
    BY <1>2, <1>3, <2>1 DEF CommandTypes, Pending
  <2>2. CASE e # d
    BY <1>2, <1>3, <2>2 DEF Pending
  <2> QED
    BY <2>1, <2>2
<1>6. ToWrite' /\ Frames' /\ FirstCut' /\ InCut' /\ BetweenCuts' /\ NothingAhead'
  BY <1>1, <1>2 DEF ToWrite, Frames, FirstCut, InCut, BetweenCuts, NothingAhead, AllWritten
<1> QED
  BY <1>4, <1>5, <1>6

(* Neither does the message the cut starts with. *)
LEMMA ParseKeeps ==
  ASSUME NumberInv, NEW w, NEW span, NEW new \in NewLists, ParseDemoContext(w, span, new)
  PROVE  NumberInv'
<1> USE DEF NumberInv
<1>1. /\ loop = "parse" /\ loop' \in {"parse", "header", "write"}
      /\ loop' = "header" => idx = 1
      /\ loop' = "write" => idx # 1
      /\ ReadMessage(w, span, new) /\ RunCommands(new)
  BY DEF ParseDemoContext
<1>2. /\ serverCommandSequence' \in [Demos -> Int]
      /\ serverCommandSequence'[d] <= serverCommandSequence[d] + 1
      /\ UNCHANGED <<framesSaved, idx, serverCommandOffset, outCommandSequence, due>>
  BY <1>1, ReadCommands
<1>3. /\ commands' \in [Demos -> Seq(Heard)]
      /\ lastExecutedServerCommand' \in [Demos -> Int]
      /\ lastExecutedServerCommand'[d] = serverCommandSequence'[d] + 1
      /\ firstServerCommand' \in [Cuts -> Int]
      /\ Len(commands'[d]) = serverCommandSequence'[d] - firstServerCommand'[idx] + 1
      /\ serverCommandSequence'[d] - lastExecutedServerCommand[d] <= 0 =>
           firstServerCommand'[idx] = lastExecutedServerCommand[d]
      /\ \A i \in Cuts \ {idx} : firstServerCommand'[i] = firstServerCommand[i]
      /\ Pending'
  BY <1>1, RunAfterRead
<1>4. d' = d /\ idx \in 1 .. Len(CutDemos) /\ Cuts = 1 .. Len(CutDemos)
  BY <1>2, DemoAtWork, MergerAssumption DEF d, Cuts
<1>5. CommandTypes'
  BY <1>1, <1>2, <1>3 DEF CommandTypes
<1>6. ToWrite'
  BY <1>1, <1>2, <1>3, <1>4 DEF ToWrite
<1>7. Frames' /\ FirstCut' /\ InCut' /\ NothingAhead'
  BY <1>1, <1>2 DEF Frames, FirstCut, InCut, NothingAhead, AllWritten
<1>8. BetweenCuts'
  <2>1. idx > 1 => idx - 1 \in Cuts \ {idx}
    BY <1>4
  <2> QED
    BY <1>2, <1>3, <2>1 DEF BetweenCuts
<1> QED
  BY <1>3, <1>5, <1>6, <1>7, <1>8

(* A message is read: its commands wait. *)
LEMMA ReadNextKeeps ==
  ASSUME NumberInv, NEW w, NEW span, NEW new \in NewLists, ReadNextMessage(w, span, new)
  PROVE  NumberInv'
<1> USE DEF NumberInv
<1>1. /\ loop = "read" /\ loop' = "write"
      /\ ReadMessage(w, span, new) /\ RunCommands(new)
  BY DEF ReadNextMessage
<1>2. /\ serverCommandSequence' \in [Demos -> Int]
      /\ serverCommandSequence'[d] <= serverCommandSequence[d] + 1
      /\ UNCHANGED <<framesSaved, idx, serverCommandOffset, outCommandSequence, due>>
  BY <1>1, ReadCommands
<1>3. /\ commands' \in [Demos -> Seq(Heard)]
      /\ lastExecutedServerCommand' \in [Demos -> Int]
      /\ lastExecutedServerCommand'[d] = serverCommandSequence'[d] + 1
      /\ firstServerCommand' \in [Cuts -> Int]
      /\ Len(commands'[d]) = serverCommandSequence'[d] - firstServerCommand'[idx] + 1
      /\ serverCommandSequence'[d] - lastExecutedServerCommand[d] <= 0 =>
           firstServerCommand'[idx] = lastExecutedServerCommand[d]
      /\ Pending'
  BY <1>1, RunAfterRead
<1>4. d' = d
  BY <1>2 DEF d
<1>5. framesSaved[idx] > 0
  BY <1>1 DEF Frames
<1>6. CommandTypes'
  BY <1>1, <1>2, <1>3 DEF CommandTypes
<1>7. ToWrite'
  BY <1>1, <1>2, <1>3, <1>4 DEF ToWrite
<1>8. Frames' /\ FirstCut' /\ BetweenCuts' /\ NothingAhead'
  BY <1>1, <1>2, <1>5 DEF CommandTypes, Frames, FirstCut, BetweenCuts, NothingAhead, AllWritten
<1>9. InCut'
  <2>1. /\ lastExecutedServerCommand[d] = serverCommandSequence[d] + 1
        /\ serverCommandSequence[d] + 1 + serverCommandOffset = due
    BY <1>1, <1>5 DEF InCut, ToWrite
  <2>2. serverCommandSequence[d] \in Int /\ serverCommandSequence'[d] \in Int
    BY <1>2, DemoAtWork DEF CommandTypes
  <2>3. firstServerCommand'[idx] = serverCommandSequence[d] + 1
    BY <1>2, <1>3, <2>1, <2>2
  <2> QED
    BY <1>1, <1>2, <2>1, <2>3 DEF InCut
<1> QED
  BY <1>3, <1>6, <1>7, <1>8, <1>9

(* A lost message changes no command. *)
LEMMA LoseKeeps == ASSUME NumberInv, Lose PROVE NumberInv'
BY DEF NumberInv, Lose, outVars, d, CommandTypes, Pending, ToWrite, Frames, FirstCut,
       InCut, BetweenCuts, NothingAhead, AllWritten

(* The end of the file does not. *)
LEMMA NoMessageKeeps == ASSUME NumberInv, NoMessage PROVE NumberInv'
BY DEF NumberInv, NoMessage, outVars, demoVars, d, CommandTypes, Pending, ToWrite, Frames,
       FirstCut, InCut, BetweenCuts, NothingAhead, AllWritten

(* The gamestate of the first cut says where commands start. *)
LEMMA WriteHeaderKeeps == ASSUME NumberInv, WriteHeader PROVE NumberInv'
<1> USE DEF NumberInv
<1>1. /\ loop = "header" /\ loop' = "write"
      /\ outCommandSequence' = serverCommandSequence[d] - MaxReliableCommands + 1
      /\ UNCHANGED <<serverCommandSequence, lastExecutedServerCommand, commands,
                     firstServerCommand, framesSaved, idx, serverCommandOffset, due>>
  BY DEF WriteHeader, demoVars
<1>2. idx = 1 /\ framesSaved[1] = 0 /\ d' = d
  BY <1>1 DEF Frames, FirstCut, d
<1>3. serverCommandSequence[d] \in Int /\ MaxReliableCommands \in Nat \ {0}
  BY DemoAtWork, MergerAssumption DEF CommandTypes
<1>4. CommandTypes' /\ Pending'
  BY <1>1, <1>3 DEF CommandTypes, Pending
<1>5. ToWrite' /\ Frames' /\ InCut' /\ BetweenCuts'
  BY <1>1, <1>2 DEF ToWrite, Frames, InCut, BetweenCuts
<1>6. FirstCut' /\ NothingAhead'
  BY <1>1, <1>2, <1>3 DEF FirstCut, NothingAhead, AllWritten
<1> QED
  BY <1>4, <1>5, <1>6

(* A cut has ended: the next command belongs behind what it wrote. *)
LEMMA NextCutKeeps == ASSUME NumberInv, NextCut PROVE NumberInv'
<1> USE DEF NumberInv
<1>1. /\ loop = "write"
      /\ UNCHANGED <<serverCommandSequence, lastExecutedServerCommand, commands,
                     firstServerCommand, framesSaved, serverCommandOffset,
                     outCommandSequence, due>>
  BY DEF NextCut, demoVars, outVars
<1>2. CASE loop' = "done" /\ idx' = idx
  BY <1>1, <1>2 DEF d, CommandTypes, Pending, ToWrite, Frames, FirstCut, InCut,
       BetweenCuts, NothingAhead, AllWritten
<1>3. CASE idx # Len(CutDemos) /\ loop' = "parse" /\ idx' = idx + 1
  <2>1. idx \in 1 .. Len(CutDemos) /\ Cuts = 1 .. Len(CutDemos) /\ Len(CutDemos) \in Nat
    BY DemoAtWork, MergerAssumption DEF Cuts
  <2>2. idx + 1 \in Cuts /\ framesSaved[idx + 1] = 0
    BY <1>3, <2>1 DEF Frames
  <2>3. CommandTypes' /\ Pending'
    BY <1>1, <1>3, <2>2 DEF CommandTypes, Pending
  <2>4. ToWrite' /\ Frames' /\ FirstCut' /\ InCut'
    BY <1>1, <1>3, <2>1, <2>2 DEF ToWrite, Frames, FirstCut, InCut
  <2>5. BetweenCuts'
    BY <1>1, <1>3, <2>1 DEF BetweenCuts, InCut
  <2>6. NothingAhead'
    <3> SUFFICES ASSUME AllWritten' PROVE outCommandSequence < due
      BY <1>1 DEF NothingAhead
    <3>1. \A i \in 1 .. idx : framesSaved[i] > 0
      BY <1>1, <1>3, <2>1 DEF AllWritten
    <3>2. AllWritten
      BY <2>1, <3>1 DEF AllWritten
    <3> QED
      BY <3>2 DEF NothingAhead
  <2> QED
    BY <2>3, <2>4, <2>5, <2>6
<1> QED
  BY <1>2, <1>3 DEF NextCut

-----------------------------------------------------------------------------
(* What a message written changes: list is what it brings, first the       *)
(* number of its first command in the demo.                                *)
LEMMA WriteNumbers ==
  ASSUME CommandTypes, NEW list, Len(list) \in Nat, NEW forced,
         serverCommandOffset' \in Int, WriteDeltaSnapshot(list, forced)
  PROVE  /\ loop' = "read"
         /\ firstServerCommand' \in [Cuts -> Int]
         /\ firstServerCommand'[idx] = serverCommandSequence[d] - Len(list) + 1
         /\ framesSaved' \in [Cuts -> Nat]
         /\ framesSaved'[idx] > 0
         /\ \A i \in Cuts \ {idx} : framesSaved'[i] = framesSaved[i]
         /\ due' = serverCommandSequence[d] + serverCommandOffset' + 1
         /\ outCommandSequence' \in Int
         /\ outCommandSequence' = outCommandSequence \/ outCommandSequence' = due' - 1
         /\ UNCHANGED <<serverCommandSequence, lastExecutedServerCommand, commands, idx>>
<1> DEFINE first == serverCommandSequence[d] - Len(list) + 1
<1>1. serverCommandSequence[d] \in Int /\ idx \in Cuts
  BY DemoAtWork DEF CommandTypes
<1>2. /\ loop' = "read"
      /\ firstServerCommand' = [firstServerCommand EXCEPT ![idx] = first]
      /\ framesSaved' = [framesSaved EXCEPT ![idx] = framesSaved[idx] + 1]
      /\ due' = serverCommandSequence[d] + serverCommandOffset' + 1
      /\ Hear(list, first + serverCommandOffset')
      /\ UNCHANGED <<serverCommandSequence, lastExecutedServerCommand, commands, idx>>
  BY DEF WriteDeltaSnapshot, demoVars
<1>3. \/ outCommandSequence' = outCommandSequence
      \/ outCommandSequence' = (first + serverCommandOffset') + Len(list) - 1
  BY <1>2 DEF Hear
<1>4. firstServerCommand' \in [Cuts -> Int] /\ firstServerCommand'[idx] = first
  BY <1>1, <1>2 DEF CommandTypes
<1>5. /\ framesSaved' \in [Cuts -> Nat]
      /\ framesSaved'[idx] > 0
      /\ \A i \in Cuts \ {idx} : framesSaved'[i] = framesSaved[i]
  BY <1>1, <1>2 DEF CommandTypes
<1>6. /\ outCommandSequence' \in Int
      /\ outCommandSequence' = outCommandSequence \/ outCommandSequence' = due' - 1
  <2>1. outCommandSequence \in Int
    BY DEF CommandTypes
  <2>2. (first + serverCommandOffset') + Len(list) - 1 = due' - 1 /\ due' \in Int
    BY <1>1, <1>2, SMTT(30)
  <2> QED
    BY <1>3, <2>1, <2>2
<1> QED
  BY <1>2, <1>4, <1>5, <1>6

(* The step that CommandsFollow is about. *)
FollowsDue ==
  AllWritten => /\ firstServerCommand'[idx] + serverCommandOffset' = due
                /\ outCommandSequence < due

(* A message is written: its commands are those from due on. *)
LEMMA WriteKeeps == ASSUME NumberInv, Write PROVE NumberInv' /\ FollowsDue
<1> USE DEF NumberInv
<1>1. /\ loop = "write" /\ framesSaved[idx] > 0
      /\ serverCommandOffset' = serverCommandOffset
      /\ WriteDeltaSnapshot(commands[d], FALSE)
  BY DEF Write
<1>2. /\ d \in Demos /\ idx \in Cuts /\ Cuts = 1 .. Len(CutDemos)
      /\ serverCommandSequence[d] \in Int /\ firstServerCommand[idx] \in Int
      /\ due \in Int /\ serverCommandOffset' \in Int
      /\ Len(commands[d]) \in Nat
  <2>1. d \in Demos /\ idx \in Cuts
    BY DemoAtWork DEF CommandTypes
  <2>2. Cuts = 1 .. Len(CutDemos)
    BY MergerAssumption DEF Cuts
  <2>3. commands[d] \in Seq(Heard)
    BY <2>1 DEF CommandTypes
  <2> QED
    <3>1. /\ serverCommandSequence[d] \in Int /\ firstServerCommand[idx] \in Int
          /\ due \in Int /\ serverCommandOffset' \in Int
      BY <1>1, <2>1 DEF CommandTypes
    <3>2. Len(commands[d]) \in Nat
      BY <2>3
    <3> QED
      BY <2>1, <2>2, <3>1, <3>2
<1>3. /\ loop' = "read"
      /\ firstServerCommand' \in [Cuts -> Int]
      /\ firstServerCommand'[idx] = serverCommandSequence[d] - Len(commands[d]) + 1
      /\ framesSaved' \in [Cuts -> Nat]
      /\ framesSaved'[idx] > 0
      /\ \A i \in Cuts \ {idx} : framesSaved'[i] = framesSaved[i]
      /\ due' = serverCommandSequence[d] + serverCommandOffset' + 1
      /\ outCommandSequence' \in Int
      /\ outCommandSequence' = outCommandSequence \/ outCommandSequence' = due' - 1
      /\ UNCHANGED <<serverCommandSequence, lastExecutedServerCommand, commands, idx>>
  BY <1>1, <1>2, WriteNumbers
<1>4. d' = d
  BY <1>3 DEF d
<1>5. firstServerCommand'[idx] = firstServerCommand[idx]
  BY <1>1, <1>2, <1>3 DEF ToWrite
<1>6. firstServerCommand[idx] + serverCommandOffset = due
  BY <1>1 DEF InCut
<1>7. due' = due + Len(commands[d])
  BY <1>1, <1>2, <1>3, <1>5, <1>6 DEF CommandTypes
<1>8. CommandTypes'
  BY <1>1, <1>2, <1>3, <1>7 DEF CommandTypes
<1>9. Pending' /\ ToWrite'
  BY <1>1, <1>3, <1>4 DEF Pending, ToWrite
<1>10. Frames' /\ BetweenCuts'
  BY <1>2, <1>3 DEF Frames, BetweenCuts
<1>11. FirstCut' /\ InCut'
  BY <1>1, <1>2, <1>3, <1>4 DEF FirstCut, InCut, CommandTypes
<1>12. AllWritten' => AllWritten
  BY <1>1, <1>2, <1>3 DEF AllWritten
<1>13. NothingAhead'
  BY <1>2, <1>3, <1>7, <1>12 DEF NothingAhead, CommandTypes
<1>14. FollowsDue
  BY <1>1, <1>5, <1>6 DEF FollowsDue, NothingAhead
<1> QED
  BY <1>8, <1>9, <1>10, <1>11, <1>13, <1>14

(* The commands a cut begins with; the first cut has no introduction. *)
LEMMA IntroductionList ==
  ASSUME CommandTypes
  PROVE  /\ Len(Introduction \o commands[d]) \in Nat
         /\ idx = 1 => Len(Introduction \o commands[d]) = Len(commands[d])
<1> DEFINE All == Heard \cup {Cs(configstring[d]), TInfo(lastTeamInfo[d])}
<1> DEFINE one == <<Cs(configstring[d])>>
<1> DEFINE two == <<TInfo(lastTeamInfo[d])>>
<1>1. commands[d] \in Seq(Heard)
  BY DemoAtWork DEF CommandTypes
<1>2. commands[d] \in Seq(All) /\ one \in Seq(All) /\ two \in Seq(All) /\ <<>> \in Seq(All)
  BY <1>1
<1>3. \/ Introduction = <<>>
      \/ \E x \in {<<>>, one}, y \in {<<>>, two} : Introduction = x \o y
  BY DEF Introduction
<1>4. Introduction \in Seq(All)
  <2>1. ASSUME NEW x \in Seq(All), NEW y \in Seq(All)
        PROVE  x \o y \in Seq(All)
    BY <2>1
  <2> HIDE DEF All, one, two
  <2> QED
    BY <1>2, <1>3, <2>1
<1>5. Len(Introduction \o commands[d]) = Len(Introduction) + Len(commands[d])
      /\ Len(Introduction) \in Nat /\ Len(commands[d]) \in Nat
  BY <1>2, <1>4
<1>6. idx = 1 => Len(Introduction) = 0
  BY DEF Introduction
<1> QED
  BY <1>5, <1>6

(* The first message of a cut is written: its commands, the introduction in *)
(* front, are those from due on. *)
LEMMA BeginKeeps == ASSUME NumberInv, Begin PROVE NumberInv' /\ FollowsDue
<1> USE DEF NumberInv
<1> DEFINE list == Introduction \o commands[d]
<1> DEFINE first == serverCommandSequence[d] - Len(list) + 1
<1>1. /\ loop = "write" /\ framesSaved[idx] = 0
      /\ serverCommandOffset' = OffsetFor(list)
      /\ WriteDeltaSnapshot(list, TRUE)
  BY DEF Begin
<1>2. /\ d \in Demos /\ idx \in Cuts /\ Cuts = 1 .. Len(CutDemos)
      /\ idx > 1 => idx - 1 \in Cuts
      /\ serverCommandSequence[d] \in Int /\ firstServerCommand[idx] \in Int
      /\ due \in Int /\ Len(list) \in Nat
      /\ idx = 1 => Len(list) = Len(commands[d])
  <2>1. d \in Demos /\ idx \in 1 .. Len(CutDemos)
    BY DemoAtWork
  <2>2. Cuts = 1 .. Len(CutDemos) /\ Len(CutDemos) \in Nat
    BY MergerAssumption DEF Cuts
  <2>3. /\ serverCommandSequence[d] \in Int /\ firstServerCommand[idx] \in Int
        /\ due \in Int
    BY <2>1, <2>2 DEF CommandTypes
  <2> QED
    BY <2>1, <2>2, <2>3, IntroductionList
<1> HIDE DEF list
<1>3. /\ serverCommandOffset' \in Int
      /\ idx = 1 => serverCommandOffset' = 0
      /\ idx > 1 => serverCommandOffset' =
                      serverCommandOffset + firstServerCommand[idx - 1] - first
  BY <1>1, <1>2 DEF OffsetFor, CommandTypes
<1>4. /\ loop' = "read"
      /\ firstServerCommand' \in [Cuts -> Int]
      /\ firstServerCommand'[idx] = first
      /\ framesSaved' \in [Cuts -> Nat]
      /\ framesSaved'[idx] > 0
      /\ \A i \in Cuts \ {idx} : framesSaved'[i] = framesSaved[i]
      /\ due' = serverCommandSequence[d] + serverCommandOffset' + 1
      /\ outCommandSequence' \in Int
      /\ outCommandSequence' = outCommandSequence \/ outCommandSequence' = due' - 1
      /\ UNCHANGED <<serverCommandSequence, lastExecutedServerCommand, commands, idx>>
  BY <1>1, <1>2, <1>3, WriteNumbers
<1>5. d' = d
  BY <1>4 DEF d
<1>6. CommandTypes'
  BY <1>2, <1>3, <1>4, SMTT(30) DEF CommandTypes
<1>7. Pending' /\ ToWrite'
  BY <1>1, <1>4, <1>5 DEF Pending, ToWrite
<1>8. Frames' /\ BetweenCuts'
  BY <1>2, <1>4 DEF Frames, BetweenCuts
<1>9. FirstCut' /\ InCut'
  BY <1>2, <1>3, <1>4, <1>5 DEF FirstCut, InCut
<1>10. CASE idx = 1
  <2>1. ~ AllWritten
    BY <1>1, <1>10 DEF AllWritten
  <2>2. outCommandSequence <= serverCommandSequence[d]
    BY <1>1, <1>10 DEF FirstCut
  <2>3. NothingAhead'
    BY <1>2, <1>3, <1>4, <1>10, <2>2 DEF NothingAhead, CommandTypes
  <2> QED
    BY <1>6, <1>7, <1>8, <1>9, <2>1, <2>3 DEF FollowsDue
<1>11. CASE idx > 1
  <2>1. AllWritten' => AllWritten
    BY <1>2, <1>4, <1>11 DEF AllWritten
  <2>2. AllWritten => first + serverCommandOffset' = due
    <3> SUFFICES ASSUME AllWritten PROVE first + serverCommandOffset' = due
      OBVIOUS
    <3>1. idx - 1 \in 1 .. idx - 1
      BY <1>2, <1>11
    <3>2. framesSaved[idx - 1] > 0
      BY <3>1 DEF AllWritten
    <3>3. firstServerCommand[idx - 1] + serverCommandOffset = due
      BY <1>1, <1>11, <3>2 DEF BetweenCuts
    <3>4. firstServerCommand[idx - 1] \in Int /\ serverCommandOffset \in Int
      BY <1>2, <1>11 DEF CommandTypes
    <3> QED
      BY <1>2, <1>3, <1>11, <3>3, <3>4, SMTT(30)
  <2>3. first + serverCommandOffset' = due => due' = due + Len(list)
    <3>1. due' = serverCommandSequence[d] + serverCommandOffset' + 1
      BY <1>4
    <3> QED
      BY <1>2, <1>3, <3>1, SMTT(30)
  <2>4. NothingAhead'
    BY <1>2, <1>4, <2>1, <2>2, <2>3 DEF NothingAhead, CommandTypes
  <2>5. FollowsDue
    BY <1>4, <2>2 DEF FollowsDue, NothingAhead
  <2> QED
    BY <1>6, <1>7, <1>8, <1>9, <2>4, <2>5
<1> QED
  BY <1>2, <1>10, <1>11

-----------------------------------------------------------------------------
(* Every step keeps NumberInv, and every message that is written follows *)
(* what was written before. *)
LEMMA NumberNext ==
  ASSUME NumberInv, [Next]_vars
  PROVE  NumberInv' /\ (JustWritten' /\ loop = "write" => FollowsDue)
<1>1. ASSUME NEW w \in Worlds, NEW span \in NoSnapshot .. MaxSpan, NEW new \in NewLists,
             ReadEarly(w, span, new)
      PROVE  NumberInv' /\ loop # "write"
  BY <1>1, ReadEarlyKeeps DEF ReadEarly
<1>2. ASSUME NEW w \in Worlds, NEW span \in NoSnapshot .. MaxSpan, NEW new \in NewLists,
             ParseDemoContext(w, span, new)
      PROVE  NumberInv' /\ loop # "write"
  BY <1>2, ParseKeeps DEF ParseDemoContext
<1>3. ASSUME NEW w \in Worlds, NEW span \in NoSnapshot .. MaxSpan, NEW new \in NewLists,
             ReadNextMessage(w, span, new)
      PROVE  NumberInv' /\ loop # "write"
  BY <1>3, ReadNextKeeps DEF ReadNextMessage
<1>4. CASE Lose
  BY <1>4, LoseKeeps DEF Lose
<1>5. CASE NoMessage
  BY <1>5, NoMessageKeeps DEF NoMessage
<1>6. CASE WriteHeader
  BY <1>6, WriteHeaderKeeps DEF WriteHeader
<1>7. CASE NextCut
  <2>1. ~ JustWritten'
    BY <1>7 DEF NextCut, JustWritten
  <2> QED
    BY <1>7, <2>1, NextCutKeeps
<1>8. CASE Write
  BY <1>8, WriteKeeps
<1>9. CASE Begin
  BY <1>9, BeginKeeps
<1>10. CASE UNCHANGED vars
  <2>1. NumberInv'
    BY <1>10 DEF NumberInv, vars, outVars, demoVars, planVars, d, CommandTypes, Pending,
         ToWrite, Frames, FirstCut, InCut, BetweenCuts, NothingAhead, AllWritten
  <2>2. loop = "write" => ~ JustWritten'
    BY <1>10 DEF vars, JustWritten
  <2> QED
    BY <2>1, <2>2
<1> QED
  BY <1>1, <1>2, <1>3, <1>4, <1>5, <1>6, <1>7, <1>8, <1>9, <1>10 DEF Next, NewLists

(* The invariant behind the numbers of the commands. *)
THEOREM CommandNumbers == Spec => []NumberInv
<1>1. NumberInv /\ [Next]_vars => NumberInv'
  BY NumberNext
<1> QED
  BY NumberInit, <1>1, PTL DEF Spec

(* Every message written to the merged demo brings the commands that come  *)
(* next, the first message of a later cut too, and the viewer has taken    *)
(* none of them yet: the numbering of writeDeltaSnapshot's commands.       *)
THEOREM CommandsInOrder == Spec => CommandsFollow
<1>1. NumberInv /\ [Next]_vars =>
        [ /\ JustWritten' /\ loop = "write"
          /\ idx > 1 \/ framesSaved[1] > 0
          /\ \A i \in 1 .. idx - 1 : framesSaved[i] > 0
          => /\ firstServerCommand'[idx] + serverCommandOffset' = due
             /\ outCommandSequence < due ]_vars
  BY NumberNext DEF FollowsDue, AllWritten
<1> QED
  BY CommandNumbers, <1>1, PTL DEF Spec, CommandsFollow

-----------------------------------------------------------------------------
HasWorld(r, k, w) == Has(r, k) /\ r.snapshots[SlotOf(k)].world = w

(* The demos' readers miss no base. *)
DemosInv ==
  /\ serverMessageSequence \in [Demos -> Nat]
  /\ in = [e \in Demos |-> in[e]]
  /\ \A e \in Demos : /\ Sound(in[e]) /\ KeepsBase(in[e])
                      /\ in[e].snap.messageNum <= serverMessageSequence[e]
  /\ outSequence \in Nat

(* The output's reader is behind the output, and has nothing before the    *)
(* first cut begins.                                                       *)
OutInv ==
  /\ Sound(out)
  /\ out.snap.messageNum <= outSequence
  /\ idx = 1 /\ loop \in {"parse", "header"} => out.snap.messageNum = 0

(* The last message of the demo that was written, and by how much numbers  *)
(* are higher in the output while none is missing.                         *)
LastWritten == IF loop = "read" THEN serverMessageSequence[d]
                                ELSE serverMessageSequence[d] - 1
Shift == outSequence - LastWritten

(* Since the cut began the output has every message that the demo's reader *)
(* has, and as its last snapshot the demo's one.                           *)
CutInv ==
  loop \in {"read", "write"} /\ origin > 0 /\ framesSaved[idx] > 0 =>
    /\ origin \in 1 .. LastWritten
    /\ out.snap.messageNum = outSequence /\ outSequence > 0
    /\ \A k \in origin .. LastWritten :
         k > LastWritten - PacketBackup /\ Has(in[d], k) =>
           HasWorld(out, k + Shift, in[d].snapshots[SlotOf(k)].world)
    /\ in[d].snap.messageNum <= LastWritten => out.snap.world = in[d].snap.world

WorldInv == DemosInv /\ OutInv /\ CutInv

-----------------------------------------------------------------------------
(* What ReadMessage does to the demo's reader. *)
LEMMA ReadWorlds ==
  ASSUME CommandTypes, DemosInv, NEW w \in Worlds, NEW span \in NoSnapshot .. MaxSpan,
         NEW new, ReadMessage(w, span, new)
  PROVE  LET m == serverMessageSequence[d] + 1
         IN  /\ DemosInv'
             /\ serverMessageSequence'[d] = m /\ serverMessageSequence[d] \in Nat
             /\ in'[d] = in[d] \/ in'[d].snap.messageNum = m
             /\ \A k \in Int : k < m /\ Has(in'[d], k) =>
                  in'[d].snapshots[SlotOf(k)] = in[d].snapshots[SlotOf(k)]
             /\ UNCHANGED <<framesSaved, idx, outSequence, out, origin>>
<1> DEFINE m == serverMessageSequence[d] + 1
           r == in[d]
           p == Parsed(m, w, span)
<1>1. /\ CanSend(m, span)
      /\ serverMessageSequence' = [serverMessageSequence EXCEPT ![d] = m]
      /\ in' = [in EXCEPT ![d] = p]
      /\ UNCHANGED <<framesSaved, idx, outSequence, out, origin>>
  BY DEF ReadMessage, Put, outVars
<1>2. d \in Demos
  BY DemoAtWork
<1>3. /\ serverMessageSequence[d] \in Nat /\ m \in Nat
      /\ Sound(r) /\ KeepsBase(r) /\ r.snap.messageNum <= serverMessageSequence[d]
      /\ r.snap.messageNum \in Nat
      /\ outSequence \in Nat /\ in = [e \in Demos |-> in[e]]
      /\ serverMessageSequence \in [Demos -> Nat]
  BY <1>2 DEF DemosInv, Sound, IsReader, IsSnap
<1>4. /\ serverMessageSequence' \in [Demos -> Nat] /\ serverMessageSequence'[d] = m
      /\ \A e \in Demos \ {d} : serverMessageSequence'[e] = serverMessageSequence[e]
  BY <1>1, <1>2, <1>3
<1>5. /\ in' = [e \in Demos |-> in'[e]] /\ in'[d] = p
      /\ \A e \in Demos \ {d} : in'[e] = in[e]
  <2> HIDE DEF p
  <2> QED
    BY <1>1, <1>2, <1>3
<1>6. /\ Sound(p) /\ KeepsBase(p) /\ p.snap.messageNum <= m
      /\ p = r \/ p.snap.messageNum = m
      /\ \A k \in Int : k < m /\ Has(p, k) =>
           p.snapshots[SlotOf(k)] = r.snapshots[SlotOf(k)]
  <2>1. CASE span = NoSnapshot
    <3>1. p = r
      BY <2>1 DEF Parsed
    <3> QED
      BY <1>3, <3>1
  <2>2. CASE span # NoSnapshot
    <3> DEFINE diff == Delta(IF span = 0 THEN NoWorld
                             ELSE r.snapshots[SlotOf(m - span)].world, w)
    <3>1. p = ParseSnapshot(r, m, span, diff)
      BY <2>2 DEF Parsed
    <3>2. span \in Nat /\ span < PacketBackup
      BY <2>2, MergerAssumption, SlotsAssumption DEF NoSnapshot
    <3>3. span > 0 => Has(r, m - span)
      BY <1>1 DEF CanSend, Has
    <3>4. IsWorld(w) /\ m > r.snap.messageNum
      BY <1>3, MergerAssumption, SMTT(30)
    <3>5. diff = Delta(IF span = 0 THEN NoWorld
                       ELSE r.snapshots[SlotOf(m - span)].world, w)
      OBVIOUS
    <3> HIDE DEF p, r, m, diff
    <3>0. /\ ParseFacts(r, m, span, diff, p)
          /\ p.snap = [valid |-> TRUE, messageNum |-> m,
                       deltaNum |-> IF span = 0 THEN -1 ELSE m - span, world |-> w]
          /\ KeepsBase(p)
      BY <1>3, <3>1, <3>2, <3>3, <3>4, <3>5, ReadExact
    <3>6. /\ ParseFacts(r, m, span, diff, p)
          /\ p.snap.messageNum = m
          /\ KeepsBase(p)
      BY <3>0
    <3>7. Sound(p) /\ \A i \in Slots : p.snapshots[i].valid =>
            i = SlotOf(m) \/ p.snapshots[i] = r.snapshots[i]
      BY <3>6 DEF ParseFacts
    <3>8. ASSUME NEW k \in Int, k < m, Has(p, k)
          PROVE  p.snapshots[SlotOf(k)] = r.snapshots[SlotOf(k)]
      <4>1. SlotOf(k) # SlotOf(m)
        BY <1>3, <3>4, <3>6, <3>7, <3>8 DEF Has, Sound, InPlace
      <4> QED
        BY <3>7, <3>8, <4>1, SlotInRange DEF Has
    <3> QED
      BY <1>3, <3>6, <3>7, <3>8
  <2> QED
    BY <2>1, <2>2
<1>7. \A e \in Demos : /\ Sound(in'[e]) /\ KeepsBase(in'[e])
                       /\ in'[e].snap.messageNum <= serverMessageSequence'[e]
  <2> HIDE DEF p, m
  <2> QED
    BY <1>4, <1>5, <1>6 DEF DemosInv
<1>8. DemosInv'
  BY <1>1, <1>3, <1>4, <1>5, <1>7 DEF DemosInv
<1> HIDE DEF p, m
<1> QED
  BY <1>1, <1>3, <1>4, <1>5, <1>6, <1>8 DEF m

(* What the readers hold, at the start. *)
LEMMA WorldInit == Init => WorldInv
<1> SUFFICES ASSUME Init PROVE WorldInv
  OBVIOUS
<1>1. /\ serverMessageSequence = [e \in Demos |-> FirstNumber[e] - 1]
      /\ in = [e \in Demos |-> ZeroReader] /\ out = ZeroReader
      /\ outSequence = 0 /\ origin = 0
  BY DEF Init
<1>2. ZeroReader.snap.messageNum = 0
  BY DEF ZeroReader, ZeroSnap
<1>3. \A e \in Demos : FirstNumber[e] - 1 \in Nat
  BY MergerAssumption
<1>4. DemosInv
  BY <1>1, <1>2, <1>3, ZeroSound DEF DemosInv, KeepsBase
<1> QED
  BY <1>1, <1>2, <1>4, ZeroSound DEF WorldInv, OutInv, CutInv

(* A message in front of a cut is read by its demo's reader. *)
LEMMA WorldReadEarly ==
  ASSUME NumberInv, WorldInv, NEW w \in Worlds, NEW span \in NoSnapshot .. MaxSpan,
         NEW new, ReadEarly(w, span, new) \/ ParseDemoContext(w, span, new)
  PROVE  WorldInv'
<1>1. ReadMessage(w, span, new) /\ loop = "parse" /\ loop' \in {"parse", "header", "write"}
      /\ (idx = 1 => loop' # "write")
  BY DEF ReadEarly, ParseDemoContext
<1>2. DemosInv' /\ UNCHANGED <<framesSaved, idx, outSequence, out, origin>>
  BY <1>1, ReadWorlds DEF NumberInv, WorldInv
<1>3. framesSaved[idx] = 0
  BY <1>1 DEF NumberInv, Frames
<1> QED
  BY <1>1, <1>2, <1>3 DEF WorldInv, OutInv, CutInv

(* So is a message of the cut. *)
LEMMA WorldReadNext ==
  ASSUME NumberInv, WorldInv, NEW w \in Worlds, NEW span \in NoSnapshot .. MaxSpan,
         NEW new, ReadNextMessage(w, span, new)
  PROVE  WorldInv'
<1> DEFINE m == serverMessageSequence[d] + 1
<1>1. ReadMessage(w, span, new) /\ loop = "read" /\ loop' = "write"
  BY DEF ReadNextMessage
<1>2. /\ DemosInv'
      /\ serverMessageSequence'[d] = m /\ serverMessageSequence[d] \in Nat
      /\ in'[d] = in[d] \/ in'[d].snap.messageNum = m
      /\ \A k \in Int : k < m /\ Has(in'[d], k) =>
           in'[d].snapshots[SlotOf(k)] = in[d].snapshots[SlotOf(k)]
      /\ UNCHANGED <<framesSaved, idx, outSequence, out, origin>>
  BY <1>1, ReadWorlds DEF NumberInv, WorldInv
<1>3. d' = d /\ LastWritten = m - 1 /\ LastWritten' = m - 1 /\ Shift' = Shift
  BY <1>1, <1>2 DEF d, LastWritten, Shift
<1>4. CutInv'
  <2> SUFFICES ASSUME origin > 0, framesSaved[idx] > 0 PROVE CutInv'
    BY <1>1, <1>2 DEF CutInv
  <2>1. /\ origin \in 1 .. m - 1
        /\ out.snap.messageNum = outSequence /\ outSequence > 0
        /\ \A k \in origin .. m - 1 :
             k > m - 1 - PacketBackup /\ Has(in[d], k) =>
               HasWorld(out, k + Shift, in[d].snapshots[SlotOf(k)].world)
        /\ in[d].snap.messageNum <= m - 1 => out.snap.world = in[d].snap.world
    BY <1>1, <1>3 DEF WorldInv, CutInv
  <2>2. \A k \in origin .. m - 1 : Has(in'[d], k) =>
          Has(in[d], k) /\ in'[d].snapshots[SlotOf(k)] = in[d].snapshots[SlotOf(k)]
    BY <1>2, <2>1 DEF Has
  <2>3. in'[d].snap.messageNum <= m - 1 => in'[d] = in[d]
    BY <1>2
  <2> HIDE DEF m
  <2>4. /\ origin \in 1 .. LastWritten'
        /\ \A k \in origin .. LastWritten' :
             k > LastWritten' - PacketBackup /\ Has(in'[d'], k) =>
               HasWorld(out', k + Shift', in'[d'].snapshots[SlotOf(k)].world)
        /\ in'[d'].snap.messageNum <= LastWritten' => out'.snap.world = in'[d'].snap.world
    BY <1>2, <1>3, <2>1, <2>2, <2>3
  <2> QED
    BY <1>2, <2>1, <2>4 DEF CutInv, Has, HasWorld
<1> QED
  BY <1>1, <1>2, <1>4 DEF WorldInv, OutInv

(* Steps after which no cut has begun or nothing is claimed. *)
LEMMA WorldLose == ASSUME NumberInv, WorldInv, Lose PROVE WorldInv'
<1>1. d \in Demos
  BY DemoAtWork DEF NumberInv
<1>2. /\ serverMessageSequence' =
           [serverMessageSequence EXCEPT ![d] = serverMessageSequence[d] + 1]
      /\ origin' = 0 /\ UNCHANGED <<in, idx, loop, framesSaved, outSequence, out>>
  BY DEF Lose, Put, outVars
<1>3. /\ serverMessageSequence \in [Demos -> Nat]
      /\ \A e \in Demos : /\ Sound(in[e]) /\ KeepsBase(in[e])
                          /\ in[e].snap.messageNum <= serverMessageSequence[e]
      /\ in = [e \in Demos |-> in[e]] /\ outSequence \in Nat
  BY DEF WorldInv, DemosInv
<1>4. serverMessageSequence' \in [Demos -> Nat]
  BY <1>1, <1>2, <1>3
<1>5. \A e \in Demos : serverMessageSequence[e] <= serverMessageSequence'[e]
  BY <1>1, <1>2, <1>3
<1>6. \A e \in Demos : in[e].snap.messageNum <= serverMessageSequence'[e]
  <2>1. \A e \in Demos : in[e].snap.messageNum \in Nat
    BY <1>3 DEF Sound, IsReader, IsSnap
  <2> QED
    BY <1>3, <1>4, <1>5, <2>1
<1>7. DemosInv'
  BY <1>2, <1>3, <1>4, <1>6 DEF DemosInv
<1> QED
  BY <1>2, <1>7 DEF WorldInv, OutInv, CutInv

(* Nothing is read or written at the end of a file or a cut. *)
LEMMA WorldIdle ==
  ASSUME NumberInv, WorldInv, NoMessage \/ NextCut
  PROVE  WorldInv'
<1>1. UNCHANGED <<serverMessageSequence, in, out, outSequence>>
  BY DEF NoMessage, NextCut, demoVars, outVars
<1>2. loop' \in {"failed", "done"} \/ (loop' = "parse" /\ idx' = idx + 1 /\ idx' # 1)
  BY DemoAtWork DEF NoMessage, NextCut, NumberInv
<1> QED
  BY <1>1, <1>2 DEF WorldInv, DemosInv, OutInv, CutInv

(* The gamestate has no snapshot. *)
LEMMA WorldHeader == ASSUME NumberInv, WorldInv, WriteHeader PROVE WorldInv'
<1>1. /\ loop = "header" /\ loop' = "write"
      /\ outSequence' = serverMessageSequence[d]
      /\ UNCHANGED <<serverMessageSequence, in, out, idx, framesSaved, origin>>
  BY DEF WriteHeader, demoVars
<1>2. d \in Demos /\ idx = 1 /\ framesSaved[idx] = 0
  BY <1>1, DemoAtWork DEF NumberInv, FirstCut, Frames
<1>3. outSequence' \in Nat /\ out.snap.messageNum = 0
  BY <1>1, <1>2 DEF WorldInv, DemosInv, OutInv
<1> QED
  BY <1>1, <1>2, <1>3 DEF WorldInv, DemosInv, OutInv, CutInv

(* A snapshot is read as it was if the slot of its base holds the world it *)
(* was coded against, or its own world already.                            *)
LEMMA WrittenExact ==
  ASSUME NEW o, Sound(o), NEW m \in Nat, m > o.snap.messageNum,
         NEW span \in Nat, span < PacketBackup,
         NEW base, NEW w, IsWorld(w),
         span = 0 => base = NoWorld,
         span > 0 => HasWorld(o, m - span, base) \/ HasWorld(o, m - span, w),
         NEW p, p = ParseSnapshot(o, m, span, Delta(base, w))
  PROVE  /\ ParseFacts(o, m, span, Delta(base, w), p)
         /\ p.snap.messageNum = m /\ p.snap.world = w
<1> DEFINE diff == Delta(base, w)
           far == m - span
<1>1. ParseFacts(o, m, span, diff, p)
  <2> HIDE DEF diff
  <2>1. ParseFacts(o, m, span, diff, ParseSnapshot(o, m, span, diff))
    BY ParseAt
  <2> QED
    BY <2>1 DEF diff
<1>2. Apply(base, diff) = w /\ Apply(w, diff) = w
  BY ApplyBack, ApplyAgain
<1>3. CASE span = 0
  BY <1>1, <1>2, <1>3 DEF ParseFacts
<1>4. CASE span > 0
  <2>1. Has(o, far) /\ far \in Int /\ far > 0
    BY <1>4, HasBounds DEF HasWorld
  <2>2. Apply(o.snapshots[SlotOf(far)].world, diff) = w
    BY <1>2, <1>4 DEF HasWorld
  <2>3. p.snap = [valid |-> TRUE, messageNum |-> m, deltaNum |-> far,
                  world |-> Apply(o.snapshots[SlotOf(far)].world, diff)]
    BY <1>1, <1>4, <2>1 DEF ParseFacts
  <2> QED
    BY <1>1, <2>2, <2>3
<1> QED
  BY <1>1, <1>3, <1>4

(* What a message adds to the output. *)
LEMMA WorldWritten ==
  ASSUME NumberInv, WorldInv, loop = "write", NEW list, NEW force,
         WriteDeltaSnapshot(list, force)
  PROVE  LET r    == in[d]
             m    == outSequence + 1
             span == BaseDistance(r, force)
             base == IF span = 0 THEN NoWorld
                     ELSE r.snapshots[SlotOf(r.snap.messageNum - span)].world
         IN  /\ d' = d /\ idx' = idx /\ loop' = "read"
             /\ DemosInv' /\ in'[d] = r /\ outSequence' = m
             /\ LastWritten' = serverMessageSequence[d]
             /\ LastWritten = serverMessageSequence[d] - 1
             /\ Shift' = Shift /\ Shift = outSequence - LastWritten
             /\ serverMessageSequence[d] \in Nat /\ outSequence \in Nat
             /\ Sound(r) /\ KeepsBase(r)
             /\ r.snap.messageNum <= serverMessageSequence[d]
             /\ out' = ParseSnapshot(out, m, span, Delta(base, r.snap.world))
             /\ Sound(out) /\ out.snap.messageNum <= outSequence
<1>1. /\ outSequence' = outSequence + 1 /\ loop' = "read"
      /\ UNCHANGED <<serverMessageSequence, in, idx>>
      /\ LET span == BaseDistance(in[d], force)
         IN  out' = ParseSnapshot(out, outSequence', span,
                      Delta(IF span = 0 THEN NoWorld
                            ELSE in[d].snapshots[SlotOf(in[d].snap.messageNum - span)].world,
                            in[d].snap.world))
  BY DEF WriteDeltaSnapshot, demoVars
<1>2. d \in Demos /\ d' = d
  BY <1>1, DemoAtWork DEF NumberInv, d
<1>3. /\ serverMessageSequence[d] \in Nat /\ outSequence \in Nat
      /\ Sound(in[d]) /\ KeepsBase(in[d])
      /\ in[d].snap.messageNum <= serverMessageSequence[d]
  BY <1>2 DEF WorldInv, DemosInv
<1>4. DemosInv'
  BY <1>1, <1>3 DEF WorldInv, DemosInv
<1>5. Sound(out) /\ out.snap.messageNum <= outSequence
  BY DEF WorldInv, OutInv
<1>6. /\ LastWritten' = serverMessageSequence[d]
      /\ LastWritten = serverMessageSequence[d] - 1
      /\ Shift' = Shift /\ Shift = outSequence - LastWritten
  BY <1>1, <1>2, <1>3 DEF LastWritten, Shift
<1> QED
  BY <1>1, <1>2, <1>3, <1>4, <1>5, <1>6

(* The output's reader accepts what is written. *)
LEMMA OutKept ==
  ASSUME NumberInv, WorldInv, loop = "write", NEW list, NEW force,
         WriteDeltaSnapshot(list, force),
         BaseDistance(in[d], force) \in 0 .. PacketBackup - 1
  PROVE  DemosInv' /\ OutInv'
<1> DEFINE r == in[d]
           m == outSequence + 1
           span == BaseDistance(r, force)
           diff == Delta(IF span = 0 THEN NoWorld
                         ELSE r.snapshots[SlotOf(r.snap.messageNum - span)].world,
                         r.snap.world)
<1>1. /\ loop' = "read" /\ DemosInv' /\ outSequence' = m
      /\ outSequence \in Nat /\ Sound(r) /\ KeepsBase(r)
      /\ out' = ParseSnapshot(out, m, span, diff)
      /\ Sound(out) /\ out.snap.messageNum <= outSequence
  BY WorldWritten
<1>2. span \in Nat /\ span < PacketBackup
  BY SlotsAssumption
<1>3. out.snap.messageNum \in Nat
  BY <1>1 DEF Sound, IsReader, IsSnap
<1>4. m \in Nat /\ m > out.snap.messageNum
  BY <1>1, <1>3
<1> HIDE DEF span, diff, m
<1>5. ParseFacts(out, m, span, diff, out')
  BY <1>1, <1>2, <1>4, ParseAt
<1>6. Sound(out') /\ out'.snap.messageNum <= m
  BY <1>4, <1>5, <1>3 DEF ParseFacts
<1> QED
  BY <1>1, <1>6 DEF OutInv

(* The first message of a cut brings the demo's world to the viewer. *)
LEMMA WorldBegin == ASSUME NumberInv, WorldInv, Begin PROVE WorldInv'
<1> DEFINE list == Introduction \o commands[d]
           r == in[d]
           m == outSequence + 1
           now == serverMessageSequence[d]
<1>1. loop = "write" /\ WriteDeltaSnapshot(list, TRUE) /\ origin' = now
  BY DEF Begin
<1> HIDE DEF list
<1>3. /\ d' = d /\ in'[d] = r /\ outSequence' = m
      /\ LastWritten' = now /\ LastWritten = now - 1
      /\ Shift' = Shift /\ Shift = outSequence - LastWritten
      /\ now \in Nat /\ outSequence \in Nat
      /\ Sound(r) /\ KeepsBase(r) /\ r.snap.messageNum <= now
      /\ BaseDistance(r, TRUE) = 0 =>
           out' = ParseSnapshot(out, m, 0, Delta(NoWorld, r.snap.world))
      /\ Sound(out) /\ out.snap.messageNum <= outSequence
  BY <1>1, WorldWritten
<1>4. IsWorld(r.snap.world) /\ out.snap.messageNum \in Nat /\ PacketBackup \in Nat \ {0}
  BY <1>3, SlotsAssumption DEF Sound, IsReader, IsSnap
<1>5. /\ Sound(out') /\ out'.snap.messageNum = m /\ out'.snap.world = r.snap.world
  <2>1. BaseDistance(r, TRUE) = 0
    BY <1>3, DistanceOf
  <2>2. m \in Nat /\ m > out.snap.messageNum
    BY <1>3, <1>4
  <2>3. out' = ParseSnapshot(out, m, 0, Delta(NoWorld, r.snap.world))
    BY <1>3, <2>1
  <2> HIDE DEF m, r
  <2>4. /\ ParseFacts(out, m, 0, Delta(NoWorld, r.snap.world), out')
        /\ out'.snap.messageNum = m /\ out'.snap.world = r.snap.world
    BY <1>3, <1>4, <2>2, <2>3, WrittenExact
  <2> QED
    BY <2>4 DEF ParseFacts
<1>2. DemosInv' /\ OutInv'
  <2> DEFINE zero == BaseDistance(r, TRUE)
  <2>1. zero = 0
    BY <1>3, DistanceOf
  <2>2. zero \in 0 .. PacketBackup - 1
    <3> HIDE DEF zero
    <3> QED
      BY <1>4, <2>1
  <2> QED
    BY <1>1, <2>2, OutKept
<1>6. CutInv'
  <2> SUFFICES ASSUME now > 0 PROVE CutInv'
    BY <1>1 DEF CutInv
  <2>1. HasWorld(out', m, r.snap.world)
    <3>1. out'.snapshots[SlotOf(m)] = out'.snap /\ out'.snap.valid
      BY <1>3, <1>5 DEF Sound, InPlace
    <3> QED
      BY <1>5, <3>1 DEF HasWorld, Has
  <2>2. Has(r, now) => r.snapshots[SlotOf(now)] = r.snap
    <3>1. SlotOf(now) \in Slots
      BY <1>3, SlotInRange
    <3>2. Has(r, now) => now = r.snap.messageNum /\ now > 0
      <4> HIDE DEF r, now
      <4>1. Has(r, now) => now > 0 /\ now <= r.snap.messageNum
        BY <1>3, HasBounds
      <4>2. r.snap.messageNum \in Nat
        BY <1>3 DEF Sound, IsReader, IsSnap
      <4> QED
        BY <1>3, <4>1, <4>2
    <3> QED
      BY <1>3, <3>1, <3>2 DEF Sound, InPlace
  <2>3. now + Shift' = m
    BY <1>3
  <2>4. origin' \in 1 .. LastWritten' /\ outSequence' > 0
    BY <1>1, <1>3
  <2>5. \A k \in origin' .. LastWritten' : k = now
    BY <1>1, <1>3
  <2> HIDE DEF m, r, now
  <2>6. \A k \in origin' .. LastWritten' :
          k > LastWritten' - PacketBackup /\ Has(in'[d'], k) =>
            HasWorld(out', k + Shift', in'[d'].snapshots[SlotOf(k)].world)
    BY <1>3, <2>1, <2>2, <2>3, <2>5
  <2>7. /\ out'.snap.messageNum = outSequence'
        /\ out'.snap.world = in'[d'].snap.world
    BY <1>3, <1>5
  <2> QED
    BY <2>4, <2>6, <2>7 DEF CutInv, Has, HasWorld
<1> QED
  BY <1>2, <1>6 DEF WorldInv

(* Where the base of a message that continues the cut is found. *)
LEMMA BaseInOutput ==
  ASSUME NumberInv, WorldInv, loop = "write", framesSaved[idx] > 0, origin > 0,
         ~ Misplaced, BaseDistance(in[d], FALSE) > 0
  PROVE  LET r    == in[d]
             span == BaseDistance(r, FALSE)
             far  == (outSequence + 1) - span
         IN  \/ HasWorld(out, far, r.snapshots[SlotOf(r.snap.messageNum - span)].world)
             \/ HasWorld(out, far, r.snap.world)
<1> DEFINE r == in[d]
           span == BaseDistance(r, FALSE)
           now == r.snap.messageNum
           last == serverMessageSequence[d]
           b == now - span
<1> SUFFICES \/ HasWorld(out, (outSequence + 1) - span, r.snapshots[SlotOf(now - span)].world)
             \/ HasWorld(out, (outSequence + 1) - span, r.snap.world)
  OBVIOUS
<1>1. d \in Demos /\ last \in Nat /\ outSequence \in Nat /\ PacketBackup \in Nat \ {0}
  BY DemoAtWork, SlotsAssumption DEF NumberInv, WorldInv, DemosInv
<1>2. Sound(r) /\ KeepsBase(r) /\ now <= last /\ now \in Nat
  BY <1>1 DEF WorldInv, DemosInv, Sound, IsReader, IsSnap
<1>3. span \in Nat /\ span < PacketBackup /\ span > 0 /\ b > 0 /\ Has(r, b)
  BY <1>2, DistanceOf
<1>4. b >= origin /\ (span > 1 => now = last)
  <2>1. /\ ~ (span > 0 /\ now - span < origin) /\ ~ (span > 1 /\ now < last)
    BY DEF Misplaced
  <2> HIDE DEF r, span, now, last
  <2>2. origin \in Int
    BY DEF WorldInv, CutInv
  <2> QED
    BY <1>1, <1>2, <1>3, <2>1, <2>2 DEF b
<1>5. LastWritten = last - 1 /\ Shift = outSequence - (last - 1)
  BY <1>1 DEF LastWritten, Shift
<1>6. /\ origin \in 1 .. last - 1
      /\ out.snap.messageNum = outSequence /\ outSequence > 0
      /\ \A k \in origin .. last - 1 :
           k > last - 1 - PacketBackup /\ Has(r, k) =>
             HasWorld(out, k + Shift, r.snapshots[SlotOf(k)].world)
      /\ now <= last - 1 => out.snap.world = r.snap.world
  BY <1>5 DEF WorldInv, CutInv
<1> HIDE DEF r, span, now, last
<1>7. CASE now = last
  <2>1. b \in origin .. last - 1 /\ b > last - 1 - PacketBackup
    BY <1>1, <1>2, <1>3, <1>4, <1>6, <1>7
  <2>2. HasWorld(out, b + Shift, r.snapshots[SlotOf(b)].world)
    BY <1>3, <1>6, <2>1
  <2>3. b + Shift = (outSequence + 1) - span
    BY <1>1, <1>3, <1>5, <1>7
  <2>4. HasWorld(out, (outSequence + 1) - span, r.snapshots[SlotOf(now - span)].world)
    BY <2>2, <2>3
  <2> QED
    BY <2>4
<1>8. CASE now < last
  <2>1. span = 1 /\ (outSequence + 1) - span = outSequence
    BY <1>1, <1>2, <1>3, <1>4, <1>8
  <2>2. out.snap.world = r.snap.world
    BY <1>1, <1>2, <1>6, <1>8
  <2>3. out.snapshots[SlotOf(outSequence)] = out.snap /\ out.snap.valid
    BY <1>6 DEF WorldInv, OutInv, Sound, InPlace
  <2>4. HasWorld(out, (outSequence + 1) - span, r.snap.world)
    BY <1>6, <2>1, <2>2, <2>3 DEF HasWorld, Has
  <2> QED
    BY <2>4
<1> QED
  BY <1>1, <1>2, <1>7, <1>8

(* So does each further one. *)
LEMMA WorldWrite == ASSUME NumberInv, WorldInv, Write PROVE WorldInv'
<1> DEFINE r == in[d]
           m == outSequence + 1
           now == serverMessageSequence[d]
           w == r.snap.world
           span == BaseDistance(r, FALSE)
           base == IF span = 0 THEN NoWorld
                   ELSE r.snapshots[SlotOf(r.snap.messageNum - span)].world
<1>1. /\ loop = "write" /\ framesSaved[idx] > 0
      /\ WriteDeltaSnapshot(commands[d], FALSE)
      /\ origin' = IF Misplaced THEN 0 ELSE origin
  BY DEF Write
<1>2. /\ d' = d /\ in'[d] = r /\ outSequence' = m
      /\ LastWritten' = now /\ LastWritten = now - 1
      /\ Shift' = Shift /\ Shift = outSequence - LastWritten
      /\ now \in Nat /\ outSequence \in Nat
      /\ Sound(r) /\ KeepsBase(r) /\ r.snap.messageNum <= now
      /\ out' = ParseSnapshot(out, m, span, Delta(base, w))
      /\ Sound(out) /\ out.snap.messageNum <= outSequence
  BY <1>1, WorldWritten
<1>3. span \in Nat /\ span < PacketBackup
  BY <1>2, DistanceOf
<1>4. /\ IsWorld(w) /\ out.snap.messageNum \in Nat /\ r.snap.messageNum \in Nat
      /\ PacketBackup \in Nat \ {0}
  BY <1>2, SlotsAssumption DEF Sound, IsReader, IsSnap
<1>5. DemosInv' /\ OutInv'
  <2>1. span \in 0 .. PacketBackup - 1
    <3> HIDE DEF span
    <3> QED
      BY <1>3, <1>4
  <2> QED
    BY <1>1, <2>1, OutKept
<1>6. CutInv'
  <2> SUFFICES ASSUME origin > 0, ~ Misplaced PROVE CutInv'
    BY <1>1 DEF CutInv
  <2>0. origin' = origin
    BY <1>1
  <2>1. /\ origin \in 1 .. now - 1
        /\ out.snap.messageNum = outSequence /\ outSequence > 0
        /\ \A k \in origin .. now - 1 :
             k > now - 1 - PacketBackup /\ Has(r, k) =>
               HasWorld(out, k + Shift, r.snapshots[SlotOf(k)].world)
    BY <1>1, <1>2 DEF WorldInv, CutInv
  <2>2. span > 0 => HasWorld(out, m - span, base) \/ HasWorld(out, m - span, w)
    <3> SUFFICES ASSUME span > 0
                 PROVE  HasWorld(out, m - span, base) \/ HasWorld(out, m - span, w)
      OBVIOUS
    <3>1. base = r.snapshots[SlotOf(r.snap.messageNum - span)].world
      <4> HIDE DEF span, r
      <4> QED
        BY <1>3
    <3>2. \/ HasWorld(out, m - span, r.snapshots[SlotOf(r.snap.messageNum - span)].world)
          \/ HasWorld(out, m - span, w)
      BY <1>1, BaseInOutput
    <3> HIDE DEF base
    <3> QED
      BY <3>1, <3>2
  <2>3. span = 0 => base = NoWorld
    OBVIOUS
  <2>4. m \in Nat /\ m > out.snap.messageNum /\ m = outSequence + 1
    BY <1>2, <1>4
  <2> HIDE DEF r, m, now, w, span, base
  <2>5. /\ ParseFacts(out, m, span, Delta(base, w), out')
        /\ out'.snap.messageNum = m /\ out'.snap.world = w
    BY <1>2, <1>3, <1>4, <2>2, <2>3, <2>4, WrittenExact
  <2>6. Has(r, now) => r.snapshots[SlotOf(now)] = r.snap
    <3>1. SlotOf(now) \in Slots
      BY <1>2, SlotInRange
    <3>2. Has(r, now) => now > 0 /\ now = r.snap.messageNum
      <4>1. Has(r, now) => now > 0 /\ now <= r.snap.messageNum
        BY <1>2, HasBounds
      <4> QED
        BY <1>2, <1>4, <4>1
    <3> QED
      BY <1>2, <3>1, <3>2 DEF Sound, InPlace
  <2>7. HasWorld(out', m, w)
    <3>1. out'.snapshots[SlotOf(m)] = out'.snap /\ out'.snap.valid
      BY <1>4, <2>4, <2>5 DEF ParseFacts, Sound, InPlace
    <3> QED
      BY <2>5, <3>1 DEF HasWorld, Has
  <2>8. ASSUME NEW k \in origin .. now, k > now - PacketBackup, Has(r, k)
        PROVE  HasWorld(out', k + Shift, r.snapshots[SlotOf(k)].world)
    <3>1. CASE k = now
      <4>1. k + Shift = m
        BY <1>2, <2>4, <3>1
      <4> QED
        BY <2>6, <2>7, <2>8, <3>1, <4>1 DEF w
    <3>2. CASE k < now
      <4>1. k \in origin .. now - 1 /\ k > now - 1 - PacketBackup
        BY <1>2, <1>4, <2>1, <2>8, <3>2
      <4>2. HasWorld(out, k + Shift, r.snapshots[SlotOf(k)].world)
        BY <2>1, <2>8, <4>1
      <4>3. k + Shift \in Int /\ k + Shift > m - PacketBackup /\ k + Shift < m
        BY <1>2, <1>4, <2>1, <2>4, <2>8, <3>2
      <4>4. out'.snapshots[SlotOf(k + Shift)] = out.snapshots[SlotOf(k + Shift)]
        BY <2>5, <4>2, <4>3 DEF ParseFacts, HasWorld
      <4> QED
        BY <4>2, <4>4 DEF HasWorld, Has
    <3> QED
      BY <1>2, <2>1, <3>1, <3>2
  <2>9. origin \in 1 .. now /\ m > 0
    BY <1>2, <2>1, <2>4
  <2>10. /\ origin' \in 1 .. LastWritten'
         /\ out'.snap.messageNum = outSequence' /\ outSequence' > 0
         /\ \A k \in origin' .. LastWritten' :
              k > LastWritten' - PacketBackup /\ Has(in'[d'], k) =>
                HasWorld(out', k + Shift', in'[d'].snapshots[SlotOf(k)].world)
         /\ out'.snap.world = in'[d'].snap.world
    BY <1>2, <2>0, <2>5, <2>8, <2>9 DEF w
  <2> QED
    BY <2>10 DEF CutInv, Has, HasWorld
<1> QED
  BY <1>5, <1>6 DEF WorldInv

(* Every step keeps WorldInv. *)
LEMMA WorldNext == ASSUME NumberInv, WorldInv, [Next]_vars PROVE WorldInv'
<1>1. CASE UNCHANGED vars
  <2>1. /\ UNCHANGED <<serverMessageSequence, in, out, outSequence, idx, loop, framesSaved,
                        origin>>
    BY <1>1 DEF vars, demoVars, outVars
  <2>2. d' = d /\ LastWritten' = LastWritten /\ Shift' = Shift
    BY <2>1 DEF d, LastWritten, Shift
  <2>3. DemosInv' /\ OutInv'
    BY <2>1 DEF WorldInv, DemosInv, OutInv
  <2>4. CutInv'
    BY <2>1, <2>2 DEF WorldInv, CutInv, Has, HasWorld
  <2> QED
    BY <2>3, <2>4 DEF WorldInv
<1> QED
  BY <1>1, WorldReadEarly, WorldReadNext, WorldLose, WorldIdle, WorldHeader, WorldBegin,
     WorldWrite DEF Next

(* What the output has of the demo at work. *)
THEOREM OutputFollowsDemo == Spec => []WorldInv
<1>1. NumberInv /\ WorldInv /\ [Next]_vars => WorldInv'
  BY WorldNext
<1> QED
  BY CommandNumbers, WorldInit, <1>1, PTL DEF Spec

(* Whoever watches the merged demo sees what each demo's own reader saw,   *)
(* whatever was in the slots before: the way writeDeltaSnapshot numbers    *)
(* messages and chooses bases.                                             *)
THEOREM OutputExactAlways == Spec => []OutputExact
<1>1. NumberInv /\ WorldInv => OutputExact
  <2> SUFFICES ASSUME NumberInv, WorldInv, loop = "read", origin > 0
               PROVE  /\ out.snap.messageNum = outSequence
                      /\ out.snap.world = in[d].snap.world
    BY DEF OutputExact, JustWritten
  <2>1. framesSaved[idx] > 0
    BY DEF NumberInv, Frames
  <2>2. d \in Demos /\ in[d].snap.messageNum <= LastWritten
    BY DemoAtWork DEF NumberInv, WorldInv, DemosInv, LastWritten
  <2> QED
    BY <2>1, <2>2 DEF WorldInv, CutInv
<1> QED
  BY CommandNumbers, OutputFollowsDemo, <1>1, PTL

-----------------------------------------------------------------------------
(* What the team info is while a message is to be written, and what the    *)
(* viewer's is when it is written.                                         *)
TeamInv ==
  /\ lastTeamInfo = [e \in Demos |-> lastTeamInfo[e]]
  /\ loop \in {"header", "write"} /\ HasCommand(commands[d], "tinfo") =>
       lastTeamInfo[d] = Said(commands[d], "tinfo", NoString)
  /\ /\ loop \in {"write", "read"} /\ idx > 1 /\ framesSaved[idx] > 0
     /\ AllWritten /\ lastTeamInfo[d] # NoString
     => lastTeamInfo[d] = IF loop = "read" THEN outTeamInfo
                          ELSE Said(commands[d], "tinfo", outTeamInfo)

(* The last command of a kind. *)
IsLast(list, cmd, j) ==
  /\ j \in 1 .. Len(list) /\ list[j].cmd = cmd
  /\ \A k \in 1 .. Len(list) : list[k].cmd = cmd => k <= j

(* A list that has a command has a last one of it. *)
LEMMA LastThere ==
  ASSUME NEW X, NEW list \in Seq(X), NEW cmd, HasCommand(list, cmd)
  PROVE  \E j : IsLast(list, cmd, j)
<1> DEFINE n == Len(list)
           Of == {k \in 1 .. n : list[k].cmd = cmd}
           S == {n - k : k \in Of}
<1>1. n \in Nat /\ DOMAIN list = 1 .. n
  OBVIOUS
<1>2. Of # {} /\ Of \subseteq 1 .. n
  BY <1>1 DEF HasCommand
<1> HIDE DEF n
<1>3. S # {} /\ S \in SUBSET Nat
  <2> HIDE DEF Of
  <2>1. \A k \in Of : n - k \in Nat
    BY <1>1, <1>2
  <2>2. PICK k \in Of : TRUE
    BY <1>2
  <2>3. n - k \in S
    BY <2>2
  <2> QED
    BY <2>1, <2>3
<1>4. PICK x \in S : \A y \in S : x <= y
  <2> HIDE DEF S
  <2> QED
    BY <1>3, LeastOf
<1>5. PICK j \in Of : x = n - j
  BY <1>4
<1>6. \A k \in Of : n - j <= n - k
  BY <1>4, <1>5
<1>7. \A k \in Of : k <= j
  <2> HIDE DEF Of
  <2> QED
    BY <1>1, <1>2, <1>5, <1>6
<1> QED
  BY <1>5, <1>7 DEF IsLast, n

(* What a list says of a command is what the last one says. *)
LEMMA SaidAt ==
  ASSUME NEW X, NEW list \in Seq(X), NEW cmd, NEW was, NEW j, IsLast(list, cmd, j)
  PROVE  Said(list, cmd, was) = list[j].says
<1> DEFINE Ok(i) == /\ list[i].cmd = cmd
                    /\ \A k \in DOMAIN list : list[k].cmd = cmd => k <= i
<1>1. DOMAIN list = 1 .. Len(list) /\ Len(list) \in Nat
  OBVIOUS
<1>2. j \in DOMAIN list /\ Ok(j) /\ HasCommand(list, cmd)
  BY <1>1 DEF IsLast, HasCommand
<1>3. \A i \in DOMAIN list : Ok(i) => i = j
  BY <1>1, <1>2
<1>4. (CHOOSE i \in DOMAIN list : Ok(i)) = j
  <2> HIDE DEF Ok
  <2> QED
    BY <1>2, <1>3
<1> QED
  BY <1>2, <1>4 DEF Said

(* If there is one, what was before does not matter, ...                   *)
LEMMA SaidSame ==
  ASSUME NEW list, NEW cmd, NEW was
  PROVE  IF HasCommand(list, cmd) THEN \A x : Said(list, cmd, was) = Said(list, cmd, x)
                                  ELSE Said(list, cmd, was) = was
BY DEF Said

(* ... nor do the commands before. *)
LEMMA SaidAfter ==
  ASSUME NEW X, NEW a \in Seq(X), NEW b \in Seq(X), NEW cmd, HasCommand(b, cmd), NEW was
  PROVE  Said(a \o b, cmd, was) = Said(b, cmd, was)
<1>1. PICK j : IsLast(b, cmd, j)
  BY LastThere
<1>2. /\ a \o b \in Seq(X) /\ Len(a \o b) = Len(a) + Len(b)
      /\ Len(a) \in Nat /\ Len(b) \in Nat
      /\ \A k \in 1 .. Len(a) + Len(b) :
           (a \o b)[k] = IF k <= Len(a) THEN a[k] ELSE b[k - Len(a)]
  OBVIOUS
<1>3. IsLast(a \o b, cmd, Len(a) + j)
  <2>1. j \in 1 .. Len(b) /\ b[j].cmd = cmd
    BY <1>1 DEF IsLast
  <2>2. Len(a) + j \in 1 .. Len(a \o b) /\ (a \o b)[Len(a) + j] = b[j]
    BY <1>2, <2>1
  <2>3. ASSUME NEW k \in 1 .. Len(a \o b), (a \o b)[k].cmd = cmd
        PROVE  k <= Len(a) + j
    <3>1. CASE k <= Len(a)
      BY <1>2, <2>1, <3>1
    <3>2. CASE k > Len(a)
      <4>1. k - Len(a) \in 1 .. Len(b) /\ b[k - Len(a)].cmd = cmd
        BY <1>2, <2>3, <3>2
      <4>2. k - Len(a) <= j
        BY <1>1, <4>1 DEF IsLast
      <4> QED
        BY <1>2, <2>1, <4>2
    <3> QED
      BY <1>2, <3>1, <3>2
  <2> QED
    BY <2>1, <2>2, <2>3 DEF IsLast
<1>4. (a \o b)[Len(a) + j] = b[j]
  BY <1>1, <1>2 DEF IsLast
<1>5. Said(a \o b, cmd, was) = (a \o b)[Len(a) + j].says
  BY <1>2, <1>3, SaidAt
<1>6. Said(b, cmd, was) = b[j].says
  BY <1>1, SaidAt
<1> QED
  BY <1>4, <1>5, <1>6

(* A command put in front counts if no later one says anything. *)
LEMMA SaidBefore ==
  ASSUME NEW X, NEW a \in Seq(X), NEW c \in X, NEW b \in Seq(X), ~ HasCommand(b, c.cmd),
         NEW was
  PROVE  Said((a \o <<c>>) \o b, c.cmd, was) = c.says
<1> DEFINE ac == a \o <<c>>
           l == Len(a)
<1>1. /\ ac \in Seq(X) /\ l \in Nat /\ Len(ac) = l + 1 /\ ac[l + 1] = c
  OBVIOUS
<1> HIDE DEF ac, l
<1>2. /\ ac \o b \in Seq(X) /\ Len(ac \o b) = l + 1 + Len(b) /\ Len(b) \in Nat
      /\ \A k \in 1 .. l + 1 + Len(b) :
           (ac \o b)[k] = IF k <= l + 1 THEN ac[k] ELSE b[k - (l + 1)]
  BY <1>1
<1>3. (ac \o b)[l + 1] = c
  BY <1>1, <1>2
<1>4. IsLast(ac \o b, c.cmd, l + 1)
  <2>1. ASSUME NEW k \in 1 .. Len(ac \o b), (ac \o b)[k].cmd = c.cmd
        PROVE  k <= l + 1
    <3> SUFFICES ASSUME k > l + 1 PROVE FALSE
      BY <1>1, <1>2
    <3>1. k - (l + 1) \in DOMAIN b /\ b[k - (l + 1)].cmd = c.cmd
      BY <1>1, <1>2, <2>1
    <3> QED
      BY <3>1 DEF HasCommand
  <2> QED
    BY <1>1, <1>2, <1>3, <2>1 DEF IsLast
<1>5. Said(ac \o b, c.cmd, was) = (ac \o b)[l + 1].says
  BY <1>2, <1>4, SaidAt
<1> QED
  BY <1>3, <1>5 DEF ac

(* The viewer takes all commands if it has none of them yet. *)
LEMMA HearAll ==
  ASSUME NEW X, NEW list \in Seq(X), NEW first \in Int, outCommandSequence \in Int,
         outCommandSequence < first, Hear(list, first)
  PROVE  outTeamInfo' = Said(list, "tinfo", outTeamInfo)
<1> DEFINE known == {j \in DOMAIN list : first + j - 1 <= outCommandSequence}
           new == [j \in 1 .. Len(list) - Cardinality(known) |-> list[j + Cardinality(known)]]
<1>1. DOMAIN list = 1 .. Len(list) /\ Len(list) \in Nat
      /\ list = [j \in 1 .. Len(list) |-> list[j]]
  OBVIOUS
<1>2. known = {}
  BY <1>1
<1>3. Cardinality(known) = 0
  BY <1>2, FS_EmptySet
<1>4. new = list
  <2> HIDE DEF known
  <2>1. new = [j \in 1 .. Len(list) |-> list[j]]
    BY <1>1, <1>3
  <2> QED
    BY <1>1, <2>1
<1>5. outTeamInfo' = Said(new, "tinfo", outTeamInfo)
  BY DEF Hear
<1> HIDE DEF new
<1> QED
  BY <1>4, <1>5

(* The team info at the start. *)
LEMMA TeamInit == Init => TeamInv
<1> SUFFICES ASSUME Init PROVE TeamInv
  OBVIOUS
<1>1. loop = "parse" /\ lastTeamInfo = [e \in Demos |-> NoString]
  BY DEF Init
<1> QED
  BY <1>1 DEF TeamInv

(* What RunCommands makes of the commands. *)
LEMMA TeamRun ==
  ASSUME CommandTypes, TeamInv, NEW new, RunCommands(new), d' = d
  PROVE  /\ lastTeamInfo' = [e \in Demos |-> lastTeamInfo'[e]]
         /\ lastTeamInfo'[d'] = Said(commands'[d], "tinfo", lastTeamInfo[d])
         /\ HasCommand(commands'[d'], "tinfo") =>
              lastTeamInfo'[d'] = Said(commands'[d'], "tinfo", NoString)
<1> DEFINE said == Said(commands'[d], "tinfo", lastTeamInfo[d])
<1>1. /\ d \in Demos /\ lastTeamInfo' = [lastTeamInfo EXCEPT ![d] = said]
      /\ lastTeamInfo = [e \in Demos |-> lastTeamInfo[e]]
  BY DemoAtWork DEF TeamInv, RunCommands, Put
<1>2. HasCommand(commands'[d], "tinfo") => said = Said(commands'[d], "tinfo", NoString)
  BY SaidSame
<1> HIDE DEF said
<1>3. /\ lastTeamInfo' = [e \in Demos |-> lastTeamInfo'[e]]
      /\ lastTeamInfo'[d] = said
  BY <1>1
<1> QED
  BY <1>2, <1>3 DEF said

(* In front of a cut the demo's team info is what its commands said. *)
LEMMA TeamReadEarly ==
  ASSUME NumberInv, TeamInv, NEW w, NEW span, NEW new,
         ReadEarly(w, span, new) \/ ParseDemoContext(w, span, new)
  PROVE  TeamInv'
<1>1. /\ ReadMessage(w, span, new) /\ loop = "parse"
      /\ framesSaved' = framesSaved /\ idx' = idx
  BY DEF ReadEarly, ParseDemoContext, ReadMessage
<1>2. framesSaved'[idx'] = 0
  BY <1>1 DEF NumberInv, Frames
<1>3. CASE ReadEarly(w, span, new)
  <2>1. loop' = "parse" /\ lastTeamInfo' = lastTeamInfo
    BY <1>1, <1>3 DEF ReadEarly
  <2> QED
    BY <2>1 DEF TeamInv
<1>4. CASE ParseDemoContext(w, span, new)
  <2>1. RunCommands(new) /\ d' = d
    BY <1>1, <1>4 DEF ParseDemoContext, d
  <2>2. /\ lastTeamInfo' = [e \in Demos |-> lastTeamInfo'[e]]
        /\ HasCommand(commands'[d'], "tinfo") =>
             lastTeamInfo'[d'] = Said(commands'[d'], "tinfo", NoString)
    BY <2>1, TeamRun DEF NumberInv
  <2> QED
    BY <1>2, <2>2 DEF TeamInv
<1> QED
  BY <1>3, <1>4

(* A message of the cut may say something new, which then waits. *)
LEMMA TeamReadNext ==
  ASSUME NumberInv, TeamInv, NEW w, NEW span, NEW new, ReadNextMessage(w, span, new)
  PROVE  TeamInv'
<1>1. /\ loop = "read" /\ loop' = "write" /\ RunCommands(new) /\ d' = d
      /\ UNCHANGED <<framesSaved, idx, outTeamInfo>>
  BY DEF ReadNextMessage, ReadMessage, outVars, d
<1>2. /\ lastTeamInfo' = [e \in Demos |-> lastTeamInfo'[e]]
      /\ lastTeamInfo'[d'] = Said(commands'[d], "tinfo", lastTeamInfo[d])
      /\ HasCommand(commands'[d'], "tinfo") =>
           lastTeamInfo'[d'] = Said(commands'[d'], "tinfo", NoString)
  BY <1>1, TeamRun DEF NumberInv
<1>3. ASSUME idx > 1, framesSaved[idx] > 0, AllWritten, lastTeamInfo'[d] # NoString
      PROVE  lastTeamInfo'[d] = Said(commands'[d], "tinfo", outTeamInfo)
  <2>1. CASE HasCommand(commands'[d], "tinfo")
    BY <1>1, <1>2, <2>1, SaidSame
  <2>2. CASE ~ HasCommand(commands'[d], "tinfo")
    <3>1. /\ lastTeamInfo'[d] = lastTeamInfo[d]
          /\ Said(commands'[d], "tinfo", outTeamInfo) = outTeamInfo
      BY <1>1, <1>2, <2>2, SaidSame
    <3> QED
      BY <1>1, <1>3, <3>1 DEF TeamInv
  <2> QED
    BY <2>1, <2>2
<1>4. AllWritten' = AllWritten
  BY <1>1 DEF AllWritten
<1> QED
  BY <1>1, <1>2, <1>3, <1>4 DEF TeamInv

(* Of all that is written the viewer takes the last team info. *)
LEMMA TeamHeard ==
  ASSUME NumberInv, TeamInv, NEW X, NEW list \in Seq(X), NEW forced, FollowsDue,
         WriteDeltaSnapshot(list, forced), serverCommandOffset' \in Int
  PROVE  /\ loop' = "read" /\ d' = d /\ idx' = idx /\ lastTeamInfo' = lastTeamInfo
         /\ AllWritten => outTeamInfo' = Said(list, "tinfo", outTeamInfo)
<1> DEFINE first == serverCommandSequence[d] - Len(list) + 1
<1>1. /\ loop' = "read" /\ idx' = idx /\ lastTeamInfo' = lastTeamInfo
      /\ firstServerCommand' = [firstServerCommand EXCEPT ![idx] = first]
      /\ Hear(list, first + serverCommandOffset')
  BY DEF WriteDeltaSnapshot, demoVars
<1>2. /\ serverCommandSequence[d] \in Int /\ idx \in Cuts /\ outCommandSequence \in Int
      /\ Len(list) \in Nat /\ firstServerCommand'[idx] = first
  BY <1>1, DemoAtWork DEF NumberInv, CommandTypes
<1>3. ASSUME AllWritten
      PROVE  outTeamInfo' = Said(list, "tinfo", outTeamInfo)
  <2>1. first + serverCommandOffset' \in Int /\ outCommandSequence < first + serverCommandOffset'
    BY <1>2, <1>3 DEF FollowsDue
  <2> HIDE DEF first
  <2> QED
    BY <1>1, <1>2, <2>1, HearAll
<1> QED
  BY <1>1, <1>3 DEF d

(* After the first cut, what is written was so before. *)
LEMMA OthersWritten ==
  ASSUME NumberInv, NEW list, NEW forced, WriteDeltaSnapshot(list, forced), idx > 1, AllWritten'
  PROVE  AllWritten
<1>1. idx' = idx /\ framesSaved' = [framesSaved EXCEPT ![idx] = framesSaved[idx] + 1]
  BY DEF WriteDeltaSnapshot
<1>2. /\ idx \in 1 .. Len(CutDemos) /\ Len(CutDemos) \in Nat
      /\ framesSaved \in [1 .. Len(CutDemos) -> Nat]
  <2>1. Cuts = 1 .. Len(CutDemos) /\ Len(CutDemos) \in Nat
    BY MergerAssumption DEF Cuts
  <2> QED
    BY <2>1, DemoAtWork DEF NumberInv, CommandTypes
<1>3. \A i \in 1 .. idx - 1 : framesSaved'[i] = framesSaved[i]
  BY <1>1, <1>2
<1> QED
  BY <1>1, <1>3 DEF AllWritten

(* The viewer is told what the commands of the message say. *)
LEMMA TeamWrite == ASSUME NumberInv, TeamInv, Write PROVE TeamInv'
<1>1. /\ loop = "write" /\ framesSaved[idx] > 0
      /\ WriteDeltaSnapshot(commands[d], FALSE)
      /\ serverCommandOffset' = serverCommandOffset
  BY DEF Write
<1>2. commands[d] \in Seq(Heard) /\ serverCommandOffset' \in Int
  BY <1>1, DemoAtWork DEF NumberInv, CommandTypes
<1>3. FollowsDue
  BY WriteKeeps
<1>4. /\ loop' = "read" /\ d' = d /\ idx' = idx /\ lastTeamInfo' = lastTeamInfo
      /\ AllWritten => outTeamInfo' = Said(commands[d], "tinfo", outTeamInfo)
  BY <1>1, <1>2, <1>3, TeamHeard
<1>5. idx > 1 /\ AllWritten' => AllWritten
  BY <1>1, <1>4, OthersWritten
<1>6. idx > 1 /\ AllWritten' /\ lastTeamInfo[d] # NoString => outTeamInfo' = lastTeamInfo[d]
  BY <1>1, <1>4, <1>5 DEF TeamInv
<1> QED
  BY <1>4, <1>6 DEF TeamInv

(* What a later cut begins with ends with the team info. *)
LEMMA IntroductionTeam ==
  ASSUME idx > 1, lastTeamInfo[d] # NoString
  PROVE  \E x \in Seq({Cs(configstring[d])}) : Introduction = x \o <<TInfo(lastTeamInfo[d])>>
<1>1. <<>> \in Seq({Cs(configstring[d])}) /\ <<Cs(configstring[d])>> \in Seq({Cs(configstring[d])})
  OBVIOUS
<1>2. idx # 1
  OBVIOUS
<1> QED
  BY <1>1, <1>2 DEF Introduction

(* The introduction of a cut tells it, where the demo has it. *)
LEMMA TeamBegin == ASSUME NumberInv, TeamInv, Begin PROVE TeamInv'
<1> DEFINE last == lastTeamInfo[d]
           All == Heard \cup {Cs(configstring[d]), TInfo(last)}
           list == Introduction \o commands[d]
<1>1. loop = "write" /\ framesSaved[idx] = 0 /\ WriteDeltaSnapshot(list, TRUE)
  BY DEF Begin
<1>2. FollowsDue /\ serverCommandOffset' \in Int
  BY BeginKeeps DEF NumberInv, CommandTypes
<1>3. commands[d] \in Seq(Heard) /\ idx \in 1 .. Len(CutDemos)
  BY DemoAtWork DEF NumberInv, CommandTypes
<1>4. loop' = "read" /\ d' = d /\ idx' = idx /\ lastTeamInfo' = lastTeamInfo
  BY <1>1 DEF WriteDeltaSnapshot, demoVars, d
<1>5. ASSUME idx > 1, AllWritten', last # NoString
      PROVE  outTeamInfo' = last
  <2>1. AllWritten
    BY <1>1, <1>4, <1>5, OthersWritten
  <2>2. PICK x \in Seq({Cs(configstring[d])}) : Introduction = x \o <<TInfo(last)>>
    BY <1>5, IntroductionTeam
  <2>3. /\ x \in Seq(All) /\ TInfo(last) \in All /\ commands[d] \in Seq(All)
    BY <1>3, <2>2
  <2> HIDE DEF All
  <2>4. Introduction \in Seq(All) /\ list \in Seq(All)
    <3>1. x \o <<TInfo(last)>> \in Seq(All)
      BY <2>3
    <3>2. Introduction \in Seq(All)
      BY <2>2, <3>1
    <3> QED
      BY <2>3, <3>2
  <2>5. outTeamInfo' = Said(list, "tinfo", outTeamInfo)
    <3> HIDE DEF list
    <3> QED
      BY <1>1, <1>2, <2>1, <2>4, TeamHeard
  <2>6. CASE HasCommand(commands[d], "tinfo")
    <3>1. Said(list, "tinfo", outTeamInfo) = Said(commands[d], "tinfo", outTeamInfo)
      BY <2>3, <2>4, <2>6, SaidAfter
    <3>2. Said(commands[d], "tinfo", outTeamInfo) = Said(commands[d], "tinfo", NoString)
      BY <2>6, SaidSame
    <3> QED
      BY <1>1, <2>5, <2>6, <3>1, <3>2 DEF TeamInv
  <2>7. CASE ~ HasCommand(commands[d], "tinfo")
    <3> DEFINE c == TInfo(last)
    <3>1. c.cmd = "tinfo" /\ c.says = last
      BY DEF TInfo
    <3>2. c \in All
      BY <2>3
    <3> HIDE DEF c
    <3>3. Said((x \o <<c>>) \o commands[d], c.cmd, outTeamInfo) = c.says
      BY <2>3, <2>7, <3>1, <3>2, SaidBefore
    <3>4. Said(list, "tinfo", outTeamInfo) = last
      BY <2>2, <3>1, <3>3 DEF c
    <3> QED
      BY <2>5, <3>4
  <2> QED
    BY <2>6, <2>7
<1> QED
  BY <1>4, <1>5 DEF TeamInv

(* Every step keeps TeamInv. *)
LEMMA TeamNext == ASSUME NumberInv, TeamInv, [Next]_vars PROVE TeamInv'
<1>1. CASE Lose
  <2>1. UNCHANGED <<lastTeamInfo, commands, framesSaved, idx, loop, outTeamInfo>>
    BY <1>1 DEF Lose, outVars
  <2> QED
    BY <2>1 DEF TeamInv, d, AllWritten
<1>2. CASE NoMessage
  <2>1. loop' \in {"failed", "done"} /\ lastTeamInfo' = lastTeamInfo
    BY <1>2 DEF NoMessage, demoVars
  <2> QED
    BY <2>1 DEF TeamInv
<1>3. CASE WriteHeader
  <2>1. /\ loop = "header" /\ loop' = "write"
        /\ UNCHANGED <<lastTeamInfo, commands, framesSaved, idx>>
    BY <1>3 DEF WriteHeader, demoVars
  <2>2. framesSaved[idx] = 0
    BY <2>1 DEF NumberInv, Frames
  <2> QED
    BY <2>1, <2>2 DEF TeamInv, d
<1>4. CASE NextCut
  <2>1. loop' \in {"parse", "done"} /\ lastTeamInfo' = lastTeamInfo
    BY <1>4 DEF NextCut, demoVars
  <2> QED
    BY <2>1 DEF TeamInv
<1>5. CASE UNCHANGED vars
  <2>1. UNCHANGED <<lastTeamInfo, commands, framesSaved, idx, loop, outTeamInfo>>
    BY <1>5 DEF vars, demoVars, outVars
  <2> QED
    BY <2>1 DEF TeamInv, d, AllWritten
<1> QED
  BY <1>1, <1>2, <1>3, <1>4, <1>5, TeamReadEarly, TeamReadNext, TeamWrite, TeamBegin DEF Next

(* The team info of whoever watches a later cut is the one of its demo,    *)
(* whatever the cuts before left, whether it came with the cut's own       *)
(* commands or was put in front of them (demo_merger.cpp).                 *)
THEOREM TeamInfoAlways == Spec => []TeamInfoExact
<1>1. NumberInv /\ TeamInv /\ [Next]_vars => TeamInv'
  BY TeamNext
<1>2. NumberInv /\ TeamInv => TeamInfoExact
  <2> SUFFICES ASSUME NumberInv, TeamInv, loop = "read", idx > 1, lastTeamInfo[d] # NoString,
                      \A i \in 1 .. idx - 1 : framesSaved[i] > 0
               PROVE  outTeamInfo = lastTeamInfo[d]
    BY DEF TeamInfoExact, JustWritten
  <2>1. framesSaved[idx] > 0
    BY DEF NumberInv, Frames
  <2> QED
    BY <2>1 DEF TeamInv, AllWritten
<1> QED
  BY CommandNumbers, TeamInit, <1>1, <1>2, PTL DEF Spec
=============================================================================
