--------------------------- MODULE TrimmerProofs ---------------------------
(***************************************************************************)
(* The trimmer, for any number of messages, any losses and any cut: the    *)
(* only commands it loses are those that come with two newer ones in a     *)
(* message that is coded anew, what the output's reader accepts is what    *)
(* the trimmer saw, and a message that is copied finds its base in the     *)
(* output.                                                                 *)
(***************************************************************************)
EXTENDS Trimmer, SlotProofs, WellFoundedInduction

(* What is known of commands between two steps of the loop, and in between *)
(* when a message was read and what is new in it was not written yet.      *)
CommandTypes ==
  /\ serverCommandSequence \in Nat /\ issued \in Nat
  /\ lastExecutedServerCommand \in 0 .. serverCommandSequence
  /\ serverCommandSequence <= issued
  /\ framesSaved \in Nat
  /\ loop \in {"read", "write", "done"}
  /\ msg.from \in Nat

HasMark(r) == "newSnapshots" \in DOMAIN r /\ r.newSnapshots \in BOOLEAN

(* A reader keeps its fields, and the cut starts after the first snapshot. *)
ReaderKept ==
  /\ HasMark(in)
  /\ framesSaved > 0 => in.newSnapshots

Written ==
  framesSaved > 0 /\ loop = "read" =>
    /\ lastExecutedServerCommand = serverCommandSequence
    /\ outCommandSequence = serverCommandSequence

(* The output's reader is at the last command run through, and all that    *)
(* came since is in the message.                                           *)
Unwritten ==
  loop = "write" =>
    /\ issued = serverCommandSequence
    /\ framesSaved > 0 =>
         /\ msg.from <= lastExecutedServerCommand + 1
         /\ outCommandSequence = lastExecutedServerCommand

CommandInv == CommandTypes /\ ReaderKept /\ Written /\ Unwritten

-----------------------------------------------------------------------------
(* A reader that is given commands up to hi is then at hi. *)
LEMMA AfterInterval ==
  ASSUME NEW seq \in Int, NEW lo \in Int, NEW hi \in Int,
         seq <= hi, lo <= hi \/ seq = hi
  PROVE  After(seq, lo .. hi) = hi
<1>1. CASE seq = hi
  <2>1. Taken(seq, lo .. hi) = {}
    BY <1>1 DEF Taken
  <2> QED
    BY <1>1, <2>1 DEF After
<1>2. CASE seq < hi
  <2>1. hi \in lo .. hi /\ hi \in Taken(seq, lo .. hi)
    BY <1>2 DEF Taken
  <2>2. \A c \in lo .. hi : (\A d \in lo .. hi : d <= c) => c = hi
    BY <2>1
  <2>3. (CHOOSE c \in lo .. hi : \A d \in lo .. hi : d <= c) = hi
    BY <2>1, <2>2
  <2> QED
    BY <2>1, <2>3 DEF After
<1> QED
  BY <1>1, <1>2

(* A snapshot that is stored leaves the mark that there was one, and       *)
(* nothing takes the mark back.                                            *)
LEMMA MarkStored ==
  ASSUME NEW r, NEW s, "newSnapshots" \in DOMAIN r
  PROVE  /\ "newSnapshots" \in DOMAIN StoreSnap(r, s)
         /\ StoreSnap(r, s).newSnapshots = TRUE
<1> DEFINE new == [i \in Slots |->
              IF i = SlotOf(s.messageNum) THEN s
              ELSE [r.snapshots[i] EXCEPT
                      !.valid = @ /\ i \notin {SlotOf(k) : k \in Skipped(r, s.messageNum)}]]
           r1 == [r EXCEPT !.snap = s]
           r2 == [r1 EXCEPT !.newSnapshots = TRUE]
<1>1. DOMAIN r1 = DOMAIN r
  OBVIOUS
<1>2. DOMAIN r2 = DOMAIN r /\ r2.newSnapshots = TRUE
  BY <1>1
<1> QED
  BY <1>1, <1>2 DEF StoreSnap

(* A reader stays one that remembers if it has seen a snapshot. *)
LEMMA MarkKept ==
  ASSUME NEW r, NEW m, NEW span, NEW delta, HasMark(r)
  PROVE  /\ HasMark(ParseSnapshot(r, m, span, delta))
         /\ r.newSnapshots => ParseSnapshot(r, m, span, delta).newSnapshots
<1> DEFINE b == ~ (span = 0 \/ m - span <= 0) /\ ~ r.snapshots[SlotOf(m - span)].valid
           read == [r EXCEPT !.baseInvalid = b, !.anyInvalid = @ \/ b]
<1>1. HasMark(read) /\ read.newSnapshots = r.newSnapshots
  BY DEF HasMark
<1> HIDE DEF read
<1>2. \A s : HasMark(StoreSnap(read, s)) /\ StoreSnap(read, s).newSnapshots
  BY <1>1, MarkStored DEF HasMark
<1>3. \/ ParseSnapshot(r, m, span, delta) = read
      \/ \E s : ParseSnapshot(r, m, span, delta) = StoreSnap(read, s)
  BY DEF ParseSnapshot, read
<1> QED
  BY <1>1, <1>2, <1>3

Less == {p \in Nat \X Nat : p[1] < p[2]}

(* A set of numbers that is bounded and not empty has a greatest one. *)
LEMMA GreatestOf ==
  ASSUME NEW hi \in Nat, NEW T \in SUBSET (0 .. hi), T # {}
  PROVE  \E c \in T : \A e \in T : e <= c
<1> DEFINE U == {hi - t : t \in T}
<1>1. IsWellFoundedOn(Less, Nat)
  <2>1. Less = OpToRel(<, Nat)
    BY DEF Less, OpToRel
  <2> QED
    BY <2>1, NatLessThanWellFounded
<1>2. U \in SUBSET Nat /\ U # {}
  <2>1. \A t \in T : hi - t \in Nat
    OBVIOUS
  <2> QED
    BY <2>1
<1> HIDE DEF U
<1>3. PICK u \in U : \A v \in U : ~ (<<v, u>> \in Less)
  BY <1>1, <1>2, WFMin, Zenon
<1>4. ASSUME NEW v \in U PROVE u <= v
  <2>1. u \in Nat /\ v \in Nat /\ ~ (<<v, u>> \in Less)
    BY <1>2, <1>3
  <2>2. ~ (v < u)
    BY <2>1 DEF Less
  <2> QED
    BY <2>1, <2>2
<1>5. PICK t \in T : u = hi - t
  BY DEF U
<1>6. \A e \in T : hi - t <= hi - e
  BY <1>4, <1>5 DEF U
<1>7. \A e \in T : e <= t
  BY <1>6
<1> QED
  BY <1>7

(* Where the commands written anew start: at the latest with the newest    *)
(* but one, if there are new ones, and never behind the newest.            *)
LEMMA FirstBound ==
  ASSUME CommandTypes
  PROVE  /\ FirstServerCommand \in Nat
         /\ FirstServerCommand <= serverCommandSequence
         /\ lastExecutedServerCommand < serverCommandSequence
              => FirstServerCommand <= serverCommandSequence - 1
<1> DEFINE found == {c \in Executed : SlotUsed(c)}
<1>1. /\ lastExecutedServerCommand \in Nat /\ serverCommandSequence \in Nat
      /\ lastExecutedServerCommand <= serverCommandSequence
  BY DEF CommandTypes
<1>2. \A c \in found : c \in Nat /\ c <= serverCommandSequence - 1
  BY <1>1 DEF Executed
<1>3. CASE found = {}
  BY <1>1, <1>3 DEF FirstServerCommand
<1>4. CASE found # {}
  <2>1. \E c \in found : \A e \in found : e <= c
    <3>1. found \in SUBSET (0 .. serverCommandSequence)
      BY <1>1, <1>2
    <3> QED
      BY <1>1, <1>4, <3>1, GreatestOf
  <2>2. FirstServerCommand \in found
    BY <1>4, <2>1 DEF FirstServerCommand
  <2> QED
    BY <1>1, <1>2, <2>2
<1> QED
  BY <1>3, <1>4

(* Whatever the loop does with a message, it has run through its commands. *)
LEMMA TurnRuns ==
  ASSUME CommandTypes, Turn
  PROVE  /\ lastExecutedServerCommand' = serverCommandSequence
         /\ UNCHANGED <<issued, serverCommandSequence, msg, in>>
         /\ loop = "write" /\ in.newSnapshots
<1>1. CASE Executed = {}
  <2>1. lastExecutedServerCommand = serverCommandSequence
    BY <1>1 DEF CommandTypes, Executed
  <2> QED
    BY <1>1, <2>1 DEF Turn, serverVars, inputVars
<1>2. CASE Executed # {}
  BY <1>2 DEF Turn, serverVars, inputVars
<1> QED
  BY <1>1, <1>2

-----------------------------------------------------------------------------
(* Where the commands stand, at the start. *)
LEMMA CommandInit == Init => CommandInv
  BY TrimmerAssumption DEF Init, CommandInv, CommandTypes, ReaderKept, HasMark, Written, Unwritten,
         ZeroReader, NoMsg

(* A lost message only adds to what the next one repeats. *)
LEMMA CommandLose ==
  ASSUME CommandInv, NEW w \in Worlds, NEW k \in 0 .. MaxNewCommands, Lose(w, k)
  PROVE  CommandInv'
<1>1. k \in Nat
  BY TrimmerAssumption
<1> QED
  BY <1>1 DEF CommandInv, CommandTypes, ReaderKept, HasMark, Written, Unwritten, Lose,
              Send, inputVars, outVars

(* A message is read that repeats all that was not acknowledged. *)
LEMMA CommandRead ==
  ASSUME CommandInv, NEW w \in Worlds, NEW k \in 0 .. MaxNewCommands,
         NEW span \in NoSnapshot .. MaxSpan,
         NEW from \in 1 .. serverCommandSequence + 1, Read(w, k, span, from)
  PROVE  CommandInv'
<1>1. k \in Nat /\ from \in Nat
  BY TrimmerAssumption DEF CommandInv, CommandTypes
<1>2. /\ loop = "read" /\ loop' = "write"
      /\ issued' = issued + k
      /\ UNCHANGED <<lastExecutedServerCommand, framesSaved, outCommandSequence,
                     outCommands>>
  BY DEF Read, Send, outVars
<1>3. msg'.from = from
  BY DEF Read
<1>4. serverCommandSequence' = issued'
  <2>1. serverCommandSequence' = After(serverCommandSequence, from .. issued')
    BY DEF Read
  <2> QED
    BY <1>1, <1>2, <2>1, AfterInterval DEF CommandInv, CommandTypes
<1>5. ReaderKept'
  <2>1. CASE span = NoSnapshot
    BY <1>2, <2>1 DEF Read, CommandInv, ReaderKept, HasMark
  <2>2. CASE span # NoSnapshot
    <3>1. in' = ParseSnapshot(in, serverMessageSequence + 1, span, msg'.delta)
      BY <2>2 DEF Read
    <3> QED
      BY <1>2, <3>1, MarkKept DEF CommandInv, ReaderKept
  <2> QED
    BY <2>1, <2>2
<1>6. CommandTypes'
  BY <1>1, <1>2, <1>3, <1>4 DEF CommandInv, CommandTypes
<1>7. Written' /\ Unwritten'
  BY <1>1, <1>2, <1>3, <1>4 DEF CommandInv, CommandTypes, Written, Unwritten
<1> QED
  BY <1>5, <1>6, <1>7 DEF CommandInv

(* A message in front of the cut is left out. *)
LEMMA CommandSkip ==
  ASSUME CommandInv, Skip
  PROVE  CommandInv'
  BY DEF CommandInv, CommandTypes, ReaderKept, HasMark, Written, Unwritten, Skip,
         serverVars, inputVars, outVars

(* A step that writes nothing, before the cut or at the end. *)
LEMMA CommandIdle ==
  ASSUME CommandInv, Finish \/ Wait
  PROVE  CommandInv'
<1>1. Turn /\ loop' \in {"read", "done"} /\ UNCHANGED framesSaved
  BY DEF Finish, Wait
<1>2. loop' = "read" => framesSaved = 0
  BY DEF Finish, Wait
<1> QED
  BY <1>1, <1>2, TurnRuns
     DEF CommandInv, CommandTypes, ReaderKept, HasMark, Written, Unwritten

(* A message is put out with the commands in lo .. serverCommandSequence:  *)
(* the output's reader is then at the newest, and has those from lo on     *)
(* that are new to it.                                                     *)
LEMMA CommandPut ==
  ASSUME CommandInv, Turn,
         NEW how, NEW span, NEW delta, NEW seq \in Int, NEW known, NEW lo \in Int,
         Put(how, seq, known, lo .. serverCommandSequence, span, delta),
         seq <= serverCommandSequence,
         lo <= serverCommandSequence \/ seq = serverCommandSequence
  PROVE  /\ CommandInv'
         /\ outCommandSequence' = serverCommandSequence
         /\ \A c \in 1 .. serverCommandSequence :
              c \in outCommands' <=> c \in known \/ (c >= lo /\ c > seq)
         /\ last'.how = how
<1>1. /\ lastExecutedServerCommand' = serverCommandSequence
      /\ UNCHANGED <<issued, serverCommandSequence, msg, in>>
      /\ in.newSnapshots
  BY TurnRuns DEF CommandInv
<1>2. framesSaved' = framesSaved + 1 /\ loop' = "read" /\ last'.how = how
  BY DEF Put
<1>3. outCommandSequence' = serverCommandSequence
  <2>1. serverCommandSequence \in Int
    BY DEF CommandInv, CommandTypes
  <2> QED
    BY <2>1, AfterInterval DEF Put
<1>4. \A c \in 1 .. serverCommandSequence :
        c \in outCommands' <=> c \in known \/ (c >= lo /\ c > seq)
  BY DEF Put, Taken, CommandInv, CommandTypes
<1>5. CommandTypes'
  BY <1>1, <1>2 DEF CommandInv, CommandTypes
<1>6. ReaderKept'
  BY <1>1 DEF CommandInv, ReaderKept, HasMark
<1> QED
  BY <1>1, <1>2, <1>3, <1>4, <1>5, <1>6 DEF CommandInv, Written, Unwritten

(* What LostOnlyInBulk says of a step that writes a message. *)
Passed ==
  /\ outCommandSequence' = serverCommandSequence
  /\ \A c \in 1 .. serverCommandSequence :
       \/ c \in outCommands'
       \/ framesSaved > 0 /\ c \notin outCommands /\ c <= lastExecutedServerCommand
       \/ /\ framesSaved > 0 /\ last'.how = "coded"
          /\ lastExecutedServerCommand < c /\ c < serverCommandSequence - 1

(* A copied message has the commands it had. *)
LEMMA CommandCopy ==
  ASSUME CommandInv, Copy
  PROVE  CommandInv' /\ Passed
<1>1. /\ Turn
      /\ framesSaved > 0
      /\ Put("copied", outCommandSequence, outCommands, msg.from .. issued,
             msg.span, msg.delta)
  BY DEF Copy
<1>2. loop = "write"
  BY <1>1 DEF Turn
<1>3. /\ issued = serverCommandSequence
      /\ msg.from <= lastExecutedServerCommand + 1
      /\ outCommandSequence = lastExecutedServerCommand
  BY <1>1, <1>2 DEF CommandInv, Unwritten
<1>4. /\ msg.from \in Int /\ lastExecutedServerCommand \in Int
      /\ serverCommandSequence \in Int
      /\ lastExecutedServerCommand <= serverCommandSequence
  BY DEF CommandInv, CommandTypes
<1>5. /\ CommandInv'
      /\ outCommandSequence' = serverCommandSequence
      /\ \A c \in 1 .. serverCommandSequence :
           c \in outCommands' <=>
             c \in outCommands \/ (c >= msg.from /\ c > outCommandSequence)
  BY <1>1, <1>3, <1>4, CommandPut
<1> QED
  BY <1>1, <1>3, <1>4, <1>5 DEF Passed

(* A rewritten message has the newest command and the one before it, if    *)
(* they are new.                                                           *)
LEMMA CommandRewrite ==
  ASSUME CommandInv, Rewrite
  PROVE  CommandInv' /\ Passed
<1> DEFINE span == LastFrame(FALSE)
           base == in.snapshots[SlotOf(in.snap.messageNum - span)]
           delta == Delta(IF span = 0 THEN NoWorld ELSE base.world, in.snap.world)
<1>1. /\ Turn
      /\ framesSaved > 0
      /\ Put("coded", outCommandSequence, outCommands,
             FirstServerCommand .. serverCommandSequence, span, delta)
  BY DEF Rewrite, WriteDeltaSnapshot
<1> HIDE DEF span, delta
<1>2. loop = "write"
  BY <1>1 DEF Turn
<1>3. outCommandSequence = lastExecutedServerCommand
  BY <1>1, <1>2 DEF CommandInv, Unwritten
<1>4. /\ lastExecutedServerCommand \in Int /\ serverCommandSequence \in Int
      /\ lastExecutedServerCommand <= serverCommandSequence
  BY DEF CommandInv, CommandTypes
<1>5. /\ FirstServerCommand \in Nat
      /\ FirstServerCommand <= serverCommandSequence
      /\ lastExecutedServerCommand < serverCommandSequence
           => FirstServerCommand <= serverCommandSequence - 1
  BY FirstBound DEF CommandInv
<1>6. /\ CommandInv'
      /\ outCommandSequence' = serverCommandSequence
      /\ \A c \in 1 .. serverCommandSequence :
           c \in outCommands' <=>
             c \in outCommands \/ (c >= FirstServerCommand /\ c > outCommandSequence)
      /\ last'.how = "coded"
  BY <1>1, <1>3, <1>4, <1>5, CommandPut
<1> QED
  BY <1>1, <1>3, <1>4, <1>5, <1>6 DEF Passed

(* The gamestate makes up for the commands before the newest, and is       *)
(* numbered below that.                                                    *)
LEMMA CommandBegin ==
  ASSUME CommandInv, Begin
  PROVE  CommandInv' /\ Passed
<1> DEFINE span == LastFrame(TRUE)
           base == in.snapshots[SlotOf(in.snap.messageNum - span)]
           delta == Delta(IF span = 0 THEN NoWorld ELSE base.world, in.snap.world)
           known == 1 .. lastExecutedServerCommand' - 1
<1>1. /\ Turn
      /\ Put("coded", HeaderSequence, known,
             FirstServerCommand .. serverCommandSequence, span, delta)
  BY DEF Begin, WriteDeltaSnapshot
<1>2. lastExecutedServerCommand' = serverCommandSequence
  BY <1>1, TurnRuns DEF CommandInv
<1>3. serverCommandSequence \in Nat /\ MaxReliableCommands \in Nat
      /\ MaxReliableCommands >= 2
  BY TrimmerAssumption DEF CommandInv, CommandTypes
<1>4. HeaderSequence \in Int /\ HeaderSequence < serverCommandSequence
  BY <1>3 DEF HeaderSequence
<1>5. FirstServerCommand \in Int /\ FirstServerCommand <= serverCommandSequence
  BY FirstBound DEF CommandInv
<1>6. \A c \in 1 .. serverCommandSequence :
        c \in known \/ (c >= FirstServerCommand /\ c > HeaderSequence)
  BY <1>2, <1>3, <1>4, <1>5
<1>7. HeaderSequence <= serverCommandSequence
  BY <1>3, <1>4
<1> HIDE DEF span, delta, known
<1>8. /\ CommandInv'
      /\ outCommandSequence' = serverCommandSequence
      /\ \A c \in 1 .. serverCommandSequence :
           c \in outCommands' <=>
             c \in known \/ (c >= FirstServerCommand /\ c > HeaderSequence)
  BY <1>1, <1>4, <1>5, <1>7, CommandPut
<1> QED
  BY <1>6, <1>8 DEF Passed

(* Each action keeps what is known of the commands. *)
LEMMA CommandStep ==
  ASSUME CommandInv, [Next]_vars
  PROVE  CommandInv'
<1>1. CASE \E w \in Worlds, k \in 0 .. MaxNewCommands : Lose(w, k)
  BY <1>1, CommandLose
<1>2. CASE \E w \in Worlds, k \in 0 .. MaxNewCommands, span \in NoSnapshot .. MaxSpan,
              from \in 1 .. serverCommandSequence + 1 : Read(w, k, span, from)
  BY <1>2, CommandRead
<1>3. CASE Skip
  BY <1>3, CommandSkip
<1>4. CASE Finish \/ Wait
  BY <1>4, CommandIdle
<1>5. CASE Copy
  BY <1>5, CommandCopy
<1>6. CASE Rewrite
  BY <1>6, CommandRewrite
<1>7. CASE Begin
  BY <1>7, CommandBegin
<1>8. CASE UNCHANGED vars
  BY <1>8 DEF vars, serverVars, inputVars, outVars, CommandInv, CommandTypes,
              ReaderKept, HasMark, Written, Unwritten
<1> QED
  BY <1>1, <1>2, <1>3, <1>4, <1>5, <1>6, <1>7, <1>8 DEF Next

(* Where the commands of the trimmed demo stand, always. *)
THEOREM CommandInvariant == Spec => []CommandInv
<1>1. Init => CommandInv
  BY CommandInit
<1>2. CommandInv /\ [Next]_vars => CommandInv'
  BY CommandStep
<1> QED
  BY <1>1, <1>2, PTL DEF Spec

(* A command is missing from the trimmed demo only if it came with two     *)
(* newer ones in a message that was coded anew, for a ring of any size,    *)
(* any number of new commands in a message, any gamestate, any losses and  *)
(* however many frames are coded anew: what the loop over new commands in  *)
(* main leaves out, and nothing else.                                      *)
THEOREM LostOnlyInBulkAlways == Spec => LostOnlyInBulk
<1> DEFINE Writes == loop = "write" /\ framesSaved' > framesSaved
<1>1. CommandInv /\ [Next]_vars => [Writes => Passed]_vars
  <2> SUFFICES ASSUME CommandInv, Next, Writes PROVE Passed
    OBVIOUS
  <2>1. ~ (framesSaved' = framesSaved)
    BY DEF CommandInv, CommandTypes
  <2>2. Copy \/ Rewrite \/ Begin
    BY <2>1 DEF Next, Lose, Read, Send, Skip, Finish, Wait
  <2> QED
    BY <2>2, CommandCopy, CommandRewrite, CommandBegin
<1>2. [][Writes => Passed]_vars => LostOnlyInBulk
  BY PTL DEF LostOnlyInBulk, Passed, Writes
<1> QED
  BY <1>1, <1>2, CommandInvariant, PTL DEF Spec

-----------------------------------------------------------------------------
HasWorld(r, k, w) == Has(r, k) /\ r.snapshots[SlotOf(k)].world = w

(* The server: what it keeps of what it sent. *)
ServerInv ==
  /\ serverMessageSequence \in 0 .. MaxMessages
  /\ DOMAIN sent = Window(serverMessageSequence)
  /\ \A k \in DOMAIN sent : IsWorld(sent[k])
  /\ acked \subseteq DOMAIN sent

(* The input's reader has what the client had, and misses no base. *)
InputInv ==
  /\ Sound(in)
  /\ ~ in.anyInvalid
  /\ in.snap.messageNum <= serverMessageSequence
  /\ \A k \in acked : HasWorld(in, k, sent[k])
  /\ KeepsBase(in)

(* The base that the message just read was coded against. *)
BaseOf(m, span) == IF span > 0 THEN sent[m - span] ELSE NoWorld

(* A message that was read and not yet written. *)
MessageInv ==
  loop = "write" =>
    LET m == serverMessageSequence
    IN  /\ m > 0
        /\ msg.span = NoSnapshot => in.snap.messageNum < m /\ m \notin acked
        /\ msg.span # NoSnapshot =>
             /\ msg.span \in 0 .. PacketBackup - 1
             /\ m \in acked
             /\ in.snap.messageNum = m /\ in.snap.world = sent[m]
             /\ in.snap.deltaNum = IF msg.span = 0 THEN -1 ELSE m - msg.span
             /\ msg.span > 0 => m - msg.span \in acked
             /\ msg.delta = Delta(BaseOf(m, msg.span), sent[m])

(* The message after the last one that could be written. *)
NextWritten == IF loop = "read" THEN serverMessageSequence + 1
                                ELSE serverMessageSequence

(* The cut began with message first: the output has every message from     *)
(* there on that can be a base, and nothing from before.                   *)
CutFrom(first) ==
  /\ first <= out.snap.messageNum
  /\ framesSaved <= NextWritten - first
  /\ \A i \in Slots : out.snapshots[i].valid => out.snapshots[i].messageNum >= first
  /\ \A k \in acked : k >= first /\ k < NextWritten =>
       Has(out, k) /\ (~ out.anyInvalid => out.snapshots[SlotOf(k)].world = sent[k])

(* The last snapshot of the input is in the output as itself, and again    *)
(* for messages without one unless its base is misplaced then.             *)
Repeated ==
  ~ out.anyInvalid =>
    \A k \in Now .. NextWritten - 1 :
      Has(out, k) /\ (k = Now \/ LastFrame(FALSE) <= 1) =>
        out.snapshots[SlotOf(k)].world = in.snap.world

OutputInv ==
  /\ Sound(out)
  /\ out.snap.messageNum < NextWritten
  /\ framesSaved \in Nat
  /\ framesSaved = 0 => out = ZeroReader
  /\ framesSaved > 0 =>
       /\ in.newSnapshots
       /\ \E first \in 1 .. serverMessageSequence : CutFrom(first)
       /\ Repeated

LastInv ==
  /\ CopiedBaseKnown
  /\ loop = "read" /\ framesSaved > 0 =>
       /\ last.world = in.snap.world
       /\ last.messageNum \in Now .. serverMessageSequence

WorldInv == ServerInv /\ InputInv /\ MessageInv /\ OutputInv /\ LastInv

-----------------------------------------------------------------------------
(* How far back the base of the last snapshot lies. *)
LEMMA SpanOf ==
  ASSUME InputInv, in.snap.messageNum > 0
  PROVE  /\ LastFrame(FALSE) = IF in.snap.deltaNum = -1 THEN 0
                               ELSE in.snap.messageNum - in.snap.deltaNum
         /\ LastFrame(FALSE) \in Nat /\ LastFrame(FALSE) < PacketBackup
         /\ LastFrame(TRUE) = 0
BY DistanceOf DEF InputInv, LastFrame

(* What the readers hold, at the start. *)
LEMMA WorldInit == Init => WorldInv
<1> SUFFICES ASSUME Init PROVE WorldInv
  OBVIOUS
<1>1. ServerInv
  BY TrimmerAssumption DEF Init, ServerInv, Window
<1>2. in = ZeroReader /\ out = ZeroReader /\ framesSaved = 0 /\ loop = "read"
      /\ serverMessageSequence = 0 /\ acked = {} /\ last.how = "none"
  BY DEF Init
<1>3. ZeroReader.snap.messageNum = 0
  BY DEF ZeroReader, ZeroSnap
<1>4. InputInv
  BY <1>2, <1>3, ZeroSound DEF InputInv, KeepsBase
<1>5. OutputInv
  BY <1>2, <1>3, ZeroSound DEF OutputInv, NextWritten
<1> QED
  BY <1>1, <1>2, <1>4, <1>5 DEF WorldInv, MessageInv, LastInv, CopiedBaseKnown

(* What Send does to the server. *)
LEMMA SendFacts ==
  ASSUME WorldInv, NEW w \in Worlds, NEW k \in 0 .. MaxNewCommands, Send(w, k)
  PROVE  LET m == serverMessageSequence + 1
         IN  /\ loop = "read"
             /\ serverMessageSequence \in Nat /\ m \in 0 .. MaxMessages
             /\ serverMessageSequence' = m
             /\ DOMAIN sent' = Window(m)
             /\ m \in Window(m) /\ sent'[m] = w
             /\ \A j \in acked \cap Window(m) :
                  j < m /\ j \in Nat \ {0} /\ j > m - PacketBackup /\ sent'[j] = sent[j]
             /\ \A j \in DOMAIN sent' : IsWorld(sent'[j])
<1> DEFINE m == serverMessageSequence + 1
<1>1. /\ loop = "read" /\ m <= MaxMessages /\ serverMessageSequence' = m
      /\ sent' = [n \in Window(m) |-> IF n = m THEN w ELSE sent[n]]
  BY DEF Send
<1>2. serverMessageSequence \in Nat /\ MaxMessages \in Nat /\ PacketBackup \in Nat \ {0}
  BY TrimmerAssumption, SlotsAssumption DEF WorldInv, ServerInv
<1>3. m \in Window(m) /\ \A j \in Window(m) : j # m => j \in Window(serverMessageSequence)
  BY <1>2 DEF Window
<1>4. \A j \in acked : j \in Window(serverMessageSequence) /\ j < m /\ j \in Nat \ {0}
  BY <1>2 DEF WorldInv, ServerInv, Window
<1>5. \A j \in Window(m) : IsWorld(sent'[j])
  BY <1>1, <1>3, TrimmerAssumption DEF WorldInv, ServerInv
<1>6. \A j \in Window(m) : j > m - PacketBackup
  BY DEF Window
<1> HIDE DEF m
<1> QED
  BY <1>1, <1>2, <1>3, <1>4, <1>5, <1>6 DEF m

(* A lost message goes past both readers. *)
LEMMA WorldLose ==
  ASSUME WorldInv, NEW w \in Worlds, NEW k \in 0 .. MaxNewCommands, Lose(w, k)
  PROVE  WorldInv'
<1> DEFINE m == serverMessageSequence + 1
<1>1. /\ Send(w, k) /\ acked' = acked \cap Window(m)
      /\ UNCHANGED <<msg, in, framesSaved, loop, out, last>>
  BY DEF Lose, Send, inputVars, outVars
<1>2. /\ loop = "read" /\ serverMessageSequence \in Nat /\ m \in 0 .. MaxMessages
      /\ serverMessageSequence' = m
      /\ DOMAIN sent' = Window(m) /\ m \in Window(m)
      /\ \A j \in acked \cap Window(m) :
           j < m /\ j \in Nat \ {0} /\ j > m - PacketBackup /\ sent'[j] = sent[j]
      /\ \A j \in DOMAIN sent' : IsWorld(sent'[j])
  BY <1>1, SendFacts
<1>3. ServerInv'
  BY <1>1, <1>2 DEF ServerInv
<1>4. InputInv'
  BY <1>1, <1>2 DEF WorldInv, InputInv, HasWorld, Sound, IsReader, IsSnap
<1>5. NextWritten = m /\ NextWritten' = m + 1
  BY <1>1, <1>2 DEF NextWritten
<1>6. ASSUME NEW first \in 1 .. serverMessageSequence, CutFrom(first)
      PROVE  CutFrom(first)'
  BY <1>1, <1>2, <1>5, <1>6 DEF CutFrom, WorldInv, OutputInv
<1>7. ASSUME Repeated PROVE Repeated'
  <2>1. Now \in Int /\ Sound(out) /\ out.snap.messageNum < m /\ out.snap.messageNum \in Int
    BY <1>5 DEF WorldInv, InputInv, OutputInv, Sound, IsReader, IsSnap, Now
  <2>2. Now' = Now /\ LastFrame(FALSE)' = LastFrame(FALSE) /\ out' = out /\ in' = in
    BY <1>1 DEF Now, LastFrame
  <2>3. NextWritten - 1 = m - 1 /\ NextWritten' - 1 = m
    BY <1>2, <1>5
  <2>4. ASSUME ~ out.anyInvalid, NEW j \in Now .. m, Has(out, j),
               j = Now \/ LastFrame(FALSE) <= 1
        PROVE  out.snapshots[SlotOf(j)].world = in.snap.world
    <3>1. j < m
      BY <1>2, <2>1, <2>4, HasBounds
    <3>2. j \in Now .. m - 1
      BY <1>2, <2>1, <3>1
    <3> QED
      BY <1>7, <2>3, <2>4, <3>2 DEF Repeated
  <2> HIDE DEF m
  <2> QED
    BY <2>2, <2>3, <2>4 DEF Repeated, Has
<1>8. OutputInv'
  <2>1. Sound(out)' /\ out'.snap.messageNum < NextWritten'
    BY <1>1, <1>2, <1>5 DEF WorldInv, OutputInv, Sound, IsReader, IsSnap, InPlace
  <2>2. framesSaved > 0 => \E first \in 1 .. m : CutFrom(first)'
    BY <1>2, <1>6 DEF WorldInv, OutputInv
  <2>3. framesSaved > 0 => Repeated'
    BY <1>7 DEF WorldInv, OutputInv
  <2> QED
    BY <1>1, <1>2, <2>1, <2>2, <2>3 DEF WorldInv, OutputInv
<1>9. LastInv'
  BY <1>1, <1>2 DEF WorldInv, LastInv, CopiedBaseKnown, Now, InputInv, Sound, IsReader, IsSnap
<1>10. MessageInv'
  BY <1>1, <1>2 DEF MessageInv
<1> QED
  BY <1>3, <1>4, <1>8, <1>9, <1>10 DEF WorldInv

(* The input's reader takes a message. *)
LEMMA WorldRead ==
  ASSUME WorldInv, NEW w \in Worlds, NEW k \in 0 .. MaxNewCommands,
         NEW span \in NoSnapshot .. MaxSpan,
         NEW from \in 1 .. serverCommandSequence + 1, Read(w, k, span, from)
  PROVE  WorldInv'
<1> DEFINE m == serverMessageSequence + 1
           delta == Delta(IF span > 0 THEN sent[m - span] ELSE NoWorld,
                          IF span = NoSnapshot THEN NoWorld ELSE w)
<1>1. /\ Send(w, k)
      /\ span > 0 => m - span \in acked \cap Window(m)
      /\ msg' = [span |-> span, from |-> from, delta |-> delta]
      /\ in' = IF span = NoSnapshot THEN in ELSE ParseSnapshot(in, m, span, msg'.delta)
      /\ acked' = (acked \cup (IF in'.snap.messageNum = m THEN {m} ELSE {})) \cap Window(m)
      /\ loop' = "write"
      /\ UNCHANGED <<framesSaved, out, last>>
  BY DEF Read, outVars
<1>2. /\ loop = "read" /\ serverMessageSequence \in Nat /\ m \in 0 .. MaxMessages
      /\ serverMessageSequence' = m
      /\ DOMAIN sent' = Window(m) /\ m \in Window(m) /\ sent'[m] = w
      /\ \A j \in acked \cap Window(m) :
           j < m /\ j \in Nat \ {0} /\ j > m - PacketBackup /\ sent'[j] = sent[j]
      /\ \A j \in DOMAIN sent' : IsWorld(sent'[j])
  BY <1>1, SendFacts
<1>3. /\ span \in Int /\ span >= -1 /\ NoSnapshot = -1 /\ PacketBackup \in Nat \ {0}
      /\ m \in Nat /\ m > 0
  BY <1>2, TrimmerAssumption, SlotsAssumption DEF NoSnapshot
<1>4. NextWritten = m /\ NextWritten' = m
  BY <1>1, <1>2 DEF NextWritten
<1>5. Sound(in) /\ in.snap.messageNum < m /\ in.snap.messageNum \in Nat
  BY <1>2 DEF WorldInv, InputInv, Sound, IsReader, IsSnap
<1>6. acked' \subseteq Window(m) /\ \A j \in acked' : j = m \/ j \in acked \cap Window(m)
  BY <1>1
<1>7. ServerInv'
  BY <1>2, <1>6 DEF ServerInv
<1>8. /\ InputInv' /\ MessageInv'
      /\ in.newSnapshots => in'.newSnapshots
      /\ \/ in' = in
         \/ in'.snap.messageNum = m
  <2>1. CASE span = NoSnapshot
    <3>1. in' = in /\ m \notin acked'
      BY <1>1, <1>2, <1>5, <2>1
    <3>2. InputInv'
      BY <1>2, <1>5, <1>6, <3>1 DEF WorldInv, InputInv, HasWorld
    <3>3. MessageInv'
      BY <1>1, <1>2, <1>3, <1>5, <2>1, <3>1 DEF MessageInv
    <3> QED
      BY <3>1, <3>2, <3>3
  <2>2. CASE span # NoSnapshot
    <3>1. /\ in' = ParseSnapshot(in, m, span, delta)
          /\ delta = Delta(IF span > 0 THEN sent[m - span] ELSE NoWorld, w)
      <4> HIDE DEF delta
      <4>1. msg'.delta = delta
        BY <1>1
      <4> QED
        BY <1>1, <2>2, <4>1 DEF delta
    <3>2. span \in Nat /\ span < PacketBackup
      BY <1>1, <1>2, <1>3, <2>2
    <3>3. /\ span > 0 => Has(in, m - span)
          /\ delta = Delta(IF span = 0 THEN NoWorld
                           ELSE in.snapshots[SlotOf(m - span)].world, w)
      BY <1>1, <3>1, <3>2 DEF WorldInv, InputInv, HasWorld
    <3> HIDE DEF delta
    <3>4. /\ ParseFacts(in, m, span, delta, in')
          /\ in'.snap = [valid |-> TRUE, messageNum |-> m,
                         deltaNum |-> IF span = 0 THEN -1 ELSE m - span, world |-> w]
          /\ ~ in'.baseInvalid
          /\ KeepsBase(in')
      <4>1. IsWorld(w)
        BY TrimmerAssumption
      <4> HIDE DEF m
      <4> QED
        BY <1>3, <1>5, <3>1, <3>2, <3>3, <4>1, ReadExact
    <3>5. /\ in'.snap.messageNum = m /\ in'.snap.world = w
          /\ in'.snap.deltaNum = IF span = 0 THEN -1 ELSE m - span
          /\ Sound(in')
          /\ ~ in'.anyInvalid
      BY <3>4 DEF ParseFacts, WorldInv, InputInv
    <3>6. in'.newSnapshots
      BY <1>3, <3>5 DEF Sound, IsReader
    <3>7. ASSUME NEW j \in acked' PROVE HasWorld(in', j, sent'[j])
      <4>1. CASE j = m
        BY <1>2, <1>3, <3>5, <4>1 DEF HasWorld, Has, Sound, InPlace
      <4>2. CASE j # m
        <5>1. j \in acked \cap Window(m)
          BY <1>6, <4>2
        <5>2. j < m /\ j \in Nat \ {0} /\ j > m - PacketBackup /\ sent'[j] = sent[j]
          BY <1>2, <5>1
        <5>3. HasWorld(in, j, sent[j])
          BY <5>1 DEF WorldInv, InputInv
        <5>4. in'.snapshots[SlotOf(j)] = in.snapshots[SlotOf(j)]
          BY <3>4, <5>2, <5>3 DEF ParseFacts, HasWorld
        <5> QED
          BY <5>2, <5>3, <5>4 DEF HasWorld, Has
      <4> QED
        BY <4>1, <4>2
    <3>8. span > 0 => m - span \in acked'
      BY <1>1
    <3>9. m \in acked'
      BY <1>1, <1>2, <3>5
    <3>10. InputInv'
      BY <1>2, <3>4, <3>5, <3>7 DEF InputInv
    <3>11. MessageInv'
      <4>1. msg'.span = span /\ msg'.delta = delta
        BY <1>1, <3>1 DEF delta
      <4>2. delta = Delta(IF span > 0 THEN sent'[m - span] ELSE NoWorld, sent'[m])
        BY <1>1, <1>2, <3>1
      <4>3. span \in 0 .. PacketBackup - 1
        BY <1>3, <3>2
      <4> HIDE DEF m
      <4> QED
        BY <1>2, <1>3, <2>2, <3>5, <3>8, <3>9, <4>1, <4>2, <4>3 DEF MessageInv, BaseOf
    <3> QED
      BY <3>5, <3>6, <3>10, <3>11
  <2> QED
    BY <2>1, <2>2
<1>9. ASSUME NEW first \in 1 .. serverMessageSequence, CutFrom(first)
      PROVE  CutFrom(first)'
  BY <1>1, <1>2, <1>4, <1>6, <1>9 DEF CutFrom
<1>10. ASSUME Repeated PROVE Repeated'
  <2>1. CASE in' = in
    BY <1>1, <1>4, <1>10, <2>1 DEF Repeated, Now, LastFrame, Has
  <2>2. CASE in'.snap.messageNum = m
    BY <1>3, <1>4, <2>2 DEF Repeated, Now
  <2> QED
    BY <1>8, <2>1, <2>2
<1>11. OutputInv'
  <2>1. Sound(out)' /\ out'.snap.messageNum < NextWritten'
    BY <1>1, <1>4 DEF WorldInv, OutputInv
  <2>2. framesSaved > 0 => \E first \in 1 .. m : CutFrom(first)'
    BY <1>2, <1>9 DEF WorldInv, OutputInv
  <2>3. framesSaved > 0 => Repeated'
    BY <1>10 DEF WorldInv, OutputInv
  <2> QED
    BY <1>1, <1>2, <1>8, <2>1, <2>2, <2>3 DEF WorldInv, OutputInv
<1>12. LastInv'
  BY <1>1 DEF WorldInv, LastInv, CopiedBaseKnown
<1> QED
  BY <1>7, <1>8, <1>11, <1>12 DEF WorldInv

(* Before the cut, or at the end, a message is passed over. *)
LEMMA WorldIdle ==
  ASSUME WorldInv, Skip \/ Finish \/ Wait
  PROVE  WorldInv'
<1>1. /\ loop = "write" /\ loop' \in {"read", "done"}
      /\ UNCHANGED <<sent, acked, serverMessageSequence, in, framesSaved, out, last>>
  BY DEF Skip, Finish, Wait, Turn, serverVars, inputVars, outVars
<1>2. loop' = "read" => framesSaved = 0
  BY DEF Skip, Finish, Wait, WorldInv, OutputInv
<1>3. /\ serverMessageSequence \in Nat /\ NextWritten = serverMessageSequence
      /\ out.snap.messageNum < NextWritten /\ out.snap.messageNum \in Nat
      /\ loop' = "done" => NextWritten' = NextWritten
      /\ loop' = "read" => NextWritten' = NextWritten + 1
  BY <1>1 DEF WorldInv, ServerInv, NextWritten, OutputInv, Sound, IsReader, IsSnap
<1>4. ServerInv' /\ InputInv' /\ MessageInv'
  BY <1>1 DEF WorldInv, ServerInv, InputInv, HasWorld, MessageInv
<1>5. OutputInv'
  <2>1. CASE loop' = "read"
    BY <1>1, <1>2, <1>3, <2>1 DEF WorldInv, OutputInv
  <2>2. CASE loop' = "done"
    <3>1. NextWritten' = NextWritten
      BY <1>3, <2>2
    <3>2. \A first \in 1 .. serverMessageSequence : CutFrom(first) => CutFrom(first)'
      BY <1>1, <3>1 DEF CutFrom, Has
    <3>3. Repeated => Repeated'
      BY <1>1, <3>1 DEF Repeated, Now, LastFrame, Has
    <3> QED
      BY <1>1, <3>1, <3>2, <3>3 DEF WorldInv, OutputInv
  <2> QED
    BY <1>1, <2>1, <2>2
<1>6. LastInv'
  BY <1>1, <1>2 DEF WorldInv, LastInv, CopiedBaseKnown
<1> QED
  BY <1>4, <1>5, <1>6 DEF WorldInv

-----------------------------------------------------------------------------
(* A message was written: what is left to show is about the output.        *)
LEMMA WorldPut ==
  ASSUME WorldInv, Turn,
         NEW how, NEW seq, NEW known, NEW range, NEW span, NEW delta,
         Put(how, seq, known, range, span, delta),
         Sound(out'), out'.snap.messageNum <= serverMessageSequence,
         how = "copied" => ~ out'.baseInvalid,
         \E first \in 1 .. serverMessageSequence : CutFrom(first)',
         Repeated'
  PROVE  WorldInv'
<1>1. /\ loop = "write" /\ in.newSnapshots
      /\ UNCHANGED <<sent, acked, serverMessageSequence, in>>
  BY DEF Turn, serverVars, inputVars
<1>2. /\ loop' = "read" /\ framesSaved' = framesSaved + 1
      /\ last' = [how |-> how, messageNum |-> serverMessageSequence,
                  world |-> in.snap.world]
  BY DEF Put
<1>3. ServerInv' /\ InputInv' /\ MessageInv'
  BY <1>1, <1>2 DEF WorldInv, ServerInv, InputInv, HasWorld, MessageInv
<1>4. /\ framesSaved \in Nat /\ serverMessageSequence \in Nat
      /\ in.snap.messageNum \in Nat /\ in.snap.messageNum <= serverMessageSequence
      /\ out'.snap.messageNum \in Nat
  BY DEF WorldInv, ServerInv, InputInv, OutputInv, Sound, IsReader, IsSnap
<1>5. OutputInv'
  BY <1>1, <1>2, <1>4 DEF OutputInv, NextWritten
<1>6. LastInv'
  BY <1>1, <1>2, <1>4 DEF LastInv, CopiedBaseKnown, Now
<1> QED
  BY <1>3, <1>5, <1>6 DEF WorldInv

(* What the output's reader is given when a message is written. *)
LEMMA PutFacts ==
  ASSUME WorldInv, Turn,
         NEW how, NEW seq, NEW known, NEW range, NEW span \in Nat, NEW delta,
         span < PacketBackup, Put(how, seq, known, range, span, delta)
  PROVE  LET m == serverMessageSequence
         IN  /\ m \in Nat /\ m > 0
             /\ NextWritten = m /\ NextWritten' = m + 1
             /\ out.snap.messageNum < m
             /\ Now \in Nat /\ Now > 0 /\ Now <= m
             /\ framesSaved' = framesSaved + 1 /\ framesSaved \in Nat
             /\ UNCHANGED <<sent, acked, serverMessageSequence, in>>
             /\ ParseFacts(out, m, span, delta, out')
             /\ Sound(out') /\ out'.snap.messageNum <= m
<1> DEFINE m == serverMessageSequence
<1>1. loop = "write" /\ in.newSnapshots /\ UNCHANGED <<sent, acked, m, in>>
  BY DEF Turn, serverVars, inputVars
<1>2. /\ m \in Nat /\ m > 0 /\ Sound(out) /\ Sound(in)
      /\ NextWritten = m /\ in.snap.messageNum <= m
      /\ out.snap.messageNum < m
      /\ framesSaved \in Nat
  BY <1>1 DEF WorldInv, ServerInv, MessageInv, InputInv, OutputInv, NextWritten
<1>3. Now \in Nat /\ Now > 0 /\ Now <= m
  BY <1>1, <1>2 DEF Sound, IsReader, IsSnap, Now
<1>4. /\ out' = ParseSnapshot(out, m, span, delta)
      /\ loop' = "read" /\ framesSaved' = framesSaved + 1
  BY DEF Put, NoSnapshot
<1>5. NextWritten' = m + 1
  BY <1>1, <1>4 DEF NextWritten
<1>6. ParseFacts(out, m, span, delta, out')
  <2> HIDE DEF m
  <2> QED
    BY <1>2, <1>4, ParseAt
<1>7. Sound(out') /\ out'.snap.messageNum <= m
  <2>1. out.snap.messageNum \in Nat
    BY <1>2 DEF Sound, IsReader, IsSnap
  <2>2. Sound(out') /\ (out'.snap.messageNum = m \/ out'.snap = out.snap)
    BY <1>6 DEF ParseFacts
  <2> QED
    BY <1>2, <2>1, <2>2
<1> QED
  BY <1>1, <1>2, <1>3, <1>4, <1>5, <1>6, <1>7

(* What is in the output stays there, and the message adds only itself. *)
LEMMA CutKept ==
  ASSUME WorldInv, Turn,
         NEW how, NEW seq, NEW known, NEW range, NEW span \in Nat, NEW delta,
         span < PacketBackup, Put(how, seq, known, range, span, delta),
         NEW first \in 1 .. serverMessageSequence, CutFrom(first),
         serverMessageSequence \in acked =>
           /\ out'.snap.messageNum = serverMessageSequence
           /\ ~ out'.anyInvalid => out'.snap.world = sent[serverMessageSequence]
  PROVE  CutFrom(first)'
<1> DEFINE m == serverMessageSequence
<1>1. /\ m \in Nat /\ m > 0
      /\ NextWritten = m /\ NextWritten' = m + 1
      /\ out.snap.messageNum < m
      /\ framesSaved' = framesSaved + 1 /\ framesSaved \in Nat
      /\ UNCHANGED <<sent, acked, serverMessageSequence, in>>
      /\ ParseFacts(out, m, span, delta, out')
      /\ Sound(out') /\ out'.snap.messageNum <= m
  BY PutFacts
<1>2. /\ first <= out.snap.messageNum /\ framesSaved <= m - first
      /\ first \in Nat /\ first < m
      /\ out.snap.messageNum \in Nat
  BY <1>1 DEF CutFrom, WorldInv, OutputInv, Sound, IsReader, IsSnap
<1>3. /\ \/ out'.snap.messageNum = m
         \/ out'.snap = out.snap /\ out'.snapshots = out.snapshots
      /\ out'.anyInvalid <=> out.anyInvalid \/ out'.baseInvalid
      /\ \A i \in Slots : out'.snapshots[i].valid =>
           \/ out'.snap.messageNum = m /\ i = SlotOf(m)
           \/ out'.snapshots[i] = out.snapshots[i]
      /\ \A k \in Int : k > m - PacketBackup /\ k < m /\ Has(out, k) =>
           out'.snapshots[SlotOf(k)] = out.snapshots[SlotOf(k)]
  BY <1>1 DEF ParseFacts
<1>4. out'.snap.messageNum = m => out'.snapshots[SlotOf(m)] = out'.snap /\ out'.snap.valid
  BY <1>1 DEF Sound, InPlace
<1>5. first <= out'.snap.messageNum /\ framesSaved' <= NextWritten' - first
  BY <1>1, <1>2, <1>3
<1>6. ASSUME NEW i \in Slots, out'.snapshots[i].valid
      PROVE  out'.snapshots[i].messageNum >= first
  BY <1>1, <1>2, <1>3, <1>4, <1>6 DEF CutFrom
<1>7. ASSUME NEW k \in acked, k >= first, k <= m
      PROVE  Has(out', k) /\ (~ out'.anyInvalid => out'.snapshots[SlotOf(k)].world = sent[k])
  <2>1. CASE k = m
    BY <1>4, <2>1 DEF Has
  <2>2. CASE k # m
    <3>1. k \in Int /\ k > m - PacketBackup /\ k < m
      BY <1>1, <1>7, <2>2 DEF WorldInv, ServerInv, Window
    <3>2. Has(out, k) /\ (~ out.anyInvalid => out.snapshots[SlotOf(k)].world = sent[k])
      BY <1>1, <1>7, <3>1 DEF CutFrom
    <3> QED
      BY <1>3, <3>1, <3>2 DEF Has
  <2> QED
    BY <2>1, <2>2
<1>8. \A k \in acked : k \in Int
  BY DEF WorldInv, ServerInv, Window
<1> HIDE DEF m
<1> QED
  BY <1>1, <1>5, <1>6, <1>7, <1>8 DEF CutFrom

(* So does the last snapshot where it was written before. *)
LEMMA RepeatedKept ==
  ASSUME WorldInv, Turn,
         NEW how, NEW seq, NEW known, NEW range, NEW span \in Nat, NEW delta,
         span < PacketBackup, Put(how, seq, known, range, span, delta),
         Repeated,
         /\ out'.snap.messageNum = serverMessageSequence /\ ~ out'.anyInvalid
         /\ Now = serverMessageSequence \/ LastFrame(FALSE) <= 1
         => out'.snap.world = in.snap.world
  PROVE  Repeated'
<1> DEFINE m == serverMessageSequence
<1>1. /\ m \in Nat /\ m > 0
      /\ NextWritten = m /\ NextWritten' = m + 1
      /\ Now \in Nat
      /\ UNCHANGED in
      /\ ParseFacts(out, m, span, delta, out')
      /\ Sound(out') /\ out'.snap.messageNum <= m
  BY PutFacts
<1>2. Now' = Now /\ LastFrame(FALSE)' = LastFrame(FALSE) /\ NextWritten' - 1 = m
  BY <1>1 DEF Now, LastFrame
<1>3. ASSUME ~ out'.anyInvalid, NEW k \in Now .. m, Has(out', k),
             k = Now \/ LastFrame(FALSE) <= 1
      PROVE  out'.snapshots[SlotOf(k)].world = in.snap.world
  <2>1. k \in Int /\ SlotOf(k) \in Slots
    BY <1>1, <1>3, SlotInRange
  <2>2. CASE k = m
    <3>1. out'.snap.messageNum = m
      BY <1>1, <1>3, <2>1, <2>2, HasBounds DEF Sound, IsReader, IsSnap
    <3>2. out'.snapshots[SlotOf(m)] = out'.snap
      BY <1>1, <3>1 DEF Sound, InPlace
    <3> QED
      BY <1>3, <2>2, <3>1, <3>2
  <2>3. CASE k # m
    <3>1. k \in Now .. m - 1
      BY <1>1, <1>3, <2>3
    <3>2. ~ (out'.snap.messageNum = m /\ SlotOf(k) = SlotOf(m))
      <4> SUFFICES ASSUME out'.snap.messageNum = m, SlotOf(k) = SlotOf(m) PROVE FALSE
        OBVIOUS
      <4>1. out'.snapshots[SlotOf(m)].messageNum = m
        BY <1>1 DEF Sound, InPlace
      <4> QED
        BY <1>3, <2>3, <4>1 DEF Has
    <3>3. out'.snapshots[SlotOf(k)] = out.snapshots[SlotOf(k)]
      BY <1>1, <1>3, <2>1, <3>2 DEF ParseFacts, Has
    <3>4. Has(out, k) /\ ~ out.anyInvalid
      BY <1>1, <1>3, <3>3 DEF ParseFacts, Has
    <3> QED
      BY <1>1, <1>3, <3>1, <3>3, <3>4 DEF Repeated
  <2> QED
    BY <2>2, <2>3
<1> HIDE DEF m
<1> QED
  BY <1>1, <1>2, <1>3 DEF Repeated, Has

(* A message with a snapshot, coded as the server did: the output's reader *)
(* accepts it, gets its world unless it misses the base, and has the base  *)
(* if that lies in the cut.                                                *)
LEMMA FreshFacts ==
  ASSUME WorldInv, Turn, msg.span # NoSnapshot,
         NEW how, NEW seq, NEW known, NEW range,
         Put(how, seq, known, range, msg.span, msg.delta),
         NEW first \in 1 .. serverMessageSequence, CutFrom(first)
  PROVE  LET m == serverMessageSequence
         IN  /\ out'.snap.messageNum = m
             /\ ~ out'.anyInvalid => out'.snap.world = sent[m]
             /\ m - msg.span >= first => ~ out'.baseInvalid
<1> DEFINE m == serverMessageSequence
           base == m - msg.span
<1>1. /\ msg.span \in Nat /\ msg.span < PacketBackup /\ m \in acked
      /\ msg.span > 0 => base \in acked
      /\ msg.delta = Delta(BaseOf(m, msg.span), sent[m])
      /\ IsWorld(sent[m])
  BY SlotsAssumption DEF Turn, WorldInv, ServerInv, MessageInv
<1>2. /\ m \in Nat /\ m > 0 /\ NextWritten = m
      /\ ParseFacts(out, m, msg.span, msg.delta, out')
  BY <1>1, PutFacts
<1>3. CASE msg.span = 0
  <2>1. Apply(NoWorld, msg.delta) = sent[m]
    BY <1>1, <1>3, ApplyBack DEF BaseOf
  <2> QED
    BY <1>2, <1>3, <2>1 DEF ParseFacts
<1>4. CASE msg.span > 0
  <2>1. base \in acked /\ base \in Nat \ {0} /\ base < m
    BY <1>1, <1>2, <1>4 DEF WorldInv, ServerInv, Window
  <2>2. Apply(sent[base], msg.delta) = sent[m]
    BY <1>1, <1>4, ApplyBack DEF BaseOf
  <2>3. out'.anyInvalid <=> out.anyInvalid \/ out'.baseInvalid
    BY <1>2 DEF ParseFacts
  <2>4. CASE base >= first
    <3>1. Has(out, base) /\ (~ out.anyInvalid => out.snapshots[SlotOf(base)].world = sent[base])
      BY <1>2, <2>1, <2>4 DEF CutFrom
    <3>2. out'.snap = [valid |-> TRUE, messageNum |-> m, deltaNum |-> base,
                       world |-> Apply(out.snapshots[SlotOf(base)].world, msg.delta)]
      BY <1>2, <1>4, <2>1, <3>1 DEF ParseFacts
    <3>3. ~ out'.baseInvalid
      BY <1>2, <1>4, <2>1, <3>1 DEF ParseFacts, Has
    <3> QED
      BY <2>2, <2>3, <3>1, <3>2, <3>3
  <2>5. CASE base < first
    <3>1. out'.snap.messageNum = m
      <4>1. out.snap.messageNum \in Nat /\ first <= out.snap.messageNum
        BY DEF CutFrom, WorldInv, OutputInv, Sound, IsReader, IsSnap
      <4>2. base <= out.snap.messageNum
        BY <2>1, <2>5, <4>1
      <4> QED
        BY <1>2, <1>4, <2>1, <4>2 DEF ParseFacts
    <3>2. ~ Has(out, base)
      BY <2>1, <2>5, SlotInRange DEF Has, CutFrom
    <3>3. out'.baseInvalid
      BY <1>2, <1>4, <2>1, <3>1, <3>2 DEF ParseFacts
    <3> QED
      BY <2>1, <2>3, <2>5, <3>1, <3>3
  <2> QED
    BY <2>1, <2>4, <2>5
<1> QED
  BY <1>1, <1>3, <1>4

(* A message of the cut with a snapshot is written, with any commands: the *)
(* output's reader has what the input's has, if the base is chosen as in *)
(* CopiedNow where it is copied. *)
LEMMA WorldFresh ==
  ASSUME WorldInv, Turn, framesSaved > 0, msg.span # NoSnapshot,
         NEW how, NEW seq, NEW known, NEW range,
         Put(how, seq, known, range, msg.span, msg.delta),
         how = "copied" => CopiedNow
  PROVE  WorldInv'
<1> DEFINE m == serverMessageSequence
<1>1. /\ msg.span \in Nat /\ msg.span < PacketBackup
      /\ in.snap.messageNum = m /\ in.snap.world = sent[m]
      /\ in.snap.deltaNum = IF msg.span = 0 THEN -1 ELSE m - msg.span
      /\ m \in Nat
  BY SlotsAssumption DEF Turn, WorldInv, ServerInv, MessageInv
<1>2. PICK first \in 1 .. m : CutFrom(first)
  BY DEF WorldInv, OutputInv
<1>3. /\ out'.snap.messageNum = m
      /\ ~ out'.anyInvalid => out'.snap.world = sent[m]
      /\ m - msg.span >= first => ~ out'.baseInvalid
  BY <1>2, FreshFacts
<1>4. CutFrom(first)'
  BY <1>1, <1>2, <1>3, CutKept
<1>5. Repeated'
  BY <1>1, <1>3, RepeatedKept DEF WorldInv, OutputInv
<1>6. UNCHANGED m /\ Sound(out') /\ out'.snap.messageNum <= m
  BY <1>1, PutFacts
<1>7. ASSUME how = "copied" PROVE ~ out'.baseInvalid
  <2>1. NextWritten = m /\ framesSaved \in Nat
    BY DEF Turn, NextWritten, WorldInv, OutputInv
  <2>2. framesSaved <= m - first /\ framesSaved > in.snap.messageNum - in.snap.deltaNum
    BY <1>2, <1>7, <2>1 DEF CutFrom, CopiedNow
  <2>3. m - msg.span >= first
    BY <1>1, <1>2, <2>1, <2>2
  <2> QED
    BY <1>3, <2>3
<1>8. \E f \in 1 .. m : CutFrom(f)'
  BY <1>4
<1> HIDE DEF m
<1> QED
  BY <1>5, <1>6, <1>7, <1>8, WorldPut DEF m

(* A message without a snapshot that is copied tells the output nothing.   *)
LEMMA WorldCopyBare ==
  ASSUME WorldInv, Copy, msg.span = NoSnapshot
  PROVE  WorldInv'
<1> DEFINE m == serverMessageSequence
<1>1. /\ Turn /\ framesSaved > 0 /\ loop = "write" /\ framesSaved \in Nat
      /\ Put("copied", outCommandSequence, outCommands, msg.from .. issued,
             msg.span, msg.delta)
      /\ UNCHANGED <<sent, acked, serverMessageSequence, in>>
  BY DEF Copy, Turn, serverVars, inputVars, WorldInv, OutputInv
<1>2. out' = [out EXCEPT !.baseInvalid = FALSE] /\ framesSaved' = framesSaved + 1
      /\ loop' = "read"
  BY <1>1 DEF Put
<1>3. /\ Sound(out) /\ m \in Nat /\ m \notin acked /\ out.snap.messageNum < m
      /\ out.snap.messageNum \in Nat
      /\ NextWritten = m /\ NextWritten' = m + 1
      /\ in.snap.messageNum \in Nat
  BY <1>1, <1>2
     DEF WorldInv, ServerInv, InputInv, OutputInv, MessageInv, NextWritten, Sound, IsReader,
         IsSnap
<1>4. /\ out'.snapshots = out.snapshots /\ out'.snap = out.snap
      /\ out'.anyInvalid = out.anyInvalid /\ ~ out'.baseInvalid
      /\ Sound(out')
  <2>1. out = [snapshots |-> out.snapshots, snap |-> out.snap,
               newSnapshots |-> out.newSnapshots,
               baseInvalid |-> out.baseInvalid, anyInvalid |-> out.anyInvalid]
    BY <1>3 DEF Sound, IsReader
  <2>2. out' = [snapshots |-> out.snapshots, snap |-> out.snap,
                newSnapshots |-> out.newSnapshots,
                baseInvalid |-> FALSE, anyInvalid |-> out.anyInvalid]
    BY <1>2, <2>1
  <2> QED
    BY <1>3, <2>2 DEF Sound, IsReader, InPlace
<1>5. PICK first \in 1 .. m : CutFrom(first)
  BY <1>1 DEF WorldInv, OutputInv
<1>6. CutFrom(first)'
  <2>1. \A k \in acked : k < m + 1 => k < m
    BY <1>3 DEF WorldInv, ServerInv, Window
  <2>2. framesSaved + 1 <= (m + 1) - first
    BY <1>1, <1>3, <1>5 DEF CutFrom
  <2> HIDE DEF m
  <2> QED
    BY <1>1, <1>2, <1>3, <1>4, <1>5, <2>1, <2>2 DEF CutFrom, Has
<1>7. Repeated'
  <2>1. Now' = Now /\ LastFrame(FALSE)' = LastFrame(FALSE)
        /\ NextWritten' - 1 = m /\ NextWritten - 1 = m - 1
    BY <1>1, <1>3 DEF Now, LastFrame
  <2>2. \A k \in Now .. m : Has(out, k) => k \in Now .. m - 1
    BY <1>3, HasBounds DEF Now
  <2>3. Repeated
    BY <1>1 DEF WorldInv, OutputInv
  <2> HIDE DEF m
  <2> QED
    BY <1>1, <1>4, <2>1, <2>2, <2>3 DEF Repeated, Has
<1>8. out'.snap.messageNum <= m
  BY <1>3, <1>4
<1>9. \E f \in 1 .. m : CutFrom(f)'
  BY <1>6
<1> HIDE DEF m
<1> QED
  BY <1>1, <1>4, <1>7, <1>8, <1>9, WorldPut DEF m

(* Copying a message keeps the two readers together. *)
LEMMA WorldCopy ==
  ASSUME WorldInv, Copy
  PROVE  WorldInv'
<1>1. CASE msg.span = NoSnapshot
  BY <1>1, WorldCopyBare
<1>2. CASE msg.span # NoSnapshot
  BY <1>2, WorldFresh DEF Copy
<1> QED
  BY <1>1, <1>2

(* So does writing it anew. *)
LEMMA WorldRewrite ==
  ASSUME WorldInv, Rewrite
  PROVE  WorldInv'
<1> DEFINE m == serverMessageSequence
           span == LastFrame(FALSE)
           range == FirstServerCommand .. serverCommandSequence
           base == in.snapshots[SlotOf(in.snap.messageNum - span)]
           delta == Delta(IF span = 0 THEN NoWorld ELSE base.world, in.snap.world)
<1>1. /\ Turn /\ framesSaved > 0 /\ loop = "write" /\ in.newSnapshots
      /\ Put("coded", outCommandSequence, outCommands, range, span, delta)
  BY DEF Rewrite, WriteDeltaSnapshot, Turn
<1>2. /\ in.snap.messageNum > 0 /\ in.snap.messageNum \in Nat /\ in.snap.deltaNum \in Int
      /\ IsWorld(in.snap.world) /\ m \in Nat
  BY <1>1 DEF WorldInv, ServerInv, InputInv, Sound, IsReader, IsSnap
<1>3. /\ span = IF in.snap.deltaNum = -1 THEN 0 ELSE in.snap.messageNum - in.snap.deltaNum
      /\ span \in Nat /\ span < PacketBackup
  BY <1>2, SpanOf DEF WorldInv
<1>4. CASE msg.span # NoSnapshot
  <2>1. /\ msg.span \in Nat
        /\ in.snap.messageNum = m /\ in.snap.world = sent[m]
        /\ in.snap.deltaNum = IF msg.span = 0 THEN -1 ELSE m - msg.span
        /\ msg.span > 0 => m - msg.span \in acked /\ m - msg.span > 0
        /\ msg.delta = Delta(BaseOf(m, msg.span), sent[m])
    BY <1>1, <1>4 DEF WorldInv, ServerInv, MessageInv, Window
  <2> HIDE DEF span
  <2>2. span = msg.span
    BY <1>2, <1>3, <2>1
  <2>3. delta = msg.delta
    <3>1. CASE msg.span = 0
      BY <2>1, <2>2, <3>1 DEF BaseOf
    <3>2. CASE msg.span > 0
      <4>1. base = in.snapshots[SlotOf(m - msg.span)]
        BY <2>1, <2>2
      <4>2. base.world = sent[m - msg.span]
        BY <2>1, <3>2, <4>1 DEF WorldInv, InputInv, HasWorld
      <4> HIDE DEF base
      <4>3. span # 0 /\ BaseOf(m, msg.span) = sent[m - msg.span]
        BY <2>1, <2>2, <3>2 DEF BaseOf
      <4>4. delta = Delta(base.world, in.snap.world)
        BY <4>3
      <4> QED
        BY <2>1, <4>2, <4>3, <4>4
    <3> HIDE DEF delta
    <3> QED
      BY <2>1, <3>1, <3>2
  <2> HIDE DEF span, delta, range
  <2>4. Put("coded", outCommandSequence, outCommands, range, msg.span, msg.delta)
    BY <1>1, <2>2, <2>3
  <2> QED
    BY <1>1, <1>4, <2>4, WorldFresh
<1>5. CASE msg.span = NoSnapshot
  <2> DEFINE w == in.snap.world
  <2>1. m \notin acked /\ in.snap.messageNum < m
    BY <1>1, <1>5 DEF WorldInv, MessageInv
  <2> HIDE DEF range
  <2>2. \E b : delta = Delta(b, w) /\ (span = 0 => b = NoWorld)
    BY DEF w
  <2> HIDE DEF span, delta, w
  <2>3. PICK b : delta = Delta(b, w) /\ (span = 0 => b = NoWorld)
    BY <2>2
  <2>4. /\ NextWritten = m /\ ParseFacts(out, m, span, delta, out')
        /\ UNCHANGED m /\ Sound(out') /\ out'.snap.messageNum <= m
    BY <1>1, <1>3, PutFacts
  <2>5. PICK first \in 1 .. m : CutFrom(first)
    BY <1>1 DEF WorldInv, OutputInv
  <2>6. CutFrom(first)'
    BY <1>1, <1>3, <2>1, <2>5, CutKept
  <2>7. Repeated
    BY <1>1 DEF WorldInv, OutputInv
  <2>8. ASSUME out'.snap.messageNum = m, ~ out'.anyInvalid, span <= 1
        PROVE  out'.snap.world = w
    <3>1. CASE span = 0
      <4>1. Apply(NoWorld, delta) = w
        BY <1>2, <2>3, <3>1, ApplyBack DEF w
      <4> QED
        BY <2>4, <3>1, <4>1 DEF ParseFacts
    <3>2. CASE span = 1
      <4>1. ~ (span = 0 \/ m - span <= 0) /\ m - 1 \in Nat /\ m - 1 \in Now .. NextWritten - 1
        BY <1>2, <2>1, <2>4, <3>2 DEF Now
      <4>2. Has(out, m - 1) /\ ~ out.anyInvalid
        BY <2>4, <2>8, <3>2, <4>1 DEF ParseFacts
      <4>3. out.snapshots[SlotOf(m - 1)].world = w
        BY <2>7, <2>8, <4>1, <4>2 DEF Repeated, span, w
      <4>4. out'.snap.world = Apply(w, delta)
        BY <2>4, <3>2, <4>1, <4>2, <4>3 DEF ParseFacts
      <4> QED
        BY <1>2, <2>3, <4>4, ApplyAgain DEF w
    <3> QED
      BY <1>3, <2>8, <3>1, <3>2
  <2>9. Repeated'
    <3>1. Now # m
      BY <2>1, <1>2 DEF Now
    <3> QED
      BY <1>1, <1>3, <2>7, <2>8, <3>1, RepeatedKept DEF span, w
  <2>10. \E f \in 1 .. m : CutFrom(f)'
    BY <2>6
  <2> HIDE DEF m
  <2> QED
    BY <1>1, <2>4, <2>9, <2>10, WorldPut DEF m
<1> QED
  BY <1>4, <1>5

(* The first message of the cut is a full snapshot. *)
LEMMA WorldBegin ==
  ASSUME WorldInv, Begin
  PROVE  WorldInv'
<1> DEFINE m == serverMessageSequence
           w == in.snap.world
           span == LastFrame(TRUE)
           range == FirstServerCommand .. serverCommandSequence
           known == 1 .. lastExecutedServerCommand' - 1
           base == in.snapshots[SlotOf(in.snap.messageNum - span)]
           delta == Delta(IF span = 0 THEN NoWorld ELSE base.world, w)
<1>1. /\ Turn /\ framesSaved = 0 /\ loop = "write" /\ in.newSnapshots
      /\ Put("coded", HeaderSequence, known, range, span, delta)
  BY DEF Begin, WriteDeltaSnapshot, Turn
<1>2. in.snap.messageNum > 0 /\ IsWorld(w) /\ PacketBackup \in Nat \ {0}
  BY <1>1, SlotsAssumption DEF WorldInv, InputInv, Sound, IsReader, IsSnap
<1>3. span = 0
  BY <1>2, SpanOf DEF WorldInv
<1>4. Apply(NoWorld, delta) = w
  BY <1>2, <1>3, ApplyBack
<1> HIDE DEF span, delta, w, known, range
<1>5. /\ m \in Nat /\ m > 0
      /\ NextWritten' = m + 1
      /\ Now \in Nat
      /\ framesSaved' = 1
      /\ UNCHANGED <<sent, acked, serverMessageSequence, in>>
      /\ ParseFacts(out, m, span, delta, out')
      /\ Sound(out') /\ out'.snap.messageNum <= m
  BY <1>1, <1>2, <1>3, PutFacts
<1>6. out'.snap.messageNum = m /\ out'.snap.valid /\ out'.snap.world = w
  BY <1>3, <1>4, <1>5 DEF ParseFacts
<1>7. out'.snapshots[SlotOf(m)] = out'.snap
  BY <1>5, <1>6 DEF Sound, InPlace
<1>8. ASSUME NEW i \in Slots, out'.snapshots[i].valid PROVE i = SlotOf(m)
  <2>1. ~ out.snapshots[i].valid
    BY <1>1 DEF WorldInv, OutputInv, ZeroReader, ZeroSnap
  <2> QED
    BY <1>5, <1>8, <2>1 DEF ParseFacts
<1>9. m \in acked => w = sent[m]
  BY <1>1 DEF WorldInv, MessageInv, w
<1>10. \E f \in 1 .. m : CutFrom(f)'
  <2>1. PICK first \in 1 .. m : first = m
    BY <1>5
  <2>2. \A k \in acked : k >= first => k = m
    BY <1>5, <2>1 DEF WorldInv, ServerInv, Window
  <2>3. \A i \in Slots : out'.snapshots[i].valid => out'.snapshots[i].messageNum = m
    BY <1>6, <1>7, <1>8
  <2> HIDE DEF m
  <2>4. CutFrom(first)'
    BY <1>5, <1>6, <1>7, <1>9, <2>1, <2>2, <2>3 DEF CutFrom, Has
  <2> QED
    BY <2>4
<1>11. Repeated'
  <2>1. Now' = Now /\ w = in'.snap.world /\ NextWritten' - 1 = m
    BY <1>5 DEF Now, w
  <2>2. ASSUME NEW k \in Now .. m, Has(out', k)
        PROVE  out'.snapshots[SlotOf(k)].world = w
    BY <1>5, <1>6, <1>7, <1>8, <2>2, SlotInRange DEF Has
  <2> HIDE DEF m
  <2> QED
    BY <2>1, <2>2 DEF Repeated, Has
<1> HIDE DEF m
<1> QED
  BY <1>1, <1>5, <1>10, <1>11, WorldPut DEF m

(* Every step keeps WorldInv. *)
LEMMA WorldStep == WorldInv /\ [Next]_vars => WorldInv'
<1> SUFFICES ASSUME WorldInv, [Next]_vars PROVE WorldInv'
  OBVIOUS
<1>1. CASE \E w \in Worlds, k \in 0 .. MaxNewCommands : Lose(w, k)
  BY <1>1, WorldLose
<1>2. CASE \E w \in Worlds, k \in 0 .. MaxNewCommands, span \in NoSnapshot .. MaxSpan,
              from \in 1 .. serverCommandSequence + 1 : Read(w, k, span, from)
  BY <1>2, WorldRead
<1>3. CASE Skip \/ Finish \/ Wait
  BY <1>3, WorldIdle
<1>4. CASE Copy
  BY <1>4, WorldCopy
<1>5. CASE Rewrite
  BY <1>5, WorldRewrite
<1>6. CASE Begin
  BY <1>6, WorldBegin
<1>7. CASE UNCHANGED vars
  <2>1. UNCHANGED <<sent, acked, serverMessageSequence, msg, in, framesSaved, loop, out, last>>
    BY <1>7 DEF vars, serverVars, inputVars, outVars
  <2>2. NextWritten' = NextWritten
    BY <2>1 DEF NextWritten
  <2>3. ServerInv' /\ InputInv'
    BY <2>1 DEF WorldInv, ServerInv, InputInv, HasWorld
  <2>4. MessageInv'
    BY <2>1 DEF WorldInv, MessageInv, BaseOf
  <2>5. LastInv'
    BY <2>1 DEF WorldInv, LastInv, CopiedBaseKnown, Now
  <2>6. OutputInv'
    <3>1. \A first \in 1 .. serverMessageSequence : CutFrom(first) => CutFrom(first)'
      BY <2>1, <2>2 DEF CutFrom, Has
    <3>2. Repeated => Repeated'
      BY <2>1, <2>2 DEF Repeated, Now, LastFrame, Has
    <3> QED
      BY <2>1, <2>2, <3>1, <3>2 DEF WorldInv, OutputInv
  <2> QED
    BY <2>3, <2>4, <2>5, <2>6 DEF WorldInv
<1> QED
  BY <1>1, <1>2, <1>3, <1>4, <1>5, <1>6, <1>7 DEF Next

(* What the readers hold is an invariant. *)
LEMMA WorldInvariant == Spec => []WorldInv
BY WorldInit, WorldStep, PTL DEF Spec

(* Whatever the output's reader accepts is the snapshot it was written     *)
(* for, for any messages and losses, any cut and any length of references: *)
(* but for a snapshot that is written again with a base further back.      *)
THEOREM OutputExactAlways == Spec => []OutputExact
<1>1. WorldInv => OutputExact
  <2> SUFFICES ASSUME WorldInv, loop = "read", framesSaved > 0,
                      last.messageNum = out.snap.messageNum, ~ out.anyInvalid,
                      Now = last.messageNum \/ LastFrame(FALSE) <= 1
      PROVE  out.snap.world = last.world
    BY DEF OutputExact
  <2> DEFINE m == out.snap.messageNum
  <2>1. /\ last.world = in.snap.world /\ m \in Now .. serverMessageSequence
        /\ in.newSnapshots /\ Repeated /\ Sound(out) /\ Sound(in)
        /\ serverMessageSequence \in Nat
    BY DEF WorldInv, ServerInv, InputInv, OutputInv, LastInv
  <2>2. Now \in Nat /\ Now > 0 /\ m > 0 /\ m \in Int
    BY <2>1 DEF Sound, IsReader, IsSnap, Now
  <2>3. Has(out, m) /\ out.snapshots[SlotOf(m)].world = out.snap.world
    BY <2>1, <2>2 DEF Sound, InPlace, Has
  <2>4. m \in Now .. NextWritten - 1
    BY <2>1, <2>2 DEF NextWritten
  <2> HIDE DEF m
  <2>5. m = Now \/ LastFrame(FALSE) <= 1
    BY DEF m
  <2> QED
    BY <2>1, <2>3, <2>4, <2>5 DEF Repeated
<1> QED
  BY <1>1, WorldInvariant, PTL

(* A message is written as it came only when the output has its base,      *)
(* whatever was lost and however long the references are: as many messages *)
(* were written since the cut began as the base lies back, at least.       *)
THEOREM CopiedBaseAlwaysKnown == Spec => []CopiedBaseKnown
<1>1. WorldInv => CopiedBaseKnown
  BY DEF WorldInv, LastInv
<1> QED
  BY <1>1, WorldInvariant, PTL

-----------------------------------------------------------------------------
(* Types: the commands, and what was written last. *)
TypeInv ==
  /\ CommandTypes
  /\ loop = "write" => issued = serverCommandSequence
  /\ outCommandSequence \in Int /\ outCommands \subseteq 0 .. issued
  /\ IsWorld(last.world) /\ last.how \in {"none", "coded", "copied"}

(* The last of a range of commands is a number. *)
LEMMA AfterInt ==
  ASSUME NEW seq \in Int, NEW lo \in Int, NEW hi \in Int
  PROVE  After(seq, lo .. hi) \in Int
<1>1. CASE lo <= hi
  <2>1. hi \in lo .. hi /\ \A d \in lo .. hi : d <= hi
    BY <1>1
  <2>2. (CHOOSE c \in lo .. hi : \A d \in lo .. hi : d <= c) \in Int
    BY <2>1
  <2> QED
    BY <2>2 DEF After
<1>2. CASE ~ (lo <= hi)
  BY <1>2 DEF After, Taken
<1> QED
  BY <1>1, <1>2

(* Writing a message keeps the types. *)
LEMMA TypePut ==
  ASSUME WorldInv, TypeInv, Turn,
         NEW how \in {"coded", "copied"}, NEW seq \in Int, NEW known, NEW lo \in Nat,
         NEW span, NEW delta, known \subseteq 0 .. serverCommandSequence,
         Put(how, seq, known, lo .. serverCommandSequence, span, delta)
  PROVE  TypeInv'
<1>1. /\ lastExecutedServerCommand' = serverCommandSequence
      /\ UNCHANGED <<issued, serverCommandSequence, msg, in>>
      /\ loop = "write" /\ issued = serverCommandSequence
  BY TurnRuns DEF TypeInv
<1>2. framesSaved' = framesSaved + 1 /\ loop' = "read"
  BY DEF Put
<1>3. CommandTypes'
  BY <1>1, <1>2 DEF TypeInv, CommandTypes
<1>4. serverCommandSequence \in Nat
  BY DEF TypeInv, CommandTypes
<1>5. outCommandSequence' \in Int
  BY <1>4, AfterInt DEF Put
<1>6. outCommands' \subseteq 0 .. issued'
  BY <1>1, <1>4 DEF Put, Taken
<1>7. IsWorld(last'.world) /\ last'.how = how
  BY DEF Put, WorldInv, InputInv, Sound, IsReader, IsSnap
<1> QED
  BY <1>2, <1>3, <1>5, <1>6, <1>7 DEF TypeInv

(* Reading one does. *)
LEMMA TypeRead ==
  ASSUME TypeInv, NEW w \in Worlds, NEW k \in 0 .. MaxNewCommands,
         NEW span \in NoSnapshot .. MaxSpan,
         NEW from \in 1 .. serverCommandSequence + 1, Read(w, k, span, from)
  PROVE  TypeInv'
<1>1. k \in Nat /\ from \in Nat
  BY TrimmerAssumption DEF TypeInv, CommandTypes
<1>2. /\ loop' = "write"
      /\ issued' = issued + k
      /\ msg'.from = from
      /\ serverCommandSequence' = After(serverCommandSequence, from .. issued')
      /\ UNCHANGED <<lastExecutedServerCommand, framesSaved, outCommandSequence,
                     outCommands, last>>
  BY DEF Read, Send, outVars
<1>3. serverCommandSequence' = issued'
  BY <1>1, <1>2, AfterInterval DEF TypeInv, CommandTypes
<1> QED
  BY <1>1, <1>2, <1>3 DEF TypeInv, CommandTypes

(* Every step does. *)
LEMMA TypeStep == WorldInv /\ TypeInv /\ [Next]_vars => TypeInv'
<1> SUFFICES ASSUME WorldInv, TypeInv, [Next]_vars PROVE TypeInv'
  OBVIOUS
<1>1. CASE \E w \in Worlds, k \in 0 .. MaxNewCommands : Lose(w, k)
  <2>1. PICK w \in Worlds, k \in 0 .. MaxNewCommands : Lose(w, k)
    BY <1>1
  <2>2. k \in Nat
    BY TrimmerAssumption
  <2> QED
    BY <2>1, <2>2 DEF Lose, Send, TypeInv, CommandTypes, inputVars, outVars
<1>2. CASE \E w \in Worlds, k \in 0 .. MaxNewCommands, span \in NoSnapshot .. MaxSpan,
              from \in 1 .. serverCommandSequence + 1 : Read(w, k, span, from)
  BY <1>2, TypeRead
<1>3. CASE Skip
  BY <1>3 DEF Skip, TypeInv, CommandTypes, serverVars, inputVars, outVars
<1>4. CASE Finish \/ Wait
  <2>1. /\ lastExecutedServerCommand' = serverCommandSequence
        /\ UNCHANGED <<issued, serverCommandSequence, msg, in>>
    BY <1>4, TurnRuns DEF TypeInv, Finish, Wait
  <2>2. /\ loop' \in {"read", "done"}
        /\ UNCHANGED <<framesSaved, outCommandSequence, outCommands, last>>
    BY <1>4 DEF Finish, Wait, outVars
  <2> QED
    BY <2>1, <2>2 DEF TypeInv, CommandTypes
<1>5. serverCommandSequence \in Nat /\ MaxReliableCommands \in Nat
  BY TrimmerAssumption DEF TypeInv, CommandTypes
<1>6. FirstServerCommand \in Nat
  BY FirstBound DEF TypeInv
<1>7. CASE Copy
  <2>1. /\ Turn
        /\ Put("copied", outCommandSequence, outCommands, msg.from .. issued,
               msg.span, msg.delta)
    BY <1>7 DEF Copy
  <2>2. issued = serverCommandSequence
    BY <2>1 DEF Turn, TypeInv
  <2>3. /\ outCommandSequence \in Int /\ outCommands \subseteq 0 .. serverCommandSequence
        /\ msg.from \in Nat
    BY <2>2 DEF TypeInv, CommandTypes
  <2> QED
    BY <2>1, <2>2, <2>3, TypePut
<1>8. CASE Rewrite
  <2> DEFINE span == LastFrame(FALSE)
             base == in.snapshots[SlotOf(in.snap.messageNum - span)]
             delta == Delta(IF span = 0 THEN NoWorld ELSE base.world, in.snap.world)
  <2>1. /\ Turn
        /\ Put("coded", outCommandSequence, outCommands,
               FirstServerCommand .. serverCommandSequence, span, delta)
    BY <1>8 DEF Rewrite, WriteDeltaSnapshot
  <2>2. issued = serverCommandSequence
    BY <2>1 DEF Turn, TypeInv
  <2>3. outCommandSequence \in Int /\ outCommands \subseteq 0 .. serverCommandSequence
    BY <2>2 DEF TypeInv, CommandTypes
  <2> HIDE DEF span, delta
  <2> QED
    BY <1>6, <2>1, <2>3, TypePut
<1>9. CASE Begin
  <2> DEFINE span == LastFrame(TRUE)
             base == in.snapshots[SlotOf(in.snap.messageNum - span)]
             delta == Delta(IF span = 0 THEN NoWorld ELSE base.world, in.snap.world)
             known == 1 .. lastExecutedServerCommand' - 1
  <2>1. /\ Turn
        /\ Put("coded", HeaderSequence, known,
               FirstServerCommand .. serverCommandSequence, span, delta)
    BY <1>9 DEF Begin, WriteDeltaSnapshot
  <2>2. lastExecutedServerCommand' = serverCommandSequence
    BY <2>1, TurnRuns DEF TypeInv
  <2>3. known \subseteq 0 .. serverCommandSequence /\ HeaderSequence \in Int
    BY <1>5, <2>2 DEF HeaderSequence
  <2> HIDE DEF span, delta, known
  <2> QED
    BY <1>6, <2>1, <2>3, TypePut
<1>10. CASE UNCHANGED vars
  BY <1>10 DEF vars, serverVars, inputVars, outVars, TypeInv, CommandTypes
<1> QED
  BY <1>1, <1>2, <1>3, <1>4, <1>7, <1>8, <1>9, <1>10 DEF Next

(* Numbers stay in their ranges and worlds stay worlds; of the commands no *)
(* more are run through than were read, and no more are written than the   *)
(* server issued.                                                          *)
THEOREM TypeCorrect == Spec => []TypeOK
<1>1. Init => TypeInv
  BY ZeroSound, TrimmerAssumption DEF Init, TypeInv, CommandTypes, NoMsg
<1>2. WorldInv /\ TypeInv => TypeOK
  <2> SUFFICES ASSUME WorldInv, TypeInv PROVE TypeOK
    OBVIOUS
  <2>1. /\ serverMessageSequence \in 0 .. MaxMessages /\ MaxMessages \in Nat
        /\ DOMAIN sent = Window(serverMessageSequence) /\ acked \subseteq DOMAIN sent
    BY TrimmerAssumption DEF WorldInv, ServerInv
  <2>2. IsWorld(in.snap.world) /\ IsWorld(out.snap.world) /\ IsWorld(last.world)
    BY DEF WorldInv, InputInv, OutputInv, Sound, IsReader, IsSnap, TypeInv
  <2>3. framesSaved \in 0 .. MaxMessages
    <3>1. CASE framesSaved = 0
      BY <2>1, <3>1
    <3>2. CASE framesSaved > 0
      <4>1. PICK first \in 1 .. serverMessageSequence : CutFrom(first)
        BY <3>2 DEF WorldInv, OutputInv
      <4>2. framesSaved \in Nat /\ framesSaved <= NextWritten - first
        BY <4>1 DEF WorldInv, OutputInv, CutFrom
      <4> QED
        BY <2>1, <4>2 DEF NextWritten
    <3> QED
      BY <3>1, <3>2 DEF WorldInv, OutputInv
  <2> QED
    BY <2>1, <2>2, <2>3 DEF TypeOK, TypeInv, CommandTypes, SomeWorlds
<1>3. TypeInv /\ WorldInv /\ [Next]_vars => TypeInv'
  BY TypeStep
<1> QED
  BY <1>1, <1>2, <1>3, WorldInvariant, PTL DEF Spec
=============================================================================
