----------------------------- MODULE LiveReader -----------------------------
(***************************************************************************)
(* Reading a demo while the game is still recording it: FS_Read and        *)
(* CL_ReadDemoMessage of JKDemoMetadata/deps.cpp under the loop of         *)
(* JKDemoMetadata/main.cpp.                                                *)
(*                                                                         *)
(* The recording game (external) appends to the file whenever it likes,    *)
(* also in the middle of a message, and may never write the -1 -1 that     *)
(* ends a demo.  At the end of the file a live reader sleeps, opens the    *)
(* file again where it was and goes on; any other takes what there is.     *)
(*                                                                         *)
(* The file is a sequence of cells: two for a message's header, its number *)
(* and its length, and then its data.  The loop of main parses messages    *)
(* until there are no more: what it does with a snapshot besides, where it *)
(* would set finalScores, comes behind a continue (main.cpp:394).          *)
(***************************************************************************)
EXTENDS Integers, Sequences

CONSTANTS
  Messages,   \* what the game records: the lengths of its messages
  Recording,  \* the cells of these messages and of the -1 -1 behind them
  Start,      \* message -> the cells before it; of one more too: the end
  Steps       \* sleeps that FS_Read allows for at a time (5000 / 100)

Header == 2
EndOfDemo == <<<<0, 1>>, <<0, 2>>>>    \* -1 -1
Cells(i) == [k \in 1 .. Header + Messages[i] |-> <<i, k>>]
End == Len(Messages) + 1

ASSUME LiveAssumption ==
  /\ Steps \in Nat \ {0}
  /\ Messages \in Seq(Nat \ {0})
  /\ Start \in [1 .. End -> Nat]
  /\ Start[1] = 0
  /\ \A i \in DOMAIN Messages : Start[i + 1] = Start[i] + Header + Messages[i]
  /\ Recording \in Seq(Nat \X Nat)
  /\ Len(Recording) = Start[End] + Header
  /\ \A i \in DOMAIN Messages : \A k \in DOMAIN Cells(i) :
       Recording[Start[i] + k] = Cells(i)[k]
  /\ \A k \in 1 .. Header : Recording[Start[End] + k] = EndOfDemo[k]

VARIABLES
  \* The game.
  ends,       \* will it write -1 -1?
  written,    \* cells in the file
  \* The file as FS_Read has it open.
  pos,        \* where it stands
  feof,       \* was the end reached by reading
  bytesRead,  \* cells that were read
  \* FS_Read.
  step,       \* "loop", "wait", "fread", "return", or "done": the program ended
  waited,     \* timeWaited
  got,        \* what was read so far into the caller's memory
  dataSize,   \* how much is wanted
  \* main.
  live,         \* live_mode
  header,       \* of the message whose data is read, or <<>>
  parsed        \* messages given to CL_ParseServerMessage
file == <<pos, feof, bytesRead>>
reading == <<step, waited, got, dataSize>>
caller == <<live, header, parsed>>
vars == <<ends, written, file, reading, caller>>

(* All that the game will have written. *)
Size == IF ends THEN Len(Recording) ELSE Start[End]

-----------------------------------------------------------------------------
(* The game.                                                               *)

Record ==
  /\ \E n \in written + 1 .. Size : written' = n
  /\ UNCHANGED <<ends, file, reading, caller>>

-----------------------------------------------------------------------------
(* FS_Read, a pass of its loop in two or more steps.                       *)

Loop ==
  /\ step = "loop"
  /\ IF Len(got) < dataSize
       THEN /\ step' = IF live THEN "wait" ELSE "fread"
            /\ waited' = 0
       ELSE step' = "return" /\ UNCHANGED waited
  /\ UNCHANGED <<ends, written, file, got, dataSize, caller>>

(* A mistake: it goes on where the data wanted began. *)
ReopenedAt0 == bytesRead - Len(got)

ReopenedAt == bytesRead

(* A mistake: it sleeps and does not open the file again. *)
Sleep ==
  /\ step = "wait" /\ waited < Steps /\ feof
  /\ waited' = waited + 1
  /\ UNCHANGED <<ends, written, file, step, got, dataSize, caller>>

Reopen ==
  /\ step = "wait" /\ waited < Steps /\ feof
  /\ waited' = waited + 1
  /\ pos' = ReopenedAt /\ feof' = FALSE
  /\ UNCHANGED <<ends, written, bytesRead, step, got, dataSize, caller>>

Waited ==
  /\ step = "wait" /\ ~(waited < Steps /\ feof)
  /\ step' = "fread"
  /\ UNCHANGED <<ends, written, file, waited, got, dataSize, caller>>

Smaller(m, n) == IF m < n THEN m ELSE n

(* A mistake: an incomplete read does not count. *)
CountedWhole(n) == IF n = dataSize - Len(got) THEN n ELSE 0

Counted(n) == n

Fread ==
  LET n == Smaller(dataSize - Len(got), written - pos)
  IN /\ step = "fread"
     /\ IF feof
          THEN step' = "return" /\ UNCHANGED <<file, got>>
          ELSE /\ got' = got \o SubSeq(Recording, pos + 1, pos + n)
               /\ pos' = pos + n
               /\ bytesRead' = bytesRead + Counted(n)
               /\ feof' = (n < dataSize - Len(got))
               /\ step' = "loop"
     /\ UNCHANGED <<ends, written, waited, dataSize, caller>>

-----------------------------------------------------------------------------
(* CL_ReadDemoMessage and the loop of main.                                *)

Want(n) == step' = "loop" /\ got' = <<>> /\ dataSize' = n

(* A header that is not whole, or is -1 -1, ends the demo.                 *)
HeaderRead ==
  /\ step = "return" /\ header = <<>>
  /\ IF Len(got) # Header \/ got = EndOfDemo
       THEN step' = "done" /\ UNCHANGED <<got, dataSize, header>>
       ELSE header' = got /\ Want(Messages[got[Header][1]])
  /\ UNCHANGED <<ends, written, file, waited, live, parsed>>

(* "Demo file was truncated."                                              *)
Truncated ==
  /\ step = "return" /\ header # <<>> /\ Len(got) # dataSize
  /\ step' = "done"
  /\ UNCHANGED <<ends, written, file, waited, got, dataSize, caller>>

(* The message is parsed, and the next one is read: live_mode only ends    *)
(* the loop once finalScores is set, which it never is. *)
MessageRead ==
  /\ step = "return" /\ header # <<>> /\ Len(got) = dataSize
  /\ parsed' = Append(parsed, header \o got)
  /\ header' = <<>>
  /\ Want(Header)
  /\ UNCHANGED <<ends, written, file, waited, live>>

-----------------------------------------------------------------------------
Init ==
  /\ ends \in BOOLEAN /\ live \in BOOLEAN
  /\ written = 0
  /\ pos = 0 /\ feof = FALSE /\ bytesRead = 0
  /\ step = "loop" /\ waited = 0 /\ got = <<>> /\ dataSize = Header
  /\ header = <<>> /\ parsed = <<>>

Reader == Loop \/ Reopen \/ Waited \/ Fread \/ HeaderRead \/ Truncated \/ MessageRead
Next == Record \/ Reader

(* The reader runs on; the game may stop whenever it likes.                *)
Spec == Init /\ [][Next]_vars /\ WF_vars(Reader)

-----------------------------------------------------------------------------
(* Types, and FS_Read's bookkeeping: it reads no more than is wanted or    *)
(* there, the file stands where bytesRead says, and no wait comes to its   *)
(* limit, since opening the file again is enough to end it.                *)
TypeOK ==
  /\ ends \in BOOLEAN /\ live \in BOOLEAN
  /\ step \in {"loop", "wait", "fread", "return", "done"}
  /\ written \in 0 .. Size /\ pos \in 0 .. written
  /\ bytesRead = pos
  /\ waited \in 0 .. 1
  /\ Len(got) <= dataSize

(* CL_ReadDemoMessage hands on whole messages of the game, every one once  *)
(* and in order, however the file grew under FS_Read and wherever the end  *)
(* was met: in a header, in a message, between two.                        *)
MessagesExact ==
  /\ Len(parsed) <= Len(Messages)
  /\ \A i \in DOMAIN parsed : parsed[i] = Cells(i)

(* Live mode never takes an end of file for the end of the demo: only the  *)
(* -1 -1 ends it.  Any other mode ends early only at the end of the file.  *)
EndedRightly ==
  step = "done" => IF live THEN ends /\ Len(parsed) = Len(Messages) ELSE feof \/ ends

(* Once the game has written all of a demo, up to its -1 -1, live mode     *)
(* reads all of it and ends: no wait of FS_Read is left unended.           *)
ReadToEnd ==
  live /\ ends /\ written = Len(Recording) ~> step = "done" /\ Len(parsed) = Len(Messages)
=============================================================================
