---------------------------- MODULE MessageProofs ----------------------------
(***************************************************************************)
(* What a demo file is read with.  LiveReader, for every sequence of       *)
(* messages and every way the file grows: what the loop hands on is what   *)
(* the game recorded, and live mode does not end before the game has ended *)
(* its demo.  BitBuffer, for every prefix code and everything that is      *)
(* written with it: what fits into a message is read back from it.         *)
(***************************************************************************)
EXTENDS LiveReader, BitBuffer, WellFoundedInduction, TLAPS

Cell == Nat \X Nat

(* The message that is being read. *)
Now == Len(parsed) + 1

(* What FS_Read knows of the file. *)
FileInv ==
  /\ ends \in BOOLEAN /\ live \in BOOLEAN /\ feof \in BOOLEAN
  /\ step \in {"loop", "wait", "fread", "return", "done"}
  /\ written \in Nat /\ written <= Size
  /\ pos \in Nat /\ pos <= written
  /\ bytesRead = pos
  /\ waited \in {0, 1}

(* It has read the last cells before its position. *)
GotInv ==
  /\ dataSize \in Nat
  /\ got \in Seq(Cell) /\ Len(got) <= dataSize /\ Len(got) <= pos
  /\ \A k \in 1 .. Len(got) : got[k] = Recording[pos - Len(got) + k]

(* In live mode it never reads at the end of the file, and so it never     *)
(* returns with less than was wanted. *)
WaitInv ==
  /\ step = "wait" => live
  /\ step = "wait" /\ waited = 1 => ~ feof
  /\ step = "fread" /\ live => ~ feof
  /\ step = "return" => Len(got) = dataSize \/ (~ live /\ feof)

(* Where the caller is: before a header, or before the data of a message.  *)
CallerInv ==
  /\ parsed \in Seq(Seq(Cell))
  /\ Now \in 1 .. End
  /\ header \in Seq(Cell)
  /\ pos = Start[Now] + Len(header) + Len(got)
  /\ \/ header = <<>> /\ dataSize = Header
     \/ /\ Now \in DOMAIN Messages
        /\ header = <<<<Now, 1>>, <<Now, 2>>>>
        /\ dataSize = Messages[Now]

ParsedInv == \A i \in 1 .. Len(parsed) : parsed[i] = Cells(i)

EndInv == step = "done" => IF live THEN ends /\ Now = End ELSE feof \/ ends

IInv == FileInv /\ GotInv /\ WaitInv /\ CallerInv /\ ParsedInv /\ EndInv

-----------------------------------------------------------------------------
(* Facts about the recording. *)

(* Messages, starts and cells have the sizes that the recording says. *)
LEMMA Sizes ==
  /\ Len(Messages) \in Nat /\ End \in Nat /\ End >= 1
  /\ DOMAIN Messages = 1 .. Len(Messages)
  /\ \A i \in 1 .. End : Start[i] \in Nat
  /\ \A i \in DOMAIN Messages : Messages[i] \in Nat /\ Messages[i] > 0
  /\ Len(Recording) \in Nat
  /\ \A k \in 1 .. Len(Recording) : Recording[k] \in Cell
  /\ ends \in BOOLEAN => Size \in Nat /\ Size <= Len(Recording)
<1>1. /\ Len(Messages) \in Nat
      /\ DOMAIN Messages = 1 .. Len(Messages)
      /\ \A i \in DOMAIN Messages : Messages[i] \in Nat /\ Messages[i] > 0
  <2>1. Messages \in Seq(Nat \ {0})
    BY LiveAssumption
  <2> QED BY <2>1
<1>2. End \in Nat /\ End >= 1
  BY <1>1 DEF End
<1>3. \A i \in 1 .. End : Start[i] \in Nat
  BY LiveAssumption
<1>4. Len(Recording) \in Nat /\ \A k \in 1 .. Len(Recording) : Recording[k] \in Cell
  <2>1. Recording \in Seq(Cell)
    BY LiveAssumption DEF Cell
  <2> QED BY <2>1
<1>5. Start[End] \in Nat /\ Start[End] <= Len(Recording)
  <2>1. End \in 1 .. End
    BY <1>2
  <2>2. Start[End] \in Nat
    BY <2>1, <1>3
  <2>3. Len(Recording) = Start[End] + Header
    BY LiveAssumption
  <2> QED BY <2>2, <2>3 DEF Header
<1>6. ends \in BOOLEAN => Size \in Nat /\ Size <= Len(Recording)
  BY <1>4, <1>5 DEF Size
<1> QED BY <1>1, <1>2, <1>3, <1>4, <1>6

(* The header of a message stands where the message starts, and behind all *)
(* messages stands the -1 -1.                                              *)
LEMMA HeaderCells ==
  ASSUME NEW i \in 1 .. End, NEW k \in 1 .. Header
  PROVE  Recording[Start[i] + k] = IF i = End THEN <<0, k>> ELSE <<i, k>>
<1>1. CASE i = End
  <2>1. Recording[Start[End] + k] = EndOfDemo[k]
    BY LiveAssumption
  <2>2. EndOfDemo[k] = <<0, k>>
    BY DEF EndOfDemo, Header
  <2> QED BY <1>1, <2>1, <2>2
<1>2. CASE i # End
  <2>1. i \in DOMAIN Messages
    BY <1>2, Sizes DEF End
  <2>2. k \in 1 .. Header + Messages[i]
    BY <2>1, Sizes DEF Header
  <2>3. k \in DOMAIN Cells(i) /\ Cells(i)[k] = <<i, k>>
    BY <2>2 DEF Cells
  <2>4. Recording[Start[i] + k] = Cells(i)[k]
    BY <2>1, <2>3, LiveAssumption
  <2> QED BY <1>2, <2>3, <2>4
<1> QED BY <1>1, <1>2

(* The data of a message stands behind its header. *)
LEMMA DataCells ==
  ASSUME NEW i \in DOMAIN Messages, NEW k \in 1 .. Messages[i]
  PROVE  Recording[Start[i] + Header + k] = <<i, Header + k>>
<1>1. Header + k \in 1 .. Header + Messages[i]
  BY Sizes DEF Header
<1>2. Header + k \in DOMAIN Cells(i) /\ Cells(i)[Header + k] = <<i, Header + k>>
  BY <1>1 DEF Cells
<1>3. Recording[Start[i] + (Header + k)] = Cells(i)[Header + k]
  BY <1>2, LiveAssumption
<1>4. Start[i] + (Header + k) = Start[i] + Header + k
  <2>1. i \in 1 .. End
    BY Sizes DEF End
  <2>2. Start[i] \in Nat /\ k \in Nat
    BY <2>1, Sizes
  <2> QED BY <2>2 DEF Header
<1> QED BY <1>2, <1>3, <1>4

-----------------------------------------------------------------------------
(* The file is opened. *)
LEMMA InitInv == Init => IInv
<1> SUFFICES ASSUME Init PROVE IInv
  OBVIOUS
<1>1. FileInv
  <2>1. ends \in BOOLEAN /\ live \in BOOLEAN /\ feof \in BOOLEAN
    BY DEF Init
  <2>2. Size \in Nat
    BY <2>1, Sizes
  <2>3. /\ step = "loop" /\ written = 0 /\ pos = 0 /\ bytesRead = 0 /\ waited = 0
    BY DEF Init
  <2> QED BY <2>1, <2>2, <2>3 DEF FileInv
<1>2. GotInv
  BY DEF Init, GotInv, Header
<1>3. CallerInv
  BY Sizes, LiveAssumption DEF Init, CallerInv, Now
<1>4. WaitInv /\ ParsedInv /\ EndInv
  BY DEF Init, WaitInv, ParsedInv, EndInv
<1> QED BY <1>1, <1>2, <1>3, <1>4 DEF IInv

(* The game appends to the file: what was read stays what it was. *)
LEMMA RecordInv == IInv /\ Record => IInv'
<1> SUFFICES ASSUME IInv, Record PROVE IInv'
  OBVIOUS
<1> USE DEF IInv, Record, file, reading, caller
<1>1. FileInv'
  <2>1. PICK n \in written + 1 .. Size : written' = n
    OBVIOUS
  <2>2. Size \in Nat /\ Size' = Size
    BY Sizes DEF FileInv, Size
  <2> QED BY <2>1, <2>2 DEF FileInv
<1>2. GotInv' /\ WaitInv' /\ CallerInv'
  BY DEF GotInv, WaitInv, CallerInv, Now
<1>3. ParsedInv' /\ EndInv'
  BY DEF ParsedInv, EndInv, Now
<1> QED BY <1>1, <1>2, <1>3

(* FS_Read looks whether it has all, and how much is there. *)
LEMMA LoopInv == IInv /\ Loop => IInv'
<1> SUFFICES ASSUME IInv, Loop PROVE IInv'
  OBVIOUS
<1> USE DEF IInv, Loop, file, caller
<1>1. FileInv'
  BY DEF FileInv, Size
<1>2. GotInv' /\ CallerInv'
  BY DEF GotInv, CallerInv, Now
<1>3. WaitInv'
  BY DEF WaitInv, GotInv
<1>4. ParsedInv' /\ EndInv'
  BY DEF ParsedInv, EndInv, Now
<1> QED BY <1>1, <1>2, <1>3, <1>4

(* It opens the file again where it was. *)
LEMMA ReopenInv == IInv /\ Reopen => IInv'
<1> SUFFICES ASSUME IInv, Reopen PROVE IInv'
  OBVIOUS
<1> USE DEF IInv, Reopen, ReopenedAt, caller
<1>1. waited = 0 /\ pos' = pos
  BY DEF FileInv, WaitInv
<1>2. FileInv'
  <2>1. feof' \in BOOLEAN
    OBVIOUS
  <2>2. waited' = 1
    BY <1>1
  <2> QED BY <1>1, <2>1, <2>2 DEF FileInv, Size
<1>3. GotInv' /\ CallerInv'
  BY <1>1 DEF GotInv, CallerInv, Now
<1>4. WaitInv' /\ ParsedInv' /\ EndInv'
  BY DEF WaitInv, ParsedInv, EndInv, Now
<1> QED BY <1>2, <1>3, <1>4

(* A wait ends when there is something to read. *)
LEMMA WaitedInv == IInv /\ Waited => IInv'
<1> SUFFICES ASSUME IInv, Waited PROVE IInv'
  OBVIOUS
<1> USE DEF IInv, Waited, file, caller
<1>1. ~ feof
  BY LiveAssumption DEF FileInv, WaitInv
<1>2. FileInv' /\ GotInv' /\ CallerInv'
  BY DEF FileInv, GotInv, CallerInv, Now, Size
<1>3. WaitInv' /\ ParsedInv' /\ EndInv'
  BY <1>1 DEF WaitInv, ParsedInv, EndInv, Now
<1> QED BY <1>2, <1>3

-----------------------------------------------------------------------------
(* fread hands on the cells behind the position. *)
LEMMA FreadInv == IInv /\ Fread => IInv'
<1> SUFFICES ASSUME IInv, Fread PROVE IInv'
  OBVIOUS
<1> USE DEF IInv
<1>1. CASE feof
  <2>1. step' = "return" /\ ~ live
    BY <1>1 DEF Fread, WaitInv
  <2> QED BY <1>1, <2>1
       DEF Fread, file, caller, FileInv, Size, GotInv, WaitInv, CallerInv, Now, ParsedInv, EndInv
<1>2. CASE ~ feof
  <2> DEFINE n == Smaller(dataSize - Len(got), written - pos)
             new == SubSeq(Recording, pos + 1, pos + n)
  <2>1. n \in Nat /\ pos + n <= written /\ n <= dataSize - Len(got)
    BY DEF FileInv, GotInv, Smaller
  <2>2. pos + n <= Len(Recording) /\ Len(Recording) \in Nat
    BY <2>1, Sizes DEF FileInv
  <2>3. /\ got' = got \o new /\ pos' = pos + n /\ bytesRead' = bytesRead + n
        /\ step' = "loop"
        /\ UNCHANGED <<ends, written, waited, dataSize, live, header, parsed>>
    BY <1>2 DEF Fread, Counted, caller
  <2>f. feof' \in BOOLEAN
    BY <1>2 DEF Fread
  <2>4. new \in Seq(Cell) /\ Len(new) = n /\ \A k \in 1 .. n : new[k] = Recording[pos + k]
    <3>1. Recording \in Seq(Cell)
      BY LiveAssumption DEF Cell
    <3> HIDE DEF n
    <3> QED BY <3>1, <2>1, <2>2 DEF FileInv
  <2> HIDE DEF n, new
  <2>5. /\ got' \in Seq(Cell) /\ Len(got') = Len(got) + n
        /\ \A k \in 1 .. Len(got) : got'[k] = got[k]
        /\ \A k \in Len(got) + 1 .. Len(got) + n : got'[k] = new[k - Len(got)]
    <3>1. got \in Seq(Cell) /\ Len(got) \in Nat
      BY DEF GotInv
    <3> QED BY <3>1, <2>1, <2>3, <2>4
  <2>6. FileInv'
    BY <2>1, <2>3, <2>f DEF FileInv, Size
  <2>7. GotInv'
    <3>1. /\ Len(got') <= dataSize' /\ Len(got') <= pos' /\ dataSize' \in Nat
          /\ pos' - Len(got') = pos - Len(got)
      BY <2>1, <2>3, <2>5 DEF FileInv, GotInv
    <3>2. ASSUME NEW k \in 1 .. Len(got')
          PROVE  got'[k] = Recording[pos' - Len(got') + k]
      <4>1. CASE k <= Len(got)
        BY <4>1, <3>1, <2>5 DEF GotInv
      <4>2. CASE k > Len(got)
        <5>1. k - Len(got) \in 1 .. n /\ k \in Len(got) + 1 .. Len(got) + n
          BY <4>2, <2>1, <2>5 DEF GotInv
        <5>2. got'[k] = Recording[pos + (k - Len(got))]
          BY <5>1, <2>4, <2>5
        <5>3. pos + (k - Len(got)) = pos' - Len(got') + k
          BY <5>1, <3>1, <2>1 DEF GotInv, FileInv
        <5> QED BY <5>2, <5>3
      <4> QED BY <4>1, <4>2, <2>1, <2>5 DEF GotInv
    <3> QED BY <3>1, <3>2, <2>5 DEF GotInv
  <2>8. CallerInv'
    <3>1. Start[Now] \in Nat
      BY Sizes DEF CallerInv
    <3>2. pos' = Start[Now] + Len(header) + Len(got')
      BY <3>1, <2>1, <2>3, <2>5 DEF CallerInv, GotInv
    <3> QED BY <3>2, <2>3 DEF CallerInv, Now
  <2>9. WaitInv' /\ ParsedInv' /\ EndInv'
    BY <2>3 DEF WaitInv, ParsedInv, EndInv, Now
  <2> QED BY <2>6, <2>7, <2>8, <2>9
<1> QED BY <1>1, <1>2 DEF FileInv

-----------------------------------------------------------------------------
(* The first two cells of what was read, when they are a header: those of  *)
(* the next message, or the -1 -1 if there is none.                        *)
LEMMA GotHeader ==
  ASSUME IInv, header = <<>>, Len(got) = Header
  PROVE  got = IF Now = End THEN EndOfDemo ELSE <<<<Now, 1>>, <<Now, 2>>>>
<1>1. pos - Len(got) = Start[Now] /\ Start[Now] \in Nat /\ Now \in 1 .. End
  BY Sizes DEF IInv, CallerInv, FileInv, Header
<1>2. got \in Seq(Cell) /\ Len(got) = 2
  BY DEF IInv, GotInv, Header
<1>3. got[1] = Recording[Start[Now] + 1] /\ got[2] = Recording[Start[Now] + 2]
  BY <1>1, <1>2 DEF IInv, GotInv
<1>4. /\ Recording[Start[Now] + 1] = IF Now = End THEN <<0, 1>> ELSE <<Now, 1>>
      /\ Recording[Start[Now] + 2] = IF Now = End THEN <<0, 2>> ELSE <<Now, 2>>
  BY <1>1, HeaderCells DEF Header
<1>5. got = <<got[1], got[2]>>
  BY <1>2
<1> QED BY <1>3, <1>4, <1>5 DEF EndOfDemo

(* A message's header is not taken for the end of the demo. *)
LEMMA HeaderNotEnd == \A i \in 1 .. End : <<<<i, 1>>, <<i, 2>>>> # EndOfDemo
BY DEF EndOfDemo

(* A header is complete: the length of the message is read, or the end of *)
(* the demo is seen. *)
LEMMA HeaderReadInv == IInv /\ HeaderRead => IInv'
<1> SUFFICES ASSUME IInv, HeaderRead PROVE IInv'
  OBVIOUS
<1>1. CASE Len(got) # Header \/ got = EndOfDemo
  <2>1. /\ step' = "done"
        /\ UNCHANGED <<ends, written, pos, feof, bytesRead, waited, got, dataSize,
                       live, header, parsed>>
    BY <1>1 DEF HeaderRead, file
  <2>2. IF live THEN ends /\ Now = End ELSE feof \/ ends
    <3>1. header = <<>> /\ dataSize = Header /\ step = "return"
      BY DEF HeaderRead, IInv, CallerInv
    <3>2. CASE Len(got) # Header
      BY <3>1, <3>2 DEF IInv, WaitInv
    <3>3. CASE Len(got) = Header
      <4>1. got = EndOfDemo
        BY <1>1, <3>3
      <4>2. Now = End
        BY <4>1, <3>1, <3>3, GotHeader, HeaderNotEnd DEF IInv, CallerInv
      <4>3. pos = Start[End] + Header /\ Start[End] \in Nat
        BY <4>2, <3>1, <3>3, Sizes DEF IInv, CallerInv, Header
      <4>4. Start[End] < written /\ written <= Size
        BY <4>3 DEF IInv, FileInv, Header
      <4>5. ends
        BY <4>3, <4>4 DEF IInv, FileInv, Size
      <4> QED BY <4>2, <4>5
    <3> QED BY <3>2, <3>3
  <2>3. FileInv' /\ GotInv' /\ CallerInv'
    BY <2>1 DEF IInv, FileInv, Size, GotInv, CallerInv, Now
  <2>4. WaitInv' /\ ParsedInv' /\ EndInv'
    BY <2>1, <2>2 DEF IInv, WaitInv, ParsedInv, EndInv, Now
  <2> QED BY <2>3, <2>4 DEF IInv
<1>2. CASE Len(got) = Header /\ got # EndOfDemo
  <2>1. Now # End /\ got = <<<<Now, 1>>, <<Now, 2>>>>
    BY <1>2, GotHeader DEF HeaderRead
  <2>2. Now \in DOMAIN Messages /\ got[Header][1] = Now
    BY <2>1, Sizes DEF IInv, CallerInv, End, Header
  <2>3. /\ step' = "loop" /\ got' = <<>> /\ dataSize' = Messages[Now] /\ header' = got
        /\ UNCHANGED <<ends, written, pos, feof, bytesRead, waited, live, parsed>>
    BY <1>2, <2>2 DEF HeaderRead, file, Want
  <2>4. FileInv'
    BY <2>3 DEF IInv, FileInv, Size
  <2>5. GotInv'
    BY <2>2, <2>3, Sizes DEF IInv, GotInv, FileInv
  <2>6. CallerInv'
    <3>1. Now' = Now /\ got' = <<>> /\ Len(got') = 0 /\ header = <<>> /\ Len(header) = 0
      BY <2>3 DEF Now, HeaderRead
    <3>2. pos' = Start[Now'] + Len(header') + Len(got')
      BY <1>2, <2>3, <3>1, Sizes DEF IInv, CallerInv, Header
    <3>3. header' \in Seq(Cell) /\ header' = <<<<Now, 1>>, <<Now, 2>>>>
      BY <2>1, <2>3 DEF IInv, GotInv
    <3> QED BY <2>2, <2>3, <3>1, <3>2, <3>3 DEF IInv, CallerInv
  <2>7. WaitInv' /\ ParsedInv' /\ EndInv'
    BY <2>3 DEF IInv, WaitInv, ParsedInv, EndInv, Now
  <2> QED BY <2>4, <2>5, <2>6, <2>7 DEF IInv
<1> QED BY <1>1, <1>2

(* Something was cut short, which in live mode cannot be. *)
LEMMA TruncatedInv == IInv /\ Truncated => IInv'
<1> SUFFICES ASSUME IInv, Truncated PROVE IInv'
  OBVIOUS
<1> USE DEF IInv, Truncated, file, caller
<1>1. ~ live /\ feof
  BY DEF WaitInv
<1>2. FileInv' /\ GotInv' /\ CallerInv'
  BY DEF FileInv, Size, GotInv, CallerInv, Now
<1>3. WaitInv' /\ ParsedInv' /\ EndInv'
  BY <1>1 DEF WaitInv, ParsedInv, EndInv
<1> QED BY <1>2, <1>3

-----------------------------------------------------------------------------
(* A header and all of its data are the message. *)
LEMMA Whole ==
  ASSUME IInv, header # <<>>, Len(got) = dataSize
  PROVE  header \o got = Cells(Now) /\ header \o got \in Seq(Cell)
<1>1. /\ Now \in DOMAIN Messages /\ header = <<<<Now, 1>>, <<Now, 2>>>>
      /\ header \in Seq(Cell) /\ Len(header) = Header /\ Len(got) = Messages[Now]
  BY DEF IInv, CallerInv, Header
<1>2. /\ got \in Seq(Cell) /\ Messages[Now] \in Nat
      /\ Start[Now] \in Nat /\ pos - Len(got) = Start[Now] + Header
  BY <1>1, Sizes DEF IInv, CallerInv, GotInv, FileInv, Header
<1>3. \A k \in 1 .. Messages[Now] : got[k] = <<Now, Header + k>>
  BY <1>1, <1>2, DataCells, ZenonT(30) DEF IInv, GotInv
<1>4. header \o got \in Seq(Cell) /\ Len(header \o got) = Header + Messages[Now]
  BY <1>1, <1>2
<1>5. ASSUME NEW k \in 1 .. Header + Messages[Now]
      PROVE  (header \o got)[k] = <<Now, k>>
  <2>1. CASE k <= Header
    <3>1. (header \o got)[k] = header[k]
      BY <2>1, <1>1, <1>2
    <3>2. k = 1 \/ k = 2
      BY <2>1, <1>2 DEF Header
    <3> QED BY <3>1, <3>2, <1>1
  <2>2. CASE k > Header
    <3>1. k - Header \in 1 .. Messages[Now] /\ Header + (k - Header) = k
      BY <2>2, <1>2 DEF Header
    <3>2. (header \o got)[k] = got[k - Header]
      BY <2>2, <1>1, <1>2 DEF Header
    <3> QED BY <3>1, <3>2, <1>3
  <2>3. k <= Header \/ k > Header
    BY <1>2 DEF Header
  <2> QED BY <2>1, <2>2, <2>3
<1>6. header \o got = [k \in 1 .. Header + Messages[Now] |-> (header \o got)[k]]
  <2> DEFINE c == header \o got
  <2>1. c \in Seq(Cell) /\ Len(c) = Header + Messages[Now]
    BY <1>4
  <2> HIDE DEF c
  <2>2. c = [k \in 1 .. Len(c) |-> c[k]]
    BY <2>1
  <2> QED BY <2>1, <2>2 DEF c
<1>7. header \o got = [k \in 1 .. Header + Messages[Now] |-> <<Now, k>>]
  BY <1>5, <1>6, Zenon
<1> QED BY <1>4, <1>7 DEF Cells

(* A message is complete, and the next header begins. *)
LEMMA MessageReadInv == IInv /\ MessageRead => IInv'
<1> SUFFICES ASSUME IInv, MessageRead PROVE IInv'
  OBVIOUS
<1>1. /\ step' = "loop" /\ got' = <<>> /\ dataSize' = Header /\ header' = <<>>
      /\ parsed' = Append(parsed, header \o got)
      /\ UNCHANGED <<ends, written, pos, feof, bytesRead, waited, live>>
  BY DEF MessageRead, file, Want
<1>2. /\ Now \in DOMAIN Messages /\ Len(header) = Header /\ dataSize = Messages[Now]
      /\ header \o got = Cells(Now) /\ header \o got \in Seq(Cell)
  BY Whole DEF MessageRead, IInv, CallerInv, Header
<1>3. /\ parsed \in Seq(Seq(Cell)) /\ parsed' \in Seq(Seq(Cell))
      /\ Len(parsed') = Len(parsed) + 1
      /\ \A i \in 1 .. Len(parsed) : parsed'[i] = parsed[i]
      /\ parsed'[Len(parsed) + 1] = Cells(Now)
  BY <1>1, <1>2 DEF IInv, CallerInv
<1>4. FileInv'
  BY <1>1 DEF IInv, FileInv, Size
<1>5. GotInv'
  BY <1>1 DEF IInv, GotInv, FileInv, Header
<1>6. CallerInv'
  <2>1. Now' = Now + 1 /\ Now' \in 1 .. End
    BY <1>2, <1>3, Sizes DEF Now, End
  <2>2. Start[Now'] = pos
    <3>1. Start[Now + 1] = Start[Now] + Header + Messages[Now]
      BY <1>2, LiveAssumption
    <3>2. pos = Start[Now] + Header + Messages[Now]
      BY <1>2, Sizes DEF IInv, CallerInv, MessageRead
    <3> QED BY <2>1, <3>1, <3>2
  <2>3. header' \in Seq(Cell) /\ Len(header') = 0 /\ Len(got') = 0
    BY <1>1
  <2>4. pos' = Start[Now'] + Len(header') + Len(got')
    BY <1>1, <2>1, <2>2, <2>3, Sizes
  <2> QED BY <1>1, <1>3, <2>1, <2>3, <2>4 DEF CallerInv
<1>7. ParsedInv'
  <2>1. ASSUME NEW i \in 1 .. Len(parsed')
        PROVE  parsed'[i] = Cells(i)
    <3>1. i \in 1 .. Len(parsed) \/ i = Len(parsed) + 1
      BY <1>3
    <3> QED BY <3>1, <1>3 DEF IInv, ParsedInv, Now
  <2> QED BY <2>1 DEF ParsedInv
<1>8. WaitInv' /\ EndInv'
  BY <1>1 DEF WaitInv, EndInv
<1> QED BY <1>4, <1>5, <1>6, <1>7, <1>8 DEF IInv

(* A step that changes nothing keeps the invariant. *)
LEMMA StutterInv == IInv /\ UNCHANGED vars => IInv'
BY DEF IInv, vars, file, reading, caller, FileInv, Size, GotInv, WaitInv, CallerInv, Now,
       ParsedInv, EndInv

-----------------------------------------------------------------------------
(* What the reader knows of the file and the recording always holds.       *)
THEOREM Invariance == Spec => []IInv
<1>1. IInv /\ [Next]_vars => IInv'
  BY RecordInv, LoopInv, ReopenInv, WaitedInv, FreadInv, HeaderReadInv, TruncatedInv,
     MessageReadInv, StutterInv DEF Next, Reader
<1> QED BY InitInv, <1>1, PTL DEF Spec

(* FS_Read's counters stay in step with the file, and no wait lasts longer *)
(* than one opening of the file, for recordings of any length.             *)
THEOREM LiveTyped == Spec => []TypeOK
<1>1. IInv => TypeOK
  BY DEF IInv, FileInv, GotInv, TypeOK
<1> QED BY Invariance, <1>1, PTL

(* Whatever the game records, at whatever pace, the loop hands on its      *)
(* messages whole, once and in order.                                      *)
THEOREM LiveExact == Spec => []MessagesExact
<1>1. IInv => MessagesExact
  BY Sizes DEF IInv, CallerInv, ParsedInv, MessagesExact, Now, End
<1> QED BY Invariance, <1>1, PTL

(* Live mode ends only at the -1 -1, and then it has every message.        *)
THEOREM LiveEnds == Spec => []EndedRightly
<1>1. IInv => EndedRightly
  BY Sizes DEF IInv, CallerInv, EndInv, EndedRightly, Now, End
<1> QED BY Invariance, <1>1, PTL

-----------------------------------------------------------------------------
(* Induction over numbers, and recursive functions.                        *)

Less == {p \in Nat \X Nat : p[1] < p[2]}

(* The order of the numbers is well founded. *)
LEMMA LessWellFounded == IsWellFoundedOn(Less, Nat)
<1>1. Less = OpToRel(<, Nat)
  BY DEF Less, OpToRel
<1> QED
  BY <1>1, NatLessThanWellFounded

(* A set of numbers has a least one. *)
LEMMA Least ==
  ASSUME NEW T \in SUBSET Nat, T # {}
  PROVE  \E n \in T : \A m \in T : n <= m
<1>1. \E x \in T : \A y \in T : ~ (<<y, x>> \in Less)
  BY LessWellFounded, WFMin, Zenon
<1>2. \A x, y \in Nat : y < x => <<y, x>> \in Less
  BY DEF Less
<1>3. PICK n \in T : \A m \in T : ~ (<<m, n>> \in Less)
  BY <1>1
<1>4. ASSUME NEW m \in T PROVE n <= m
  <2>1. n \in Nat /\ m \in Nat /\ ~ (<<m, n>> \in Less)
    BY <1>3
  <2>2. ~ (m < n)
    BY <2>1, <1>2, Zenon
  <2> QED
    BY <2>1, <2>2
<1> QED
  BY <1>4

(* What holds of 0, and of i when it holds of i - 1, holds up to n. *)
LEMMA Counting ==
  ASSUME NEW n \in Nat, NEW T, 0 \in T, \A i \in 1 .. n : i - 1 \in T => i \in T
  PROVE  \A i \in 0 .. n : i \in T
<1> DEFINE F == {i \in 0 .. n : i \notin T}
<1>1. SUFFICES ASSUME F # {} PROVE FALSE
  OBVIOUS
<1>2. F \in SUBSET Nat
  OBVIOUS
<1>3. PICK k \in F : \A m \in F : k <= m
  <2> HIDE DEF F
  <2> QED
    BY <1>1, <1>2, Least
<1>4. k \in 1 .. n /\ k - 1 \in 0 .. n /\ k - 1 \notin F
  BY <1>3
<1> QED
  BY <1>3, <1>4

(* What holds of 0, and of i + 1 when it holds of i, holds of every number.*)
LEMMA Induction ==
  ASSUME NEW T, 0 \in T, \A i \in Nat : i \in T => i + 1 \in T
  PROVE  \A i \in Nat : i \in T
<1>1. ASSUME NEW n \in Nat PROVE n \in T
  <2>1. \A i \in 1 .. n : i - 1 \in T => i \in T
    <3>1. ASSUME NEW i \in 1 .. n, i - 1 \in T PROVE i \in T
      <4>1. i - 1 \in Nat /\ (i - 1) + 1 = i
        OBVIOUS
      <4> QED
        BY <3>1, <4>1
    <3> QED
      BY <3>1
  <2>2. \A i \in 0 .. n : i \in T
    BY <2>1, Counting, Zenon
  <2> QED
    BY <2>2
<1> QED
  BY <1>1

(* The values of a recursion, from s over nxt. *)
Recursive(f, n, s, nxt) ==
  f[0] = s /\ \A i \in 1 .. n : f[i] = nxt[<<i, f[i - 1]>>]

(* A recursion over a set has a function. *)
LEMMA Recursion ==
  ASSUME NEW n \in Nat, NEW S, NEW s \in S, NEW nxt \in [(1 .. n) \X S -> S]
  PROVE  \E f \in [0 .. n -> S] : Recursive(f, n, s, nxt)
<1> DEFINE T == {m \in 0 .. n : \E f \in [0 .. m -> S] : Recursive(f, m, s, nxt)}
<1>1. 0 \in T
  <2>1. [i \in 0 .. 0 |-> s] \in [0 .. 0 -> S] /\ Recursive([i \in 0 .. 0 |-> s], 0, s, nxt)
    BY DEF Recursive
  <2> QED
    BY <2>1
<1>2. ASSUME NEW m \in 1 .. n, m - 1 \in T PROVE m \in T
  <2>1. PICK f \in [0 .. m - 1 -> S] : Recursive(f, m - 1, s, nxt)
    BY <1>2
  <2> DEFINE g == [i \in 0 .. m |-> IF i = m THEN nxt[<<m, f[m - 1]>>] ELSE f[i]]
  <2>2. f[m - 1] \in S /\ m - 1 \in 0 .. m - 1 /\ <<m, f[m - 1]>> \in (1 .. n) \X S
    BY <2>1
  <2>3. nxt[<<m, f[m - 1]>>] \in S
    BY <2>2
  <2>4. g \in [0 .. m -> S]
    BY <2>1, <2>3
  <2>5. g[0] = s
    BY <2>1 DEF Recursive
  <2>6. ASSUME NEW i \in 1 .. m PROVE g[i] = nxt[<<i, g[i - 1]>>]
    <3>1. g[i - 1] = f[i - 1]
      OBVIOUS
    <3>2. i # m => i \in 1 .. m - 1 /\ g[i] = f[i]
      OBVIOUS
    <3>3. CASE i = m
      <4>1. g[m] = nxt[<<m, f[m - 1]>>]
        OBVIOUS
      <4> HIDE DEF g
      <4> QED
        BY <3>1, <3>3, <4>1
    <3>4. CASE i # m
      BY <2>1, <3>1, <3>2, <3>4 DEF Recursive
    <3> QED
      BY <3>3, <3>4
  <2>7. Recursive(g, m, s, nxt)
    BY <2>5, <2>6 DEF Recursive
  <2> QED
    BY <2>4, <2>7
<1>3. n \in T
  <2> HIDE DEF T
  <2>1. \A i \in 0 .. n : i \in T
    BY <1>1, <1>2, Counting
  <2> QED
    BY <2>1
<1> QED
  BY <1>3

-----------------------------------------------------------------------------
(* Powers of two. *)

(* There is a function that doubles. *)
LEMMA PowerExists ==
  \E f \in [Nat -> Nat] : f[0] = 1 /\ \A n \in Nat \ {0} : f[n] = 2 * f[n - 1]
<1> DEFINE P(f, n) == f[0] = 1 /\ \A i \in 1 .. n : f[i] = 2 * f[i - 1]
           F(n) == {f \in [0 .. n -> Nat] : P(f, n)}
<1>1. ASSUME NEW n \in Nat PROVE F(n) # {}
  <2> DEFINE nxt == [x \in (1 .. n) \X Nat |-> 2 * x[2]]
  <2>1. nxt \in [(1 .. n) \X Nat -> Nat]
    OBVIOUS
  <2>2. PICK f \in [0 .. n -> Nat] : Recursive(f, n, 1, nxt)
    BY <2>1, Recursion
  <2>3. \A i \in 1 .. n : <<i, f[i - 1]>> \in (1 .. n) \X Nat
    OBVIOUS
  <2>4. P(f, n)
    BY <2>2, <2>3 DEF Recursive
  <2> QED
    BY <2>4
<1>2. ASSUME NEW n \in Nat, NEW f \in F(n), NEW m \in Nat, NEW g \in F(m)
      PROVE  \A i \in 0 .. n : i <= m => f[i] = g[i]
  <2> DEFINE T == {i \in 0 .. n : i <= m => f[i] = g[i]}
  <2>1. 0 \in T
    OBVIOUS
  <2>2. ASSUME NEW i \in 1 .. n, i - 1 \in T PROVE i \in T
    BY <2>2
  <2>3. \A i \in 0 .. n : i \in T
    <3> HIDE DEF T
    <3> QED
      BY <2>1, <2>2, Counting
  <2> QED
    BY <2>3
<1> DEFINE h == [n \in Nat |-> (CHOOSE f : f \in F(n))[n]]
<1>3. ASSUME NEW n \in Nat PROVE \A f \in F(n) : h[n] = f[n]
  <2> DEFINE e == CHOOSE g : g \in F(n)
  <2>1. h[n] = e[n] /\ n \in 0 .. n /\ n <= n
    <3> HIDE DEF F
    <3> QED
      OBVIOUS
  <2>2. e \in F(n)
    <3> HIDE DEF F
    <3> QED
      BY <1>1
  <2> HIDE DEF e, F, h
  <2>3. ASSUME NEW f \in F(n) PROVE h[n] = f[n]
    BY <1>2, <2>1, <2>2
  <2> QED
    BY <2>3
<1>4. ASSUME NEW n \in Nat PROVE h[n] \in Nat
  <2>1. PICK f : f \in F(n)
    BY <1>1
  <2>2. f[n] \in Nat
    BY <2>1
  <2> HIDE DEF F, h
  <2> QED
    BY <1>3, <2>1, <2>2
<1>5. h[0] = 1
  <2>1. PICK f : f \in F(0)
    BY <1>1
  <2> QED
    BY <1>3, <2>1
<1>6. ASSUME NEW n \in Nat \ {0} PROVE h[n] = 2 * h[n - 1]
  <2>1. PICK f : f \in F(n)
    BY <1>1
  <2> DEFINE g == [i \in 0 .. n - 1 |-> f[i]]
  <2>2. n - 1 \in Nat /\ g \in F(n - 1)
    BY <2>1
  <2>3. h[n] = f[n] /\ h[n - 1] = g[n - 1]
    BY <1>3, <2>1, <2>2
  <2> QED
    BY <2>1, <2>2, <2>3
<1>7. h \in [Nat -> Nat]
  BY <1>4
<1> QED
  BY <1>5, <1>6, <1>7

(* Power is that function. *)
LEMMA PowerStep ==
  /\ Power \in [Nat -> Nat \ {0}] /\ Power[0] = 1 /\ Power[1] = 2
  /\ \A n \in Nat : Power[n + 1] = 2 * Power[n]
<1> DEFINE R(f) == f = [n \in Nat |-> IF n = 0 THEN 1 ELSE 2 * f[n - 1]]
<1>1. PICK f \in [Nat -> Nat] : f[0] = 1 /\ \A n \in Nat \ {0} : f[n] = 2 * f[n - 1]
  BY PowerExists
<1>2. R(f)
  BY <1>1
<1>3. R(Power)
  BY <1>2 DEF Power
<1>4. \A n \in Nat : Power[n] = IF n = 0 THEN 1 ELSE 2 * Power[n - 1]
  BY <1>3
<1>5. DOMAIN Power = Nat /\ Power = [n \in Nat |-> Power[n]]
  BY <1>3
<1> HIDE DEF R
<1>6. Power[0] = 1
  BY <1>4
<1>7. ASSUME NEW n \in Nat PROVE Power[n + 1] = 2 * Power[n]
  <2>1. n + 1 \in Nat /\ n + 1 # 0 /\ (n + 1) - 1 = n
    OBVIOUS
  <2> QED
    BY <1>4, <2>1
<1> DEFINE T == {n \in Nat : Power[n] \in Nat \ {0}}
<1>8. 0 \in T /\ \A n \in Nat : n \in T => n + 1 \in T
  BY <1>6, <1>7
<1>9. \A n \in Nat : n \in T
  <2> HIDE DEF T
  <2> QED
    BY <1>8, Induction
<1>10. Power[1] = 2
  BY <1>6, <1>7
<1> QED
  BY <1>5, <1>6, <1>7, <1>9, <1>10

(* A sum of exponents is a product of powers. *)
LEMMA PowerAdd ==
  ASSUME NEW m \in Nat, NEW n \in Nat
  PROVE  Power[m + n] = Power[m] * Power[n]
<1> DEFINE T == {i \in Nat : Power[m + i] = Power[m] * Power[i]}
<1>1. 0 \in T
  BY PowerStep
<1>2. ASSUME NEW i \in Nat, i \in T PROVE i + 1 \in T
  <2>1. m + (i + 1) = (m + i) + 1 /\ m + i \in Nat
    OBVIOUS
  <2>2. Power[m + (i + 1)] = 2 * (Power[m] * Power[i]) /\ Power[i + 1] = 2 * Power[i]
    BY <1>2, <2>1, PowerStep
  <2>3. Power[m] \in Nat /\ Power[i] \in Nat
    BY PowerStep
  <2>4. 2 * (Power[m] * Power[i]) = Power[m] * (2 * Power[i])
    BY <2>3
  <2> QED
    BY <2>2, <2>4
<1>3. \A i \in Nat : i \in T
  <2> HIDE DEF T
  <2> QED
    BY <1>1, <1>2, Induction
<1> QED
  BY <1>3

-----------------------------------------------------------------------------
(* Division, and the digits of numbers. *)

(* What is divided is quotient and remainder. *)
LEMMA Division ==
  \A P \in Nat \ {0}, v \in Int :
    v = P * (v \div P) + (v % P) /\ v % P \in 0 .. P - 1 /\ v \div P \in Int
BY SMT

(* Quotient and remainder are unique. *)
LEMMA DivisionIs ==
  ASSUME NEW P \in Nat \ {0}, NEW q \in Int, NEW r \in 0 .. P - 1
  PROVE  (P * q + r) \div P = q /\ (P * q + r) % P = r
<1> DEFINE v == P * q + r
           a == v \div P
           b == v % P
<1>1. v \in Int /\ a \in Int /\ b \in 0 .. P - 1 /\ v = P * a + b
  <2>1. v \in Int
    BY SMT
  <2> HIDE DEF v
  <2> QED
    BY <2>1, Division
<1> HIDE DEF a, b
<1>2. P * q - P * a = b - r
  BY <1>1
<1>3. P * q - P * a = P * (q - a)
  BY <1>1
<1>4. q - a >= 1 => P * (q - a) >= P
  BY <1>1
<1>5. q - a <= -1 => P * (q - a) <= -P
  BY <1>1
<1>6. q = a
  BY <1>1, <1>2, <1>3, <1>4, <1>5
<1>7. b = r
  BY <1>1, <1>6
<1> QED
  BY <1>6, <1>7 DEF a, b

(* Division by a product is one division after the other. *)
LEMMA DivisionTwice ==
  ASSUME NEW P \in Nat \ {0}, NEW Q \in Nat \ {0}, NEW v \in Int
  PROVE  /\ P * Q \in Nat \ {0}
         /\ v % (P * Q) = (v % P) + P * ((v \div P) % Q)
         /\ v \div (P * Q) = (v \div P) \div Q
<1> DEFINE a == v \div P
           r == v % P
           b == a \div Q
           s == a % Q
<1>1. a \in Int /\ r \in 0 .. P - 1 /\ v = P * a + r
  BY Division
<1>2. b \in Int /\ s \in 0 .. Q - 1 /\ a = Q * b + s
  <2> HIDE DEF a
  <2> QED
    BY <1>1, Division
<1> HIDE DEF a, r, b, s
<1>3. P * Q \in Nat \ {0}
  BY SMT
<1>4. v = (P * Q) * b + (P * s + r)
  <2>1. P * (Q * b + s) = P * (Q * b) + P * s
    BY <1>2
  <2>2. P * (Q * b) = (P * Q) * b
    BY <1>2
  <2>3. P * (Q * b) \in Int /\ P * s \in Int
    BY <1>2
  <2> QED
    BY <1>1, <1>2, <2>1, <2>2, <2>3
<1>5. P * s + r \in 0 .. P * Q - 1
  <2>1. P * s <= P * (Q - 1)
    BY <1>2
  <2>2. P * (Q - 1) = P * Q - P
    BY <1>2
  <2>3. P * s >= 0 /\ P * s \in Int /\ P * Q \in Int
    BY <1>2
  <2> QED
    BY <1>1, <2>1, <2>2, <2>3
<1> DEFINE N == P * Q
           t == P * s + r
<1>6. N \in Nat \ {0} /\ t \in 0 .. N - 1 /\ v = N * b + t
  BY <1>3, <1>4, <1>5
<1> HIDE DEF N, t
<1>7. v \div N = b /\ v % N = t
  BY <1>2, <1>6, DivisionIs
<1> QED
  BY <1>3, <1>7 DEF N, t, a, r, b, s

(* The value of digits is a recursion. *)
SumAt(c, w, f, i) == IF i = 0 THEN 0 ELSE f[i - 1] + Power[w * (i - 1)] * c[i]
SumUpTo(c, w, f) == f = [i \in 0 .. Len(c) |-> SumAt(c, w, f, i)]

(* The sum of digits is the end of its recursion. *)
LEMMA SumExists ==
  ASSUME NEW c \in Seq(Nat), NEW w \in Nat
  PROVE  \E f \in [0 .. Len(c) -> Nat] : SumUpTo(c, w, f) /\ Sum(c, w) = f[Len(c)]
<1> DEFINE n == Len(c)
           nxt == [x \in (1 .. n) \X Nat |-> x[2] + Power[w * (x[1] - 1)] * c[x[1]]]
<1>1. n \in Nat /\ \A i \in 1 .. n : c[i] \in Nat /\ w * (i - 1) \in Nat
  BY SMT
<1>2. \A i \in 1 .. n : Power[w * (i - 1)] \in Nat
  BY <1>1, PowerStep
<1>3. \A i \in 1 .. n, v \in Nat : v + Power[w * (i - 1)] * c[i] \in Nat
  <2>1. \A a, b, e \in Nat : a + b * e \in Nat
    BY SMT
  <2> HIDE DEF n
  <2> QED
    BY <1>1, <1>2, <2>1, Zenon
<1>4. nxt \in [(1 .. n) \X Nat -> Nat]
  <2> HIDE DEF n
  <2> QED
    BY <1>3
<1>5. PICK f \in [0 .. n -> Nat] : Recursive(f, n, 0, nxt)
  <2> HIDE DEF nxt, n
  <2> QED
    BY <1>1, <1>4, Recursion
<1>6. SumUpTo(c, w, f)
  <2>1. ASSUME NEW i \in 0 .. n PROVE f[i] = SumAt(c, w, f, i)
    <3>1. CASE i = 0
      BY <1>5, <3>1 DEF Recursive, SumAt
    <3>2. CASE i # 0
      <4>1. i \in 1 .. n /\ i - 1 \in 0 .. n /\ f[i - 1] \in Nat
        <5> HIDE DEF n
        <5> QED
          BY <1>1, <1>5, <3>2
      <4>2. <<i, f[i - 1]>> \in (1 .. n) \X Nat
        BY <4>1
      <4>3. f[i] = nxt[<<i, f[i - 1]>>]
        BY <1>5, <4>1 DEF Recursive
      <4> QED
        BY <3>2, <4>2, <4>3 DEF SumAt
    <3> QED
      BY <3>1, <3>2
  <2>2. f = [i \in 0 .. n |-> f[i]]
    BY <1>5
  <2> QED
    BY <2>1, <2>2 DEF SumUpTo
<1> DEFINE g == CHOOSE h : SumUpTo(c, w, h)
<1>7. SumUpTo(c, w, g)
  BY <1>6
<1>8. Sum(c, w) = g[n]
  BY DEF Sum, SumUpTo, SumAt
<1>9. \A i \in 0 .. n : g[i] = SumAt(c, w, g, i)
  <2> HIDE DEF g
  <2> QED
    BY <1>7 DEF SumUpTo
<1>10. \A i \in 0 .. n : g[i] \in Nat
  <2> DEFINE T == {i \in 0 .. n : g[i] \in Nat}
  <2> HIDE DEF g
  <2>1. 0 \in T
    BY <1>1, <1>9 DEF SumAt
  <2>2. ASSUME NEW i \in 1 .. n, i - 1 \in T PROVE i \in T
    <3>1. g[i] = g[i - 1] + Power[w * (i - 1)] * c[i] /\ g[i - 1] \in Nat
      BY <1>9, <2>2 DEF SumAt
    <3> HIDE DEF n
    <3>2. g[i] \in Nat
      BY <1>3, <3>1
    <3> QED
      BY <3>2
  <2> HIDE DEF T, n
  <2>3. \A i \in 0 .. n : i \in T
    BY <1>1, <2>1, <2>2, Counting
  <2> QED
    BY <2>3 DEF T
<1>11. g \in [0 .. n -> Nat]
  <2> HIDE DEF g
  <2>1. g = [i \in 0 .. n |-> g[i]]
    BY <1>7 DEF SumUpTo
  <2> QED
    BY <1>10, <2>1
<1> QED
  BY <1>7, <1>8, <1>11

(* The digits of a number. *)
LEMMA DigitsTyped ==
  ASSUME NEW n \in Nat, NEW w \in Nat, NEW v \in Int
  PROVE  /\ Digits(n, w, v) \in Seq(0 .. Power[w] - 1) /\ Len(Digits(n, w, v)) = n
         /\ \A i \in 1 .. n : Digits(n, w, v)[i] = (v \div Power[w * (i - 1)]) % Power[w]
<1>1. ASSUME NEW i \in 1 .. n
      PROVE  (v \div Power[w * (i - 1)]) % Power[w] \in 0 .. Power[w] - 1
  <2>1. w * (i - 1) \in Nat
    BY SMT
  <2>2. Power[w * (i - 1)] \in Nat \ {0} /\ Power[w] \in Nat \ {0}
    BY <2>1, PowerStep
  <2>3. v \div Power[w * (i - 1)] \in Int
    BY <2>2, Division
  <2> QED
    BY <2>2, <2>3, Division
<1> QED
  BY <1>1 DEF Digits

(* The digits of a number make up the number. *)
LEMMA SumDigits ==
  ASSUME NEW n \in Nat, NEW w \in Nat, NEW v \in Int
  PROVE  Sum(Digits(n, w, v), w) = v % Power[w * n]
<1> DEFINE c == Digits(n, w, v)
<1>1. c \in Seq(Nat) /\ Len(c) = n
  <2>1. c \in Seq(0 .. Power[w] - 1) /\ Len(c) = n
    BY DigitsTyped
  <2> HIDE DEF c
  <2>2. \A i \in 1 .. Len(c) : c[i] \in Nat
    <3>1. ASSUME NEW i \in 1 .. Len(c) PROVE c[i] \in Nat
      <4> DEFINE S == 0 .. Power[w] - 1
      <4>1. c[i] \in S
        <5> HIDE DEF S
        <5>1. c \in Seq(S)
          BY <2>1 DEF S
        <5> QED
          BY <5>1
      <4>2. Power[w] \in Nat
        BY PowerStep
      <4> QED
        BY <4>1, <4>2
    <3> QED
      BY <3>1
  <2>3. c = [i \in 1 .. n |-> c[i]]
    BY <2>1
  <2> QED
    BY <2>1, <2>2, <2>3
<1>2. PICK f \in [0 .. n -> Nat] : SumUpTo(c, w, f) /\ Sum(c, w) = f[n]
  <2> HIDE DEF c
  <2> QED
    BY <1>1, SumExists
<1>3. \A i \in 0 .. n : f[i] = SumAt(c, w, f, i)
  <2> HIDE DEF c
  <2> QED
    BY <1>1, <1>2 DEF SumUpTo
<1> DEFINE T == {i \in 0 .. n : f[i] = v % Power[w * i]}
<1>4. 0 \in T
  <2>1. f[0] = 0
    BY <1>3 DEF SumAt
  <2>2. w * 0 = 0 /\ v % 1 = 0
    BY SMT
  <2> QED
    BY <2>1, <2>2, PowerStep
<1>5. ASSUME NEW i \in 1 .. n, i - 1 \in T PROVE i \in T
  <2> DEFINE P == Power[w * (i - 1)]
             Q == Power[w]
  <2>1. w * (i - 1) \in Nat /\ w * i = w * (i - 1) + w /\ w * i \in Nat
    BY SMT
  <2>2. P \in Nat \ {0} /\ Q \in Nat \ {0} /\ Power[w * i] = P * Q
    BY <2>1, PowerStep, PowerAdd
  <2>3. f[i] = f[i - 1] + P * c[i]
    <3> HIDE DEF P, c
    <3> QED
      BY <1>3 DEF SumAt, P
  <2>4. c[i] = (v \div P) % Q
    BY DigitsTyped
  <2>5. f[i - 1] = v % P
    BY <1>5
  <2> HIDE DEF P, Q, c
  <2>6. v % (P * Q) = (v % P) + P * ((v \div P) % Q)
    BY <2>2, DivisionTwice
  <2> QED
    BY <2>2, <2>3, <2>4, <2>5, <2>6
<1>6. \A i \in 0 .. n : i \in T
  <2> HIDE DEF T
  <2> QED
    BY <1>4, <1>5, Counting
<1>7. f[n] = v % Power[w * n]
  BY <1>6
<1> QED
  BY <1>2, <1>7

(* Digits that are all zero make up zero. *)
LEMMA SumZeros ==
  ASSUME NEW c \in Seq(Nat), NEW w \in Nat, \A i \in 1 .. Len(c) : c[i] = 0
  PROVE  Sum(c, w) = 0
<1> DEFINE n == Len(c)
<1>1. n \in Nat
  OBVIOUS
<1>2. PICK f \in [0 .. n -> Nat] : SumUpTo(c, w, f) /\ Sum(c, w) = f[n]
  BY SumExists
<1>3. \A i \in 0 .. n : f[i] = SumAt(c, w, f, i)
  BY <1>2 DEF SumUpTo
<1> HIDE DEF n
<1> DEFINE T == {i \in 0 .. n : f[i] = 0}
<1>4. 0 \in T
  BY <1>1, <1>3 DEF SumAt
<1>5. ASSUME NEW i \in 1 .. n, i - 1 \in T PROVE i \in T
  <2>1. f[i] = f[i - 1] + Power[w * (i - 1)] * c[i] /\ f[i - 1] = 0 /\ c[i] = 0
    BY <1>3, <1>5 DEF SumAt, n
  <2>2. w * (i - 1) \in Nat
    BY <1>1
  <2>3. Power[w * (i - 1)] \in Nat
    BY <2>2, PowerStep
  <2> QED
    BY <2>1, <2>3
<1>6. \A i \in 0 .. n : i \in T
  <2> HIDE DEF T
  <2> QED
    BY <1>1, <1>4, <1>5, Counting
<1> QED
  BY <1>1, <1>2, <1>6

-----------------------------------------------------------------------------
(* Bytes. *)

(* The constants are numbers, and there is room for a bit. *)
LEMMA Constants ==
  /\ Byte \in Nat \ {0} /\ MaxSize \in Nat /\ Reserve \in 0 .. MaxSize - 1
  /\ Capacity \in Nat /\ Capacity >= 1 /\ LongestCode \in Nat /\ MaxText \in Nat \ {0}
<1>1. \A a \in Nat \ {0}, b \in Nat : a * (b + 2) \in Nat /\ a * (b + 2) >= 1
  BY SMT
<1> QED
  BY <1>1, CodeAssumption, BufferAssumption DEF Capacity

(* A place is in a byte. *)
LEMMA Bytes ==
  ASSUME NEW p \in Nat
  PROVE  /\ p % Byte \in 0 .. Byte - 1 /\ ByteOf(p) \in Nat
         /\ p = Byte * ByteOf(p) + (p % Byte)
<1>1. p % Byte \in 0 .. Byte - 1 /\ ByteOf(p) \in Int /\ p = Byte * ByteOf(p) + (p % Byte)
  BY Constants, Division DEF ByteOf
<1>2. ByteOf(p) <= -1 => Byte * ByteOf(p) <= -Byte
  BY <1>1, Constants, SMT
<1> QED
  BY <1>1, <1>2, Constants

(* A place that does not begin a byte is in the byte of the place before.  *)
LEMMA NextByte ==
  ASSUME NEW p \in Nat, (p + 1) % Byte # 0
  PROVE  ByteOf(p + 1) = ByteOf(p)
<1> DEFINE a == ByteOf(p)
           r == p % Byte
<1>1. a \in Nat /\ r \in 0 .. Byte - 1 /\ p = Byte * a + r /\ Byte \in Nat \ {0}
  BY Bytes, Constants
<1> HIDE DEF a, r
<1>2. CASE r + 1 = Byte
  <2>1. p + 1 = Byte * (a + 1) + 0
    BY <1>1, <1>2, SMT
  <2>2. (p + 1) % Byte = 0
    <3>1. a + 1 \in Int /\ 0 \in 0 .. Byte - 1
      BY <1>1
    <3> QED
      BY <1>1, <2>1, <3>1, DivisionIs
  <2> QED
    BY <2>2
<1>3. CASE r + 1 # Byte
  <2>1. r + 1 \in 0 .. Byte - 1 /\ p + 1 = Byte * a + (r + 1)
    BY <1>1, <1>3, SMT
  <2>2. (p + 1) \div Byte = a
    BY <1>1, <2>1, DivisionIs
  <2> QED
    BY <2>2 DEF ByteOf, a
<1> QED
  BY <1>2, <1>3

(* Bytes come one after the other. *)
LEMMA LaterByte ==
  ASSUME NEW p \in Nat, NEW q \in Nat, p <= q
  PROVE  ByteOf(p) <= ByteOf(q) /\ (q % Byte = 0 /\ p < q => ByteOf(p) < ByteOf(q))
<1> DEFINE a == ByteOf(p)
           b == ByteOf(q)
           r == p % Byte
           s == q % Byte
<1>1. /\ a \in Nat /\ r \in 0 .. Byte - 1 /\ p = Byte * a + r /\ Byte \in Nat \ {0}
      /\ b \in Nat /\ s \in 0 .. Byte - 1 /\ q = Byte * b + s
  BY Bytes, Constants
<1> HIDE DEF a, b, r, s
<1>2. Byte * b - Byte * a = Byte * (b - a)
  BY <1>1
<1>3. b - a <= -1 => Byte * (b - a) <= -Byte
  BY <1>1
<1>4. b - a = 0 => Byte * (b - a) = 0
  BY <1>1
<1>5. a <= b
  BY <1>1, <1>2, <1>3
<1>6. s = 0 /\ p < q => a # b
  BY <1>1
<1> QED
  BY <1>1, <1>5, <1>6 DEF a, b, s

-----------------------------------------------------------------------------
(* Data, and what writing bits does to it. *)

Data == [0 .. Capacity - 1 -> Bits]

(* The rest of a byte that was begun is zero. *)
Clean(d, p) ==
  p % Byte # 0 => \A k \in 0 .. Capacity - 1 : k >= p /\ ByteOf(k) = ByteOf(p) => d[k] = 0

(* What is before a place is the same. *)
SameBefore(d, e, p) == \A k \in 0 .. p - 1 : e[k] = d[k]

(* Bits are at a place. *)
Holds(d, p, c) == \A i \in 1 .. Len(c) : d[p + (i - 1)] = c[i]

(* e is d after bits c were put at p. *)
Wrote(d, p, c, e) ==
  e \in Data /\ SameBefore(d, e, p) /\ Holds(e, p, c) /\ Clean(e, p + Len(c))

(* A bit is put where it belongs, and the rest of its byte is zero. *)
LEMMA PutBitWrote ==
  ASSUME NEW d \in Data, NEW p \in 0 .. Capacity - 1, NEW b \in Bits, Clean(d, p)
  PROVE  /\ PutBit(d, p, b) \in Data /\ SameBefore(d, PutBit(d, p, b), p)
         /\ PutBit(d, p, b)[p] = b /\ Clean(PutBit(d, p, b), p + 1)
<1> DEFINE e == PutBit(d, p, b)
<1>1. /\ p \in Nat /\ Capacity \in Nat /\ DOMAIN d = 0 .. Capacity - 1
      /\ \A k \in 0 .. Capacity - 1 : d[k] \in Bits /\ k \in Nat
  BY Constants DEF Data
<1>2. e \in Data
  BY <1>1 DEF PutBit, Data, Bits
<1>3. \A k \in 0 .. Capacity - 1 :
        e[k] = IF k = p THEN IF p % Byte = 0 \/ b = 1 THEN b ELSE d[k]
               ELSE IF p % Byte = 0 /\ ByteOf(k) = ByteOf(p) THEN 0 ELSE d[k]
  BY <1>1 DEF PutBit
<1> HIDE DEF e
<1>4. e[p] = b
  <2>1. p % Byte # 0 => d[p] = 0
    BY <1>1 DEF Clean
  <2> QED
    BY <1>3, <2>1 DEF Bits
<1>5. SameBefore(d, e, p)
  <2>1. ASSUME NEW k \in 0 .. p - 1 PROVE e[k] = d[k]
    <3>1. k \in 0 .. Capacity - 1 /\ k # p /\ k \in Nat /\ k < p
      BY <1>1
    <3>2. p % Byte = 0 => ByteOf(k) # ByteOf(p)
      <4>1. ByteOf(k) \in Nat /\ ByteOf(p) \in Nat
        BY <1>1, <3>1, Bytes
      <4> QED
        BY <1>1, <3>1, <4>1, LaterByte
    <3> QED
      BY <1>3, <3>1, <3>2
  <2> QED
    BY <2>1 DEF SameBefore
<1>6. Clean(e, p + 1)
  <2>1. ASSUME (p + 1) % Byte # 0, NEW k \in 0 .. Capacity - 1,
               k >= p + 1, ByteOf(k) = ByteOf(p + 1)
        PROVE  e[k] = 0
    <3>1. ByteOf(k) = ByteOf(p) /\ k # p /\ k >= p
      BY <1>1, <2>1, NextByte
    <3>2. p % Byte # 0 => d[k] = 0
      BY <3>1 DEF Clean
    <3> QED
      BY <1>3, <3>1, <3>2
  <2> QED
    BY <2>1 DEF Clean
<1> QED
  BY <1>2, <1>4, <1>5, <1>6 DEF e

(* PutBit keeps data what it is, wherever it puts the bit. *)
LEMMA PutBitTyped ==
  \A d \in Data, p \in Int, b \in Bits : PutBit(d, p, b) \in Data
<1>1. ASSUME NEW d \in Data, NEW p \in Int, NEW b \in Bits
      PROVE  PutBit(d, p, b) \in Data
  <2>1. DOMAIN d = 0 .. Capacity - 1 /\ \A k \in 0 .. Capacity - 1 : d[k] \in Bits
    BY DEF Data
  <2> QED
    BY <2>1 DEF PutBit, Data, Bits
<1> QED
  BY <1>1

PutBitsAt(d, p, c, f, i) ==
  IF i = 0 THEN d ELSE PutBit(f[i - 1], p + (i - 1), c[i])
PutBitsUpTo(d, p, c, f) == f = [i \in 0 .. Len(c) |-> PutBitsAt(d, p, c, f, i)]

(* Bits are put one after the other. *)
LEMMA PutBitsExists ==
  ASSUME NEW d \in Data, NEW p \in Nat, NEW c \in Seq(Bits)
  PROVE  \E f : PutBitsUpTo(d, p, c, f) /\ PutBits(d, p, c) = f[Len(c)]
<1> DEFINE n == Len(c)
           nxt == [x \in (1 .. n) \X Data |-> PutBit(x[2], p + (x[1] - 1), c[x[1]])]
<1>1. n \in Nat /\ \A i \in 1 .. n : c[i] \in Bits /\ p + (i - 1) \in Int
  OBVIOUS
<1>2. nxt \in [(1 .. n) \X Data -> Data]
  <2> HIDE DEF n
  <2> QED
    BY <1>1, PutBitTyped
<1>3. PICK f \in [0 .. n -> Data] : Recursive(f, n, d, nxt)
  <2> HIDE DEF nxt, n
  <2> QED
    BY <1>1, <1>2, Recursion
<1>4. PutBitsUpTo(d, p, c, f)
  <2> HIDE DEF n
  <2>1. ASSUME NEW i \in 0 .. n PROVE f[i] = PutBitsAt(d, p, c, f, i)
    <3>1. CASE i = 0
      BY <1>3, <3>1 DEF Recursive, PutBitsAt
    <3>2. CASE i # 0
      <4>1. i \in 1 .. n /\ i - 1 \in 0 .. n /\ f[i - 1] \in Data
        BY <1>1, <1>3, <3>2
      <4>2. <<i, f[i - 1]>> \in (1 .. n) \X Data
        BY <4>1
      <4>3. f[i] = nxt[<<i, f[i - 1]>>]
        BY <1>3, <4>1 DEF Recursive
      <4> QED
        BY <3>2, <4>2, <4>3 DEF PutBitsAt
    <3> QED
      BY <3>1, <3>2
  <2>2. f = [i \in 0 .. n |-> f[i]]
    BY <1>3
  <2> QED
    BY <2>1, <2>2 DEF PutBitsUpTo, n
<1> DEFINE g == CHOOSE h : PutBitsUpTo(d, p, c, h)
<1>5. PutBitsUpTo(d, p, c, g)
  BY <1>4
<1>6. PutBits(d, p, c) = g[n]
  BY DEF PutBits, PutBitsUpTo, PutBitsAt
<1> QED
  BY <1>5, <1>6

(* Huff_putBit, bit by bit, puts a code where it belongs. *)
LEMMA PutBitsWrote ==
  ASSUME NEW d \in Data, NEW p \in Nat, NEW c \in Seq(Bits), Clean(d, p),
         p + Len(c) <= Capacity
  PROVE  Wrote(d, p, c, PutBits(d, p, c))
<1> DEFINE n == Len(c)
<1>1. n \in Nat /\ (\A i \in 1 .. n : c[i] \in Bits) /\ p + n <= Capacity /\ Capacity \in Nat
  BY Constants
<1>2. PICK f : PutBitsUpTo(d, p, c, f) /\ PutBits(d, p, c) = f[n]
  BY PutBitsExists
<1>3. \A i \in 0 .. n : f[i] = PutBitsAt(d, p, c, f, i)
  BY <1>2 DEF PutBitsUpTo
<1> HIDE DEF n
<1> DEFINE Ok(i)  == /\ f[i] \in Data /\ SameBefore(d, f[i], p) /\ Clean(f[i], p + i)
                     /\ \A j \in 1 .. i : f[i][p + (j - 1)] = c[j]
           T == {i \in 0 .. n : Ok(i)}
<1>4. 0 \in T
  BY <1>1, <1>3 DEF PutBitsAt, SameBefore
<1>5. ASSUME NEW i \in 1 .. n, i - 1 \in T PROVE i \in T
  <2> DEFINE q == p + (i - 1)
             e == f[i - 1]
  <2>1. f[i] = PutBit(e, q, c[i]) /\ q \in 0 .. Capacity - 1 /\ c[i] \in Bits /\ q \in Nat
    BY <1>1, <1>3 DEF PutBitsAt
  <2>2. e \in Data /\ SameBefore(d, e, p) /\ Clean(e, q)
    BY <1>5
  <2>3. \A j \in 1 .. i - 1 : e[p + (j - 1)] = c[j]
    BY <1>5
  <2> HIDE DEF e
  <2>4. f[i] \in Data /\ SameBefore(e, f[i], q) /\ f[i][q] = c[i] /\ Clean(f[i], q + 1)
    <3> HIDE DEF q
    <3> QED
      BY <2>1, <2>2, PutBitWrote
  <2>5. SameBefore(d, f[i], p)
    <3>1. \A k \in 0 .. p - 1 : k \in 0 .. q - 1
      BY <1>1
    <3> QED
      BY <2>2, <2>4, <3>1 DEF SameBefore
  <2>6. q + 1 = p + i
    BY <1>1
  <2>7. ASSUME NEW j \in 1 .. i PROVE f[i][p + (j - 1)] = c[j]
    <3>1. CASE j = i
      BY <2>4, <3>1
    <3>2. CASE j # i
      <4>1. j \in 1 .. i - 1 /\ p + (j - 1) \in 0 .. q - 1
        BY <1>1, <3>2
      <4>2. f[i][p + (j - 1)] = e[p + (j - 1)]
        BY <2>4, <4>1 DEF SameBefore
      <4> QED
        BY <2>3, <4>1, <4>2
    <3> QED
      BY <3>1, <3>2
  <2>8. i \in 0 .. n /\ Clean(f[i], p + i) /\ f[i] \in Data
    BY <2>4, <2>6
  <2>9. Ok(i)
    BY <2>5, <2>7, <2>8
  <2> QED
    BY <2>8, <2>9
<1>6. \A i \in 0 .. n : i \in T
  <2> HIDE DEF T
  <2> QED
    BY <1>1, <1>4, <1>5, Counting
<1>7. Ok(n)
  BY <1>1, <1>6
<1> QED
  BY <1>2, <1>7 DEF Wrote, Holds, n

(* AppendRawBits does the same by whole bytes. *)
LEMMA AppendRawWrote ==
  ASSUME NEW d \in Data, NEW p \in Nat, NEW c \in Seq(Bits), p + Len(c) <= Capacity
  PROVE  Wrote(d, p, c, AppendRawBits(d, p, c))
<1> DEFINE n == Len(c)
           stop == p + n
           e == AppendRawBits(d, p, c)
<1>1. /\ n \in Nat /\ (\A i \in 1 .. n : c[i] \in Bits) /\ stop <= Capacity /\ Capacity \in Nat
      /\ stop \in Nat
  BY Constants
<1>2. DOMAIN d = 0 .. Capacity - 1 /\ \A k \in 0 .. Capacity - 1 : d[k] \in Bits
  BY DEF Data
<1>3. /\ DOMAIN e = 0 .. Capacity - 1
      /\ e = [k \in 0 .. Capacity - 1 |-> e[k]]
      /\ \A k \in 0 .. Capacity - 1 :
           e[k] = IF k < p THEN d[k] ELSE IF k < stop THEN c[k - p + 1]
                  ELSE IF ByteOf(k) = ByteOf(stop - 1) THEN 0 ELSE d[k]
  BY <1>2 DEF AppendRawBits
<1> HIDE DEF e, n
<1>4. e \in Data
  <2>1. ASSUME NEW k \in 0 .. Capacity - 1 PROVE e[k] \in Bits
    <3>1. k >= p /\ k < stop => k - p + 1 \in 1 .. n
      BY <1>1
    <3> QED
      BY <1>1, <1>2, <1>3, <3>1 DEF Bits
  <2> QED
    BY <1>3, <2>1 DEF Data
<1>5. SameBefore(d, e, p)
  BY <1>1, <1>3 DEF SameBefore
<1>6. Holds(e, p, c)
  <2>1. ASSUME NEW i \in 1 .. n PROVE e[p + (i - 1)] = c[i]
    <3>1. /\ p + (i - 1) \in 0 .. Capacity - 1 /\ ~ (p + (i - 1) < p) /\ p + (i - 1) < stop
          /\ (p + (i - 1)) - p + 1 = i
      BY <1>1
    <3> QED
      BY <1>3, <3>1
  <2> QED
    BY <2>1 DEF Holds, n
<1>7. Clean(e, stop)
  <2>1. ASSUME stop % Byte # 0, NEW k \in 0 .. Capacity - 1, k >= stop,
               ByteOf(k) = ByteOf(stop)
        PROVE  e[k] = 0
    <3>1. stop # 0
      BY <2>1, Constants, Division, SMT
    <3>2. stop - 1 \in Nat /\ (stop - 1) + 1 = stop
      BY <1>1, <3>1
    <3>3. ByteOf(stop) = ByteOf(stop - 1)
      BY <2>1, <3>2, NextByte
    <3>4. ~ (k < p) /\ ~ (k < stop)
      BY <1>1, <2>1
    <3> QED
      BY <1>3, <2>1, <3>3, <3>4
  <2> QED
    BY <2>1 DEF Clean
<1> QED
  BY <1>4, <1>5, <1>6, <1>7 DEF Wrote, e, n

(* So either form puts the bits where they belong. *)
LEMMA PutWrote ==
  ASSUME NEW d \in Data, NEW p \in Nat, NEW c \in Seq(Bits), NEW fast, Clean(d, p),
         p + Len(c) <= Capacity
  PROVE  Wrote(d, p, c, Put(d, p, c, fast))
BY PutBitsWrote, AppendRawWrote DEF Put

(* PutBits keeps data what it is. *)
LEMMA PutBitsTyped ==
  ASSUME NEW d \in Data, NEW p \in Nat, NEW c \in Seq(Bits)
  PROVE  PutBits(d, p, c) \in Data
<1> DEFINE n == Len(c)
<1>1. n \in Nat /\ \A i \in 1 .. n : c[i] \in Bits /\ p + (i - 1) \in Int
  OBVIOUS
<1>2. PICK f : PutBitsUpTo(d, p, c, f) /\ PutBits(d, p, c) = f[n]
  BY PutBitsExists
<1>3. \A i \in 0 .. n : f[i] = PutBitsAt(d, p, c, f, i)
  BY <1>2 DEF PutBitsUpTo
<1> HIDE DEF n
<1> DEFINE T == {i \in 0 .. n : f[i] \in Data}
<1>4. 0 \in T
  BY <1>1, <1>3 DEF PutBitsAt
<1>5. ASSUME NEW i \in 1 .. n, i - 1 \in T PROVE i \in T
  <2>1. f[i] = PutBit(f[i - 1], p + (i - 1), c[i]) /\ f[i - 1] \in Data
    BY <1>3, <1>5 DEF PutBitsAt
  <2>2. f[i] \in Data
    BY <1>1, <2>1, PutBitTyped
  <2> QED
    BY <2>2
<1>6. \A i \in 0 .. n : i \in T
  <2> HIDE DEF T
  <2> QED
    BY <1>1, <1>4, <1>5, Counting
<1> QED
  BY <1>1, <1>2, <1>6

(* So does either form. *)
LEMMA PutTyped ==
  ASSUME NEW d \in Data, NEW p \in Nat, NEW c \in Seq(Bits), NEW fast
  PROVE  Put(d, p, c, fast) \in Data
<1> DEFINE e == AppendRawBits(d, p, c)
<1>1. DOMAIN d = 0 .. Capacity - 1 /\ \A k \in 0 .. Capacity - 1 : d[k] \in Bits
  BY DEF Data
<1> DEFINE n == Len(c)
<1>0. n \in Nat /\ (\A i \in 1 .. n : c[i] \in Bits) /\ Capacity \in Nat
  BY Constants
<1>2. /\ e = [k \in 0 .. Capacity - 1 |-> e[k]]
      /\ \A k \in 0 .. Capacity - 1 :
           e[k] = IF k < p THEN d[k] ELSE IF k < p + n THEN c[k - p + 1]
                  ELSE IF ByteOf(k) = ByteOf((p + n) - 1) THEN 0 ELSE d[k]
  BY <1>1 DEF AppendRawBits
<1> HIDE DEF e, n
<1>3. ASSUME NEW k \in 0 .. Capacity - 1 PROVE e[k] \in Bits
  <2>1. k >= p /\ k < p + n => k - p + 1 \in 1 .. n
    BY <1>0
  <2> QED
    BY <1>0, <1>1, <1>2, <2>1 DEF Bits
<1>4. e \in Data
  BY <1>2, <1>3 DEF Data
<1> QED
  BY <1>4, PutBitsTyped DEF Put, e

-----------------------------------------------------------------------------
(* Symbols in a row. *)

(* Codes are sequences of bits, none longer than LongestCode. *)
LEMMA CodesTyped ==
  ASSUME NEW s \in Symbols
  PROVE  /\ Huffman[s] \in Seq(Bits) /\ Len(Huffman[s]) \in Nat
         /\ Len(Huffman[s]) <= LongestCode
BY CodeAssumption

(* Where symbols begin when the first is at p. *)
Marks(syms, p, f) ==
  /\ f \in [0 .. Len(syms) -> Nat] /\ f[0] = p
  /\ \A i \in 1 .. Len(syms) : f[i] = f[i - 1] + Len(Huffman[syms[i]])

(* Symbols begin somewhere. *)
LEMMA MarksExist ==
  ASSUME NEW syms \in Seq(Symbols), NEW p \in Nat
  PROVE  \E f : Marks(syms, p, f)
<1> DEFINE n == Len(syms)
           nxt == [x \in (1 .. n) \X Nat |-> x[2] + Len(Huffman[syms[x[1]]])]
<1>1. n \in Nat /\ \A i \in 1 .. n : Len(Huffman[syms[i]]) \in Nat
  BY CodesTyped
<1>2. nxt \in [(1 .. n) \X Nat -> Nat]
  <2> HIDE DEF n
  <2> QED
    BY <1>1
<1>3. PICK f \in [0 .. n -> Nat] : Recursive(f, n, p, nxt)
  <2> HIDE DEF nxt, n
  <2> QED
    BY <1>1, <1>2, Recursion
<1>4. ASSUME NEW i \in 1 .. n PROVE f[i] = f[i - 1] + Len(Huffman[syms[i]])
  <2> HIDE DEF n
  <2>1. i - 1 \in 0 .. n /\ f[i - 1] \in Nat
    BY <1>1, <1>3
  <2>2. <<i, f[i - 1]>> \in (1 .. n) \X Nat
    BY <2>1
  <2>3. f[i] = nxt[<<i, f[i - 1]>>]
    BY <1>3 DEF Recursive
  <2> QED
    BY <2>2, <2>3
<1>5. Marks(syms, p, f)
  BY <1>3, <1>4 DEF Marks, Recursive
<1> QED
  BY <1>5

(* They begin one after the other, no further than the longest codes reach. *)
LEMMA MarksBound ==
  ASSUME NEW syms \in Seq(Symbols), NEW p \in Nat, NEW f, Marks(syms, p, f)
  PROVE  /\ Len(syms) \in Nat
         /\ \A i \in 0 .. Len(syms) : f[i] \in Nat /\ p <= f[i] /\ f[i] <= f[Len(syms)]
         /\ f[Len(syms)] <= p + LongestCode * Len(syms)
<1> DEFINE n == Len(syms)
<1>1. n \in Nat /\ f \in [0 .. n -> Nat] /\ f[0] = p /\ LongestCode \in Nat
  BY Constants DEF Marks
<1>2. \A i \in 1 .. n : /\ f[i] = f[i - 1] + Len(Huffman[syms[i]])
                        /\ Len(Huffman[syms[i]]) \in Nat /\ Len(Huffman[syms[i]]) <= LongestCode
  BY CodesTyped DEF Marks
<1> HIDE DEF n
<1>3. \A i \in 1 .. n : f[i - 1] \in Nat /\ f[i] \in Nat /\ f[i - 1] <= f[i]
                        /\ f[i] <= f[i - 1] + LongestCode
  <2>1. ASSUME NEW i \in 1 .. n
        PROVE  /\ f[i - 1] \in Nat /\ f[i] \in Nat /\ f[i - 1] <= f[i]
               /\ f[i] <= f[i - 1] + LongestCode
    <3>1. i \in 0 .. n /\ i - 1 \in 0 .. n
      BY <1>1
    <3>2. f[i] \in Nat /\ f[i - 1] \in Nat
      BY <1>1, <3>1
    <3> DEFINE c == Len(Huffman[syms[i]])
    <3>3. f[i] = f[i - 1] + c /\ c \in Nat /\ c <= LongestCode
      BY <1>2
    <3> HIDE DEF c
    <3> QED
      BY <1>1, <3>2, <3>3
  <2> QED
    BY <2>1
<1> DEFINE T == {i \in 0 .. n : p <= f[i] /\ f[i] <= p + LongestCode * i}
<1>4. 0 \in T
  BY <1>1, SMT
<1>5. ASSUME NEW i \in 1 .. n, i - 1 \in T PROVE i \in T
  <2>1. LongestCode * i = LongestCode * (i - 1) + LongestCode /\ LongestCode * (i - 1) \in Int
    BY <1>1, SMT
  <2>2. p <= f[i - 1] /\ f[i - 1] <= p + LongestCode * (i - 1)
    BY <1>5
  <2>3. p <= f[i] /\ f[i] <= p + LongestCode * i
    BY <1>1, <1>3, <2>1, <2>2
  <2> QED
    BY <2>3
<1>6. \A i \in 0 .. n : i \in T
  <2> HIDE DEF T
  <2> QED
    BY <1>1, <1>4, <1>5, Counting
<1> DEFINE U == {j \in 0 .. n : f[n - j] <= f[n]}
<1>7. 0 \in U
  BY <1>1
<1>8. ASSUME NEW j \in 1 .. n, j - 1 \in U PROVE j \in U
  <2>1. n - (j - 1) \in 1 .. n /\ (n - (j - 1)) - 1 = n - j /\ n - j \in 0 .. n
    BY <1>1
  <2>2. f[n - j] <= f[n - (j - 1)] /\ f[n - (j - 1)] \in Nat /\ f[n - j] \in Nat
    BY <1>3, <2>1
  <2>3. f[n - (j - 1)] <= f[n] /\ f[n] \in Nat
    BY <1>1, <1>8
  <2> QED
    BY <2>2, <2>3
<1>9. \A j \in 0 .. n : j \in U
  <2> HIDE DEF U
  <2> QED
    BY <1>1, <1>7, <1>8, Counting
<1>10. ASSUME NEW i \in 0 .. n PROVE f[i] <= f[n]
  <2>1. n - i \in 0 .. n /\ n - (n - i) = i
    BY <1>1
  <2>2. n - i \in U
    BY <1>9, <2>1
  <2> QED
    BY <2>1, <2>2
<1> QED
  BY <1>1, <1>6, <1>10 DEF n

(* e is d after the first m of some symbols were put where they begin.     *)
SymbolsWrote(d, p, syms, f, m, e) ==
  /\ e \in Data /\ SameBefore(d, e, p) /\ Clean(e, f[m])
  /\ \A i \in 1 .. m : Holds(e, f[i - 1], Huffman[syms[i]])

(* The places of a code end where the code ends. *)
LEMMA PlacesBelow ==
  ASSUME NEW a \in Nat, NEW l \in Nat, NEW b \in Nat, a + l <= b
  PROVE  \A k \in 1 .. l : a + (k - 1) \in 0 .. b - 1
  OBVIOUS

(* One more symbol leaves those before it alone. *)
LEMMA SymbolMore ==
  ASSUME NEW d, NEW syms \in Seq(Symbols), NEW p \in Nat, NEW f, Marks(syms, p, f),
         NEW i \in 1 .. Len(syms), NEW e, NEW g,
         SymbolsWrote(d, p, syms, f, i - 1, e), Wrote(e, f[i - 1], Huffman[syms[i]], g)
  PROVE  SymbolsWrote(d, p, syms, f, i, g)
<1> DEFINE n == Len(syms)
<1>1. n \in Nat /\ f \in [0 .. n -> Nat] /\ i - 1 \in 0 .. n
      /\ f[i] = f[i - 1] + Len(Huffman[syms[i]]) /\ p <= f[i - 1] /\ f[i - 1] \in Nat
  <2>1. n \in Nat /\ f \in [0 .. n -> Nat] /\ f[i] = f[i - 1] + Len(Huffman[syms[i]])
    BY DEF Marks
  <2>2. i - 1 \in 0 .. n
    BY <2>1
  <2> QED
    BY <2>1, <2>2, MarksBound
<1>2. g \in Data /\ Clean(g, f[i]) /\ SameBefore(e, g, f[i - 1])
      /\ Holds(g, f[i - 1], Huffman[syms[i]])
  BY <1>1 DEF Wrote
<1>3. SameBefore(d, g, p)
  <2>1. \A k \in 0 .. p - 1 : k \in 0 .. f[i - 1] - 1
    BY <1>1
  <2> QED
    BY <1>2, <2>1 DEF SymbolsWrote, SameBefore
<1>4. ASSUME NEW j \in 1 .. i PROVE Holds(g, f[j - 1], Huffman[syms[j]])
  <2>1. CASE j = i
    BY <1>2, <2>1
  <2>2. CASE j # i
    <3>1. j \in 1 .. i - 1 /\ j \in 1 .. n /\ j - 1 \in 0 .. n /\ j \in 0 .. n
      BY <1>1, <2>2
    <3>2. Holds(e, f[j - 1], Huffman[syms[j]])
      BY <3>1 DEF SymbolsWrote
    <3>3. f[j] = f[j - 1] + Len(Huffman[syms[j]]) /\ f[j - 1] \in Nat
      BY <1>1, <3>1 DEF Marks
    <3>4. f[j] <= f[i - 1]
      <4> DEFINE T == {k \in 0 .. i - 1 : k >= j => f[j] <= f[k]}
      <4>1. 0 \in T
        BY <3>1
      <4>2. ASSUME NEW k \in 1 .. i - 1, k - 1 \in T PROVE k \in T
        <5>1. k \in 1 .. n /\ k - 1 \in 0 .. n /\ syms[k] \in Symbols
          BY <1>1
        <5>2. f[k] = f[k - 1] + Len(Huffman[syms[k]]) /\ f[k - 1] \in Nat
              /\ Len(Huffman[syms[k]]) \in Nat /\ f[j] \in Nat
          BY <1>1, <3>1, <5>1, CodesTyped DEF Marks
        <5> QED
          BY <4>2, <5>2
      <4>3. \A k \in 0 .. i - 1 : k \in T
        <5>1. i - 1 \in Nat
          BY <1>1
        <5> HIDE DEF T
        <5> QED
          BY <4>1, <4>2, <5>1, Counting
      <4>4. i - 1 \in T /\ i - 1 >= j
        BY <4>3, <3>1, <1>1
      <4> QED
        BY <4>4
    <3>5. \A k \in 1 .. Len(Huffman[syms[j]]) : f[j - 1] + (k - 1) \in 0 .. f[i - 1] - 1
      <4>1. Len(Huffman[syms[j]]) \in Nat
        BY <3>1, CodesTyped
      <4>2. f[j - 1] \in Nat /\ f[i - 1] \in Nat
        BY <1>1, <3>3
      <4>3. f[j - 1] + Len(Huffman[syms[j]]) <= f[i - 1]
        BY <3>3, <3>4
      <4> QED
        BY <4>1, <4>2, <4>3, PlacesBelow, Zenon
    <3> QED
      BY <1>2, <3>2, <3>5 DEF Holds, SameBefore
  <2> QED
    BY <2>1, <2>2
<1> QED
  BY <1>2, <1>3, <1>4 DEF SymbolsWrote

PutSymbolsAt(d, p, syms, fast, f, i) ==
  IF i = 0 THEN [data |-> d, bit |-> p]
  ELSE [data |-> Put(f[i - 1].data, f[i - 1].bit, Huffman[syms[i]], fast),
        bit  |-> f[i - 1].bit + Len(Huffman[syms[i]])]
PutSymbolsUpTo(d, p, syms, fast, f) ==
  f = [i \in 0 .. Len(syms) |-> PutSymbolsAt(d, p, syms, fast, f, i)]

(* Symbols are put one after the other. *)
LEMMA PutSymbolsExists ==
  ASSUME NEW d \in Data, NEW p \in Nat, NEW syms \in Seq(Symbols), NEW fast
  PROVE  \E f : /\ PutSymbolsUpTo(d, p, syms, fast, f)
                /\ PutSymbols(d, p, syms, fast) = f[Len(syms)]
<1> DEFINE n == Len(syms)
           S == [data : Data, bit : Nat]
           nxt == [x \in (1 .. n) \X S |->
                     [data |-> Put(x[2].data, x[2].bit, Huffman[syms[x[1]]], fast),
                      bit  |-> x[2].bit + Len(Huffman[syms[x[1]]])]]
<1>1. n \in Nat /\ \A i \in 1 .. n : Huffman[syms[i]] \in Seq(Bits) /\ Len(Huffman[syms[i]]) \in Nat
  BY CodesTyped
<1>2. nxt \in [(1 .. n) \X S -> S]
  <2> HIDE DEF n
  <2>1. ASSUME NEW i \in 1 .. n, NEW x \in S
        PROVE  /\ Put(x.data, x.bit, Huffman[syms[i]], fast) \in Data
               /\ x.bit + Len(Huffman[syms[i]]) \in Nat
    BY <1>1, PutTyped
  <2> QED
    BY <2>1
<1>3. PICK f \in [0 .. n -> S] : Recursive(f, n, [data |-> d, bit |-> p], nxt)
  <2>1. [data |-> d, bit |-> p] \in S
    OBVIOUS
  <2> HIDE DEF nxt, n, S
  <2> QED
    BY <1>1, <1>2, <2>1, Recursion
<1>4. PutSymbolsUpTo(d, p, syms, fast, f)
  <2> HIDE DEF n, S
  <2>1. ASSUME NEW i \in 0 .. n PROVE f[i] = PutSymbolsAt(d, p, syms, fast, f, i)
    <3>1. CASE i = 0
      BY <1>3, <3>1 DEF Recursive, PutSymbolsAt
    <3>2. CASE i # 0
      <4>1. i \in 1 .. n /\ i - 1 \in 0 .. n /\ f[i - 1] \in S
        BY <1>1, <1>3, <3>2
      <4>2. <<i, f[i - 1]>> \in (1 .. n) \X S
        BY <4>1
      <4>3. f[i] = nxt[<<i, f[i - 1]>>]
        BY <1>3, <4>1 DEF Recursive
      <4> QED
        BY <3>2, <4>2, <4>3 DEF PutSymbolsAt
    <3> QED
      BY <3>1, <3>2
  <2>2. f = [i \in 0 .. n |-> f[i]]
    BY <1>3
  <2> QED
    BY <2>1, <2>2 DEF PutSymbolsUpTo, n
<1> DEFINE g == CHOOSE h : PutSymbolsUpTo(d, p, syms, fast, h)
<1>5. PutSymbolsUpTo(d, p, syms, fast, g)
  BY <1>4
<1>6. PutSymbols(d, p, syms, fast) = g[n]
  BY DEF PutSymbols, PutSymbolsUpTo, PutSymbolsAt
<1> QED
  BY <1>5, <1>6

(* Symbols are put where they begin. *)
LEMMA PutSymbolsWrote ==
  ASSUME NEW d \in Data, NEW p \in Nat, NEW syms \in Seq(Symbols), NEW fast,
         Clean(d, p), NEW f, Marks(syms, p, f), f[Len(syms)] <= Capacity
  PROVE  /\ PutSymbols(d, p, syms, fast).bit = f[Len(syms)]
         /\ SymbolsWrote(d, p, syms, f, Len(syms), PutSymbols(d, p, syms, fast).data)
<1> DEFINE n == Len(syms)
<1>1. n \in Nat /\ f \in [0 .. n -> Nat] /\ f[0] = p
  BY DEF Marks
<1>2. PICK g : PutSymbolsUpTo(d, p, syms, fast, g) /\ PutSymbols(d, p, syms, fast) = g[n]
  BY PutSymbolsExists
<1>3. \A i \in 0 .. n : g[i] = PutSymbolsAt(d, p, syms, fast, g, i)
  BY <1>2 DEF PutSymbolsUpTo
<1> DEFINE Ok(i) == g[i].bit = f[i] /\ SymbolsWrote(d, p, syms, f, i, g[i].data)
           T == {i \in 0 .. n : Ok(i)}
<1>4. 0 \in T
  <2>1. g[0] = [data |-> d, bit |-> p]
    BY <1>1, <1>3 DEF PutSymbolsAt
  <2>2. g[0].bit = f[0] /\ g[0].data = d
    BY <1>1, <2>1
  <2>3. SymbolsWrote(d, p, syms, f, 0, d)
    BY <1>1 DEF SymbolsWrote, SameBefore
  <2> QED
    BY <1>1, <2>2, <2>3
<1>5. ASSUME NEW i \in 1 .. n, i - 1 \in T PROVE i \in T
  <2> DEFINE e == g[i - 1].data
             c == Huffman[syms[i]]
  <2>1. g[i - 1].bit = f[i - 1] /\ SymbolsWrote(d, p, syms, f, i - 1, e)
    BY <1>5
  <2>2. g[i] = [data |-> Put(e, g[i - 1].bit, c, fast), bit |-> g[i - 1].bit + Len(c)]
    <3>1. i \in 0 .. n /\ i # 0
      BY <1>1
    <3>2. g[i] = PutSymbolsAt(d, p, syms, fast, g, i)
      BY <1>3, <3>1
    <3> QED
      BY <3>1, <3>2 DEF PutSymbolsAt
  <2>3. g[i].bit = f[i] /\ g[i].data = Put(e, f[i - 1], c, fast)
    BY <2>1, <2>2 DEF Marks
  <2>4. f[i - 1] \in Nat /\ c \in Seq(Bits) /\ f[i - 1] + Len(c) <= Capacity
    <3>1. f[i] = f[i - 1] + Len(c) /\ f[i] <= f[n] /\ f[i] \in Nat /\ f[i - 1] \in Nat
      <4>1. i \in 0 .. n /\ i - 1 \in 0 .. n
        BY <1>1
      <4> QED
        BY <4>1, MarksBound DEF Marks
    <3>2. f[n] \in Nat /\ Capacity \in Nat
      BY <1>1, Constants
    <3>3. c \in Seq(Bits)
      BY CodesTyped
    <3> QED
      BY <3>1, <3>2, <3>3
  <2>5. e \in Data /\ Clean(e, f[i - 1])
    BY <2>1 DEF SymbolsWrote
  <2>6. Wrote(e, f[i - 1], c, g[i].data)
    <3> HIDE DEF e, c
    <3> QED
      BY <2>3, <2>4, <2>5, PutWrote
  <2>7. SymbolsWrote(d, p, syms, f, i, g[i].data)
    BY <2>1, <2>6, SymbolMore
  <2>8. i \in 0 .. n
    BY <1>1
  <2> QED
    BY <2>3, <2>7, <2>8
<1>6. \A i \in 0 .. n : i \in T
  <2> HIDE DEF T, n
  <2> QED
    BY <1>1, <1>4, <1>5, Counting
<1>7. Ok(n)
  BY <1>1, <1>6
<1> QED
  BY <1>2, <1>7

-----------------------------------------------------------------------------
(* Reading symbols. *)

(* Of two symbols neither code begins with the other. *)
LEMMA PrefixFree ==
  ASSUME NEW s \in Symbols, NEW t \in Symbols, Len(Huffman[s]) <= Len(Huffman[t]),
         \A i \in 1 .. Len(Huffman[s]) : Huffman[s][i] = Huffman[t][i]
  PROVE  s = t
<1> DEFINE a == Huffman[s]
           b == Huffman[t]
<1>1. a \in Seq(Bits) /\ b \in Seq(Bits)
  BY CodesTyped
<1>2. Len(a) <= Len(b) /\ \A i \in 1 .. Len(a) : a[i] = b[i]
  OBVIOUS
<1> HIDE DEF a, b
<1>3. SubSeq(a, 1, Len(a)) = SubSeq(b, 1, Len(a))
  <2>1. Len(a) \in Nat /\ Len(b) \in Nat
    BY <1>1
  <2>2. SubSeq(a, 1, Len(a)) = [i \in 1 .. Len(a) |-> a[i]]
    BY <1>1
  <2>3. SubSeq(b, 1, Len(a)) = [i \in 1 .. Len(a) |-> b[i]]
    BY <1>1, <1>2, <2>1
  <2> QED
    BY <1>2, <2>2, <2>3
<1>4. IsPrefix(a, b)
  BY <1>2, <1>3 DEF IsPrefix
<1> QED
  BY <1>4, CodeAssumption DEF a, b

(* The symbol whose code is at a place is the one that is read there. *)
LEMMA SymbolHere ==
  ASSUME NEW d \in Data, NEW p \in Nat, NEW s \in Symbols, Holds(d, p, Huffman[s]),
         p + Len(Huffman[s]) <= Capacity
  PROVE  SymbolAt(d, p) = s
<1> DEFINE Fits(t) == \A i \in DOMAIN Huffman[t] : BitAt(d, p + (i - 1)) = Huffman[t][i]
<1>1. \A t \in Symbols : DOMAIN Huffman[t] = 1 .. Len(Huffman[t]) /\ Len(Huffman[t]) \in Nat
  BY CodesTyped
<1>2. Fits(s)
  <2>1. DOMAIN d = 0 .. Capacity - 1 /\ Capacity \in Nat
    BY Constants DEF Data
  <2>2. \A i \in 1 .. Len(Huffman[s]) : p + (i - 1) \in 0 .. Capacity - 1
    BY <1>1, <2>1
  <2> QED
    BY <1>1, <2>1, <2>2 DEF Holds, BitAt
<1> DEFINE t == SymbolAt(d, p)
<1>3. t \in Symbols /\ Fits(t)
  <2>1. t = CHOOSE x \in Symbols : Fits(x)
    BY DEF SymbolAt
  <2> HIDE DEF t, Fits
  <2> QED
    BY <1>2, <2>1
<1> HIDE DEF t
<1>4. CASE Len(Huffman[s]) <= Len(Huffman[t])
  <2>1. \A i \in 1 .. Len(Huffman[s]) : Huffman[s][i] = Huffman[t][i]
    <3>1. \A i \in 1 .. Len(Huffman[s]) : i \in DOMAIN Huffman[s] /\ i \in DOMAIN Huffman[t]
      BY <1>1, <1>3, <1>4
    <3> QED
      BY <1>2, <1>3, <3>1
  <2> QED
    BY <1>3, <1>4, <2>1, PrefixFree DEF t
<1>5. CASE Len(Huffman[t]) <= Len(Huffman[s])
  <2>1. \A i \in 1 .. Len(Huffman[t]) : Huffman[t][i] = Huffman[s][i]
    <3>1. \A i \in 1 .. Len(Huffman[t]) : i \in DOMAIN Huffman[s] /\ i \in DOMAIN Huffman[t]
      BY <1>1, <1>3, <1>5
    <3> QED
      BY <1>2, <1>3, <3>1
  <2> QED
    BY <1>3, <1>5, <2>1, PrefixFree DEF t
<1> QED
  BY <1>1, <1>3, <1>4, <1>5

PlacesAtI(d, p, f, i) ==
  IF i = 0 THEN p ELSE f[i - 1] + Len(Huffman[SymbolAt(d, f[i - 1])])
PlacesUpTo(d, p, n, f) == f = [i \in 0 .. n |-> PlacesAtI(d, p, f, i)]

(* Where symbols begin is a recursion over what is read. *)
LEMMA PlacesExist ==
  ASSUME NEW d, NEW p, NEW n \in Nat
  PROVE  \E f : PlacesUpTo(d, p, n, f)
<1> DEFINE T == {m \in Nat : \E f : PlacesUpTo(d, p, m, f)}
<1>1. 0 \in T
  <2>1. PlacesUpTo(d, p, 0, [i \in 0 .. 0 |-> p])
    BY DEF PlacesUpTo, PlacesAtI
  <2> QED
    BY <2>1
<1>2. ASSUME NEW m \in 1 .. n, m - 1 \in T PROVE m \in T
  <2>1. PICK f : PlacesUpTo(d, p, m - 1, f)
    BY <1>2
  <2> DEFINE e == f[m - 1] + Len(Huffman[SymbolAt(d, f[m - 1])])
             g == [i \in 0 .. m |-> IF i = m THEN e ELSE f[i]]
  <2>2. ASSUME NEW i \in 0 .. m PROVE g[i] = PlacesAtI(d, p, g, i)
    <3>1. i = 0 \/ (i - 1 \in 0 .. m - 1 /\ g[i - 1] = f[i - 1])
      OBVIOUS
    <3>2. CASE i = m
      <4>1. g[m] = e /\ i # 0
        BY <3>2
      <4> HIDE DEF g
      <4> QED
        BY <3>1, <3>2, <4>1 DEF PlacesAtI
    <3>3. CASE i # m
      <4>1. i \in 0 .. m - 1 /\ g[i] = f[i]
        BY <3>3
      <4>2. f[i] = PlacesAtI(d, p, f, i)
        BY <2>1, <4>1 DEF PlacesUpTo
      <4> HIDE DEF g
      <4> QED
        BY <3>1, <4>1, <4>2 DEF PlacesAtI
    <3> QED
      BY <3>2, <3>3
  <2>3. PlacesUpTo(d, p, m, g)
    BY <2>2 DEF PlacesUpTo
  <2> HIDE DEF g
  <2> QED
    BY <2>3
<1>3. n \in T
  <2>1. n \in 0 .. n
    OBVIOUS
  <2> HIDE DEF T
  <2>2. \A m \in 0 .. n : m \in T
    BY <1>1, <1>2, Counting
  <2> QED
    BY <2>1, <2>2
<1> QED
  BY <1>3

(* Places is that recursion. *)
LEMMA PlacesAre ==
  ASSUME NEW d, NEW p, NEW n \in Nat
  PROVE  PlacesUpTo(d, p, n, Places(d, p, n))
<1> DEFINE g == CHOOSE h : PlacesUpTo(d, p, n, h)
<1>1. PlacesUpTo(d, p, n, g)
  BY PlacesExist
<1>2. Places(d, p, n) = g
  BY DEF Places, PlacesUpTo, PlacesAtI
<1> QED
  BY <1>1, <1>2

(* The codes of symbols are where the symbols begin. *)
Spelled(d, syms, f) == \A i \in 1 .. Len(syms) : Holds(d, f[i - 1], Huffman[syms[i]])

(* What is spelled is read, if the reader reads on or not. *)
LEMMA SpelledRead ==
  ASSUME NEW d \in Data, NEW p \in Nat, NEW syms \in Seq(Symbols), NEW f,
         Marks(syms, p, f), f[Len(syms)] <= Capacity, Spelled(d, syms, f),
         NEW n \in Nat, Len(syms) <= n
  PROVE  /\ \A i \in 0 .. Len(syms) : Places(d, p, n)[i] = f[i]
         /\ \A i \in 1 .. Len(syms) : SymbolsAt(d, p, n)[i] = syms[i]
         /\ DOMAIN SymbolsAt(d, p, n) = 1 .. n
<1> DEFINE l == Len(syms)
           at == Places(d, p, n)
<1>1. l \in Nat /\ f \in [0 .. l -> Nat] /\ f[0] = p /\ l <= n
  BY DEF Marks
<1>2. \A i \in 0 .. n : at[i] = PlacesAtI(d, p, at, i)
  <2>1. PlacesUpTo(d, p, n, at)
    BY PlacesAre
  <2> HIDE DEF at
  <2> QED
    BY <2>1 DEF PlacesUpTo
<1>3. ASSUME NEW i \in 1 .. l PROVE SymbolAt(d, f[i - 1]) = syms[i]
  <2>1. i - 1 \in 0 .. l /\ i \in 0 .. l /\ f[i - 1] \in Nat /\ syms[i] \in Symbols
    BY <1>1
  <2>2. f[i] = f[i - 1] + Len(Huffman[syms[i]]) /\ f[i] <= f[l] /\ f[i] \in Nat /\ f[l] \in Nat
    <3>1. f[i] <= f[l] /\ f[i] \in Nat /\ f[l] \in Nat
      <4>1. l \in 0 .. l
        BY <1>1
      <4> HIDE DEF l
      <4> QED
        BY <1>1, <2>1, <4>1, MarksBound DEF l
    <3> QED
      BY <3>1 DEF Marks
  <2>3. f[i - 1] + Len(Huffman[syms[i]]) <= Capacity
    BY <2>2, Constants
  <2>4. Holds(d, f[i - 1], Huffman[syms[i]])
    BY DEF Spelled
  <2> QED
    BY <2>1, <2>3, <2>4, SymbolHere
<1> DEFINE T == {i \in 0 .. l : at[i] = f[i]}
<1>4. 0 \in T
  BY <1>1, <1>2 DEF PlacesAtI
<1>5. ASSUME NEW i \in 1 .. l, i - 1 \in T PROVE i \in T
  <2> HIDE DEF at, l
  <2>1. i \in 0 .. n /\ i # 0 /\ i \in 0 .. l
    BY <1>1
  <2>2. at[i] = at[i - 1] + Len(Huffman[SymbolAt(d, at[i - 1])])
    BY <1>2, <2>1 DEF PlacesAtI
  <2>3. at[i - 1] = f[i - 1]
    BY <1>5
  <2>4. f[i] = f[i - 1] + Len(Huffman[syms[i]])
    BY DEF Marks, l
  <2> QED
    BY <1>3, <2>1, <2>2, <2>3, <2>4
<1>6. \A i \in 0 .. l : i \in T
  <2> HIDE DEF T, l
  <2> QED
    BY <1>1, <1>4, <1>5, Counting
<1>7. \A i \in 0 .. l : at[i] = f[i]
  BY <1>6
<1>8. ASSUME NEW i \in 1 .. l PROVE SymbolsAt(d, p, n)[i] = syms[i]
  <2>1. i \in 1 .. n /\ i - 1 \in 0 .. l
    BY <1>1
  <2>2. SymbolsAt(d, p, n)[i] = SymbolAt(d, at[i - 1])
    BY <2>1 DEF SymbolsAt
  <2> QED
    BY <1>3, <1>7, <2>1, <2>2
<1>9. DOMAIN SymbolsAt(d, p, n) = 1 .. n
  BY DEF SymbolsAt
<1> QED
  BY <1>7, <1>8, <1>9

-----------------------------------------------------------------------------
(* What is stored for a value, and what is read there. *)

(* Raw bits and symbols are stored from p to q. *)
Stored(d, p, low, syms, q) ==
  /\ q <= Capacity /\ Holds(d, p, low)
  /\ \E f : Marks(syms, p + Len(low), f) /\ f[Len(syms)] = q /\ Spelled(d, syms, f)

(* The bits of a value are its raw bits and its chunks. *)
LEMMA Widths ==
  ASSUME NEW b \in Int \ {0}
  PROVE  /\ Width(b) \in Nat \ {0} /\ Raw(b) \in Nat /\ Coded(b) \in Nat
         /\ Byte * Coded(b) \in Nat /\ Width(b) = Raw(b) + Byte * Coded(b)
<1>1. Width(b) \in Nat \ {0}
  BY DEF Width
<1> DEFINE w == Width(b)
<1>2. w % Byte \in 0 .. Byte - 1 /\ ByteOf(w) \in Nat /\ w = Byte * ByteOf(w) + (w % Byte)
  <2> HIDE DEF w
  <2> QED
    BY <1>1, Bytes DEF w
<1>3. Byte * ByteOf(w) \in Nat
  BY <1>2, Constants, SMT
<1> QED
  BY <1>1, <1>2, <1>3, Constants DEF Raw, Coded, ByteOf

(* The raw bits of a value. *)
LEMMA LowTyped ==
  ASSUME NEW b \in Int \ {0}, NEW v \in Int
  PROVE  /\ Low(b, v) \in Seq(Bits) /\ Len(Low(b, v)) = Raw(b)
         /\ Sum(Low(b, v), 1) = v % Power[Raw(b)]
<1>1. Raw(b) \in Nat
  BY Widths
<1>2. 0 .. Power[1] - 1 = Bits
  BY PowerStep DEF Bits
<1>3. Low(b, v) \in Seq(0 .. Power[1] - 1) /\ Len(Low(b, v)) = Raw(b)
  BY <1>1, DigitsTyped DEF Low
<1>4. Sum(Low(b, v), 1) = v % Power[1 * Raw(b)] /\ 1 * Raw(b) = Raw(b)
  BY <1>1, SumDigits DEF Low
<1> QED
  BY <1>2, <1>3, <1>4

(* The symbols of a value; with the raw bits they make up the value. *)
LEMMA HighTyped ==
  ASSUME NEW b \in Int \ {0}, NEW v \in Int
  PROVE  /\ High(b, v) \in Seq(Symbols) /\ Len(High(b, v)) = Coded(b)
         /\ Sum(Low(b, v), 1) + Power[Raw(b)] * Sum(High(b, v), Byte) = v % Power[Width(b)]
<1> DEFINE P == Power[Raw(b)]
           Q == Power[Byte * Coded(b)]
           N == Power[Width(b)]
           u == v % N
           h == u \div P
<1>1. /\ Raw(b) \in Nat /\ Coded(b) \in Nat /\ Byte * Coded(b) \in Nat /\ Byte \in Nat
      /\ Width(b) = Raw(b) + Byte * Coded(b) /\ Width(b) \in Nat
  BY Widths, Constants
<1>2. P \in Nat \ {0} /\ Q \in Nat \ {0} /\ N \in Nat \ {0} /\ N = P * Q
  BY <1>1, PowerStep, PowerAdd
<1>3. High(b, v) = Digits(Coded(b), Byte, h)
  BY DEF High
<1>4. Sum(Low(b, v), 1) = v % P
  BY LowTyped
<1> HIDE DEF P, Q, N
<1>5. u \in 0 .. N - 1
  BY <1>2, Division
<1>6. h \in Int /\ u = P * h + (u % P) /\ u % P \in 0 .. P - 1
  <2> HIDE DEF u
  <2> QED
    BY <1>2, <1>5, Division
<1>7. High(b, v) \in Seq(Symbols) /\ Len(High(b, v)) = Coded(b)
  <2> HIDE DEF h
  <2> DEFINE c == Digits(Coded(b), Byte, h)
  <2>1. c \in Seq(0 .. Power[Byte] - 1) /\ Len(c) = Coded(b)
    BY <1>1, <1>6, DigitsTyped, Zenon
  <2> QED
    BY <1>3, <2>1, Zenon DEF Symbols
<1>8. Sum(High(b, v), Byte) = h % Q
  <2> HIDE DEF h
  <2> QED
    BY <1>1, <1>3, <1>6, SumDigits DEF Q
<1>9. v % N = (v % P) + P * ((v \div P) % Q)
  BY <1>2, DivisionTwice
<1>10. h = (v \div P) % Q /\ u % P = v % P
  <2> DEFINE a == (v \div P) % Q
             r == v % P
  <2>1. r \in 0 .. P - 1 /\ v \div P \in Int
    BY <1>2, Division
  <2>2. a \in Int
    BY <1>2, <2>1, Division
  <2> HIDE DEF a, r
  <2>3. u = P * a + r
    <3>1. u = r + P * a
      BY <1>9 DEF a, r, u
    <3>2. P * a \in Int /\ r \in Int
      BY <1>2, <2>1, <2>2
    <3> QED
      BY <3>1, <3>2
  <2> HIDE DEF u
  <2>4. u \div P = a /\ u % P = r
    BY <1>2, <2>1, <2>2, <2>3, DivisionIs
  <2> QED
    BY <2>4 DEF a, r
<1>11. h % Q = h
  <2>1. h \in 0 .. Q - 1
    <3>1. v \div P \in Int
      BY <1>2, Division
    <3> QED
      BY <1>2, <1>10, <3>1, Division
  <2> HIDE DEF h
  <2> QED
    BY <1>2, <2>1
<1>12. Sum(Low(b, v), 1) + P * Sum(High(b, v), Byte) = v % N
  BY <1>4, <1>8, <1>9, <1>10, <1>11
<1> QED
  BY <1>7, <1>12 DEF P, N

(* The top bit tells if a number is in the upper half. *)
LEMMA TopBit ==
  ASSUME NEW n \in Nat \ {0}, NEW u \in 0 .. Power[n] - 1
  PROVE  (u \div Power[n - 1]) % 2 = 1 <=> 2 * u >= Power[n]
<1> DEFINE H == Power[n - 1]
<1>1. H \in Nat \ {0} /\ Power[n] = 2 * H
  <2>1. n - 1 \in Nat /\ (n - 1) + 1 = n
    OBVIOUS
  <2> QED
    BY <2>1, PowerStep
<1> HIDE DEF H
<1>2. u \in Int
  BY <1>1
<1>3. CASE u < H
  <2>1. u \in 0 .. H - 1 /\ u = H * 0 + u
    BY <1>1, <1>2, <1>3
  <2>2. u \div H = 0
    <3>1. (H * 0 + u) \div H = 0
      BY <1>1, <2>1, DivisionIs
    <3> QED
      BY <2>1, <3>1
  <2> QED
    BY <1>1, <1>2, <1>3, <2>2 DEF H
<1>4. CASE u >= H
  <2>1. u - H \in 0 .. H - 1 /\ u = H * 1 + (u - H)
    BY <1>1, <1>2, <1>4
  <2>2. u \div H = 1
    <3>1. (H * 1 + (u - H)) \div H = 1
      BY <1>1, <2>1, DivisionIs
    <3> QED
      BY <2>1, <3>1
  <2> QED
    BY <1>1, <1>2, <1>4, <2>2 DEF H
<1> QED
  BY <1>1, <1>2, <1>3, <1>4

(* What comes back of a value of b bits. *)
Back(b, v) == IF b < 0 THEN Signed(v % Power[-b], -b) ELSE v % Power[b]

(* The reader m went to p, which is in byte c, and became e. *)
Went(m, e, p, c) == e = [m EXCEPT !.bit = p, !.readcount = c]
WentTo(m, e, q) == Went(m, e, q, SizeAt(q))

(* MSG_ReadBits reads the value that is stored where it reads. *)
LEMMA ReadBitsRight ==
  ASSUME NEW m, m.data \in Data, m.bit \in Nat, NEW b \in Int \ {0}, NEW v \in Int,
         b < 0 => Raw(b) = 0, NEW q \in Nat, Stored(m.data, m.bit, Low(b, v), High(b, v), q)
  PROVE  /\ ReadBits(m, b).value = Back(b, v)
         /\ WentTo(m, ReadBits(m, b).msg, q)
<1> DEFINE d == m.data
           p == m.bit
           l == Low(b, v)
           h == High(b, v)
           low == [i \in 1 .. Raw(b) |-> BitAt(m.data, m.bit + (i - 1))]
           start == m.bit + Raw(b)
           high == SymbolsAt(m.data, start, Coded(b))
           end == Places(m.data, start, Coded(b))[Coded(b)]
           top == Byte * Coded(b)
           value == Sum(low, 1) + Power[Raw(b)] * Sum(high, Byte)
<1>1. /\ ReadBits(m, b).msg = [m EXCEPT !.bit = end, !.readcount = SizeAt(end)]
      /\ ReadBits(m, b).value = IF b < 0 /\ top > 0 /\ (value \div Power[top - 1]) % 2 = 1
                                THEN value - Power[top] ELSE value
  BY DEF ReadBits
<1>2. /\ Width(b) \in Nat \ {0} /\ Raw(b) \in Nat /\ Coded(b) \in Nat /\ top \in Nat
      /\ Width(b) = Raw(b) + top
  BY Widths
<1>3. /\ l \in Seq(Bits) /\ Len(l) = Raw(b)
      /\ h \in Seq(Symbols) /\ Len(h) = Coded(b)
      /\ Sum(l, 1) + Power[Raw(b)] * Sum(h, Byte) = v % Power[Width(b)]
  BY LowTyped, HighTyped
<1>4. PICK f : Marks(h, p + Len(l), f) /\ f[Len(h)] = q /\ Spelled(d, h, f)
  BY DEF Stored
<1>5. q <= Capacity /\ Holds(d, p, l) /\ Capacity \in Nat
  BY Constants DEF Stored
<1> HIDE DEF top, l, h, start
<1>6. start = p + Len(l) /\ start \in Nat
  BY <1>2, <1>3 DEF start
<1>7. start <= q
  <2>1. Len(h) \in 0 .. Len(h)
    BY <1>2, <1>3
  <2> QED
    BY <1>3, <1>4, <1>6, <2>1, MarksBound
<1>8. low = l
  <2>1. ASSUME NEW i \in 1 .. Raw(b) PROVE BitAt(d, p + (i - 1)) = l[i]
    <3>1. DOMAIN d = 0 .. Capacity - 1 /\ i \in 1 .. Len(l)
      BY <1>3 DEF Data
    <3>2. p + (i - 1) \in 0 .. Capacity - 1
      BY <1>2, <1>5, <1>7 DEF start
    <3> QED
      BY <1>5, <3>1, <3>2 DEF Holds, BitAt
  <2>2. l = [i \in 1 .. Raw(b) |-> l[i]]
    BY <1>3
  <2> QED
    BY <2>1, <2>2
<1>9. /\ \A i \in 0 .. Len(h) : Places(d, start, Coded(b))[i] = f[i]
      /\ \A i \in 1 .. Len(h) : SymbolsAt(d, start, Coded(b))[i] = h[i]
  <2>1. f[Len(h)] <= Capacity /\ Len(h) <= Coded(b) /\ Marks(h, start, f)
    BY <1>2, <1>3, <1>4, <1>5, <1>6
  <2>2. start \in Nat /\ h \in Seq(Symbols) /\ Spelled(d, h, f) /\ Coded(b) \in Nat
    BY <1>2, <1>3, <1>4, <1>6
  <2>3. d \in Data
    OBVIOUS
  <2> HIDE DEF d
  <2> QED
    BY <2>1, <2>2, <2>3, SpelledRead
<1>10. high = h
  <2>1. high = [i \in 1 .. Coded(b) |-> high[i]]
    BY DEF SymbolsAt
  <2>2. h = [i \in 1 .. Coded(b) |-> h[i]]
    BY <1>3
  <2>3. \A i \in 1 .. Coded(b) : high[i] = h[i]
    BY <1>3, <1>9
  <2> HIDE DEF high
  <2> QED
    BY <2>1, <2>2, <2>3
<1>11. end = q
  <2>1. Coded(b) \in 0 .. Len(h)
    BY <1>2, <1>3
  <2> QED
    BY <1>3, <1>4, <1>9, <2>1
<1>12. value = v % Power[Width(b)]
  BY <1>3, <1>8, <1>10
<1> HIDE DEF value, end
<1>13. CASE b > 0
  <2>1. Width(b) = b /\ ~ (b < 0)
    BY <1>13 DEF Width
  <2> QED
    BY <1>1, <1>11, <1>12, <2>1 DEF Back, WentTo, Went
<1>14. CASE b < 0
  <2>1. Width(b) = -b /\ top = -b /\ top \in Nat \ {0}
    BY <1>2, <1>14 DEF Width
  <2>2. value \in 0 .. Power[top] - 1
    BY <1>12, <2>1, PowerStep, Division
  <2>3. (value \div Power[top - 1]) % 2 = 1 <=> 2 * value >= Power[top]
    BY <2>1, <2>2, TopBit
  <2>4. ReadBits(m, b).value = IF 2 * value >= Power[top] THEN value - Power[top] ELSE value
    BY <1>1, <1>14, <2>1, <2>3
  <2>5. Back(b, v) = Signed(value, top)
    BY <1>12, <1>14, <2>1 DEF Back
  <2> QED
    BY <1>1, <1>11, <2>4, <2>5 DEF Signed, WentTo, Went
<1> QED
  BY <1>13, <1>14

(* What is written for a text. *)
LEMMA SaidTyped ==
  ASSUME NEW text \in Seq(Symbols \ {0})
  PROVE  /\ Said(text) \in Seq(Symbols) /\ Len(Said(text)) \in 1 .. MaxText
         /\ Said(text)[Len(Said(text))] = 0
         /\ \A i \in 1 .. Len(Said(text)) - 1 : Said(text)[i] # 0
         /\ Len(text) >= MaxText => Len(Said(text)) = 1
         /\ Len(text) < MaxText => /\ Len(Said(text)) = Len(text) + 1
                                   /\ \A i \in 1 .. Len(text) : Said(text)[i] = text[i]
<1>1. 0 \in Symbols /\ MaxText \in Nat \ {0}
  <2>1. Power[Byte] \in Nat \ {0}
    BY PowerStep, Constants
  <2> QED
    BY <2>1, Constants DEF Symbols
<1>2. CASE Len(text) >= MaxText
  <2>1. Said(text) = <<0>>
    BY <1>2 DEF Said
  <2> QED
    BY <1>1, <1>2, <2>1
<1>3. CASE Len(text) < MaxText
  <2> DEFINE s == Append(text, 0)
  <2>1. Said(text) = s
    BY <1>1, <1>3 DEF Said
  <2>2. text \in Seq(Symbols) /\ Len(text) \in Nat
    OBVIOUS
  <2>3. s \in Seq(Symbols) /\ Len(s) = Len(text) + 1 /\ s[Len(text) + 1] = 0
    BY <1>1, <2>2
  <2>4. \A i \in 1 .. Len(text) : s[i] = text[i] /\ text[i] # 0
    OBVIOUS
  <2> HIDE DEF s
  <2> QED
    BY <1>1, <1>3, <2>1, <2>2, <2>3, <2>4
<1> QED
  BY <1>1, <1>2, <1>3

(* What comes back of a text. *)
Heard(text) == IF Len(text) >= MaxText THEN <<>> ELSE Shown(text)

(* MSG_ReadString reads the text that is stored where it reads. *)
LEMMA ReadTextRight ==
  ASSUME NEW m, m.data \in Data, m.bit \in Nat, NEW text \in Seq(Symbols \ {0}),
         NEW q \in Nat, Stored(m.data, m.bit, <<>>, Said(text), q),
         NEW cursize \in Int, SizeAt(q) <= cursize
  PROVE  /\ ReadText(m, cursize).value = Heard(text)
         /\ WentTo(m, ReadText(m, cursize).msg, q)
<1> DEFINE d == m.data
           p == m.bit
           s == Said(text)
           l == Len(s)
           all == SymbolsAt(m.data, m.bit, MaxText)
           after == Places(m.data, m.bit, MaxText)
           stops(i) == all[i] = 0 \/ SizeAt(after[i]) > cursize
           First(i) == (stops(i) \/ i = MaxText) /\ \A k \in 1 .. i - 1 : ~ stops(k)
           n == CHOOSE i \in 1 .. MaxText : First(i)
<1>1. /\ ReadText(m, cursize).msg = [m EXCEPT !.bit = after[n], !.readcount = SizeAt(after[n])]
      /\ ReadText(m, cursize).value =
           Shown(SubSeq(all, 1, IF stops(n) THEN n - 1 ELSE MaxText - 1))
  BY DEF ReadText
<1>2. /\ s \in Seq(Symbols) /\ l \in 1 .. MaxText /\ s[l] = 0
      /\ \A i \in 1 .. l - 1 : s[i] # 0
      /\ Len(text) >= MaxText => l = 1
      /\ Len(text) < MaxText => l = Len(text) + 1 /\ \A i \in 1 .. Len(text) : s[i] = text[i]
  BY SaidTyped
<1>3. PICK f : Marks(s, p, f) /\ f[l] = q /\ Spelled(d, s, f)
  <2>1. p + Len(<<>>) = p
    OBVIOUS
  <2> HIDE DEF l, s
  <2> QED
    BY <2>1 DEF Stored, s, l
<1>4. q <= Capacity /\ MaxText \in Nat \ {0}
  BY Constants DEF Stored
<1> HIDE DEF s
<1>5. /\ \A i \in 0 .. l : after[i] = f[i]
      /\ \A i \in 1 .. l : all[i] = s[i]
      /\ DOMAIN all = 1 .. MaxText
  BY <1>2, <1>3, <1>4, SpelledRead
<1>6. \A i \in 0 .. l : f[i] \in Nat /\ f[i] <= q
  BY <1>2, <1>3, MarksBound
<1> HIDE DEF all, after, l
<1>7. ASSUME NEW i \in 1 .. l PROVE ~ (SizeAt(after[i]) > cursize)
  <2>1. after[i] = f[i] /\ f[i] \in Nat /\ f[i] <= q
    BY <1>2, <1>5, <1>6
  <2>2. ByteOf(f[i]) <= ByteOf(q) /\ ByteOf(f[i]) \in Nat /\ ByteOf(q) \in Nat
    BY <2>1, LaterByte, Bytes
  <2> QED
    BY <2>1, <2>2 DEF SizeAt
<1>8. stops(l) /\ \A k \in 1 .. l - 1 : ~ stops(k)
  <2>1. l \in 1 .. l /\ \A k \in 1 .. l - 1 : k \in 1 .. l
    BY <1>2
  <2> QED
    BY <1>2, <1>5, <1>7, <2>1
<1> HIDE DEF stops
<1>9. n = l
  <2>1. n \in 1 .. MaxText /\ First(n)
    <3>1. l \in 1 .. MaxText /\ First(l)
      BY <1>2, <1>8
    <3> HIDE DEF First
    <3> QED
      BY <3>1
  <2> HIDE DEF n
  <2>2. ~ (l < n)
    <3>1. l < n => l \in 1 .. n - 1
      BY <1>2, <2>1
    <3> QED
      BY <1>8, <2>1, <3>1
  <2>3. ~ (n < l)
    <3>1. n < l => n \in 1 .. l - 1 /\ n # MaxText
      BY <1>2, <2>1
    <3> QED
      BY <1>8, <2>1, <3>1
  <2> QED
    BY <1>2, <2>1, <2>2, <2>3
<1> HIDE DEF n
<1>10. after[n] = q
  <2>1. l \in 0 .. l
    BY <1>2
  <2> QED
    BY <1>3, <1>5, <1>9, <2>1 DEF l
<1>11. SubSeq(all, 1, l - 1) = [i \in 1 .. l - 1 |-> s[i]]
  <2> DEFINE S == {all[i] : i \in 1 .. MaxText}
  <2>1. all = [i \in 1 .. MaxText |-> all[i]] /\ \A i \in 1 .. MaxText : all[i] \in S
    BY <1>5 DEF all, SymbolsAt
  <2> HIDE DEF S
  <2>2. all \in Seq(S) /\ Len(all) = MaxText
    BY <1>4, <2>1
  <2>3. l - 1 \in 0 .. MaxText
    BY <1>2, <1>4
  <2>4. SubSeq(all, 1, l - 1) = [i \in 1 .. l - 1 |-> all[i]]
    BY <1>4, <2>2, <2>3
  <2>5. \A i \in 1 .. l - 1 : i \in 1 .. l
    BY <1>2
  <2> QED
    BY <1>5, <2>4, <2>5
<1>12. Heard(text) = Shown([i \in 1 .. l - 1 |-> s[i]])
  <2>1. CASE Len(text) >= MaxText
    <3>1. Heard(text) = <<>> /\ l - 1 = 0
      BY <1>2, <2>1 DEF Heard
    <3>2. Shown([i \in 1 .. 0 |-> s[i]]) = <<>>
      BY DEF Shown
    <3> QED
      BY <3>1, <3>2
  <2>2. CASE ~ (Len(text) >= MaxText)
    <3>1. Len(text) \in Nat /\ Heard(text) = Shown(text)
      BY <2>2 DEF Heard
    <3>2. l - 1 = Len(text) /\ \A i \in 1 .. Len(text) : s[i] = text[i]
      BY <1>2, <1>4, <2>2, <3>1
    <3>3. text = [i \in 1 .. Len(text) |-> text[i]]
      OBVIOUS
    <3>4. text = [i \in 1 .. l - 1 |-> s[i]]
      BY <3>2, <3>3
    <3> QED
      BY <3>1, <3>4
  <2> QED
    BY <2>1, <2>2
<1> QED
  BY <1>1, <1>8, <1>9, <1>10, <1>11, <1>12 DEF WentTo, Went

-----------------------------------------------------------------------------
(* The writer. *)

Writers ==
  {m \in [data : Data, bit : 0 .. Capacity - 1, cursize : Nat, overflowed : BOOLEAN] :
     /\ Clean(m.data, m.bit)
     /\ m.cursize = SizeAt(m.bit) \/ (m.cursize = 0 /\ m.bit = 0)
     /\ m.overflowed => MaxSize - m.cursize < Reserve}

(* m became e by a write. *)
Moved(m, e) ==
  /\ e \in Writers /\ e.cursize = SizeAt(e.bit)
  /\ SameBefore(m.data, e.data, m.bit) /\ m.bit <= e.bit
  /\ m.overflowed => e.overflowed

(* What is known of a writer. *)
LEMMA WriterTyped ==
  ASSUME NEW m \in Writers
  PROVE  /\ m.data \in Data /\ m.bit \in Nat /\ m.bit < Capacity /\ m.bit \in 0 .. Capacity - 1
         /\ m.cursize \in Nat /\ m.overflowed \in BOOLEAN /\ Clean(m.data, m.bit)
         /\ m.overflowed => MaxSize - m.cursize < Reserve
         /\ SizeAt(m.bit) \in Nat
         /\ \/ m.cursize = SizeAt(m.bit)
            \/ m.cursize = 0 /\ m.bit = 0
         /\ MaxSize - m.cursize < Reserve => m.cursize = SizeAt(m.bit)
         /\ ~ (MaxSize - m.cursize < Reserve) => ~ (MaxSize - SizeAt(m.bit) < Reserve)
<1>1. /\ m.data \in Data /\ m.bit \in Nat /\ m.bit < Capacity /\ m.bit \in 0 .. Capacity - 1
      /\ m.cursize \in Nat /\ m.overflowed \in BOOLEAN /\ Clean(m.data, m.bit)
      /\ m.overflowed => MaxSize - m.cursize < Reserve
      /\ m.cursize = SizeAt(m.bit) \/ (m.cursize = 0 /\ m.bit = 0)
  BY Constants DEF Writers
<1>2. SizeAt(m.bit) \in Nat
  BY <1>1, Bytes DEF SizeAt
<1>3. m.bit = 0 => SizeAt(m.bit) = 1
  <2>1. ByteOf(0) = 0
    <3>1. 0 = Byte * ByteOf(0) + (0 % Byte) /\ 0 % Byte \in 0 .. Byte - 1 /\ ByteOf(0) \in Nat
      BY Bytes
    <3>2. ByteOf(0) >= 1 => Byte * ByteOf(0) >= Byte
      BY <3>1, Constants, SMT
    <3> QED
      BY <3>1, <3>2, Constants
  <2> QED
    BY <2>1 DEF SizeAt
<1> QED
  BY <1>1, <1>2, <1>3, Constants

(* With the reserve free, what takes two bytes more than that has room.    *)
LEMMA Room ==
  ASSUME NEW p \in Nat, ~ (MaxSize - SizeAt(p) < Reserve), NEW n \in Nat,
         n <= Byte * (Reserve + 2)
  PROVE  p + n < Capacity
<1> DEFINE z == SizeAt(p)
<1>1. /\ ByteOf(p) \in Nat /\ p = Byte * ByteOf(p) + (p % Byte) /\ p % Byte \in 0 .. Byte - 1
      /\ z = ByteOf(p) + 1
  BY Bytes DEF SizeAt
<1>2. p <= Byte * z - 1
  <2>1. Byte * z = Byte * ByteOf(p) + Byte /\ Byte * ByteOf(p) \in Nat
    BY <1>1, Constants, SMT
  <2> QED
    BY <1>1, <2>1, Constants
<1>3. z + (Reserve + 2) <= MaxSize + 2 /\ z \in Nat
  BY <1>1, Constants
<1> HIDE DEF z
<1>4. Byte * z + Byte * (Reserve + 2) = Byte * (z + (Reserve + 2))
  BY <1>3, Constants, SMT
<1>5. Byte * (z + (Reserve + 2)) <= Byte * (MaxSize + 2)
  <2>1. \A a \in Nat, x, y \in Nat : x <= y => a * x <= a * y
    BY SMT
  <2>2. z + (Reserve + 2) \in Nat /\ MaxSize + 2 \in Nat
    BY <1>3, Constants
  <2> QED
    BY <1>3, <2>1, <2>2, Constants
<1>6. Byte * z \in Nat /\ Byte * (Reserve + 2) \in Nat
  BY <1>3, Constants, SMT
<1> QED
  BY <1>2, <1>4, <1>5, <1>6, Constants DEF Capacity

(* Values that may be written. *)
Writable(b, v) ==
  /\ b \in Int \ {0} /\ v \in Int /\ (b < 0 => Raw(b) = 0)
  /\ Raw(b) + LongestCode * Coded(b) <= Byte * (Reserve + 2)

(* With the reserve free a value is put behind what there is. *)
LEMMA PutValueRight ==
  ASSUME NEW m \in Writers, NEW b, NEW v, Writable(b, v), NEW fast,
         ~ (MaxSize - SizeAt(m.bit) < Reserve)
  PROVE  LET put == PutValue(m, b, v, fast)
         IN  /\ put.data \in Data /\ put.bit \in Nat /\ put.bit < Capacity /\ m.bit <= put.bit
             /\ SameBefore(m.data, put.data, m.bit) /\ Clean(put.data, put.bit)
             /\ Stored(put.data, m.bit, Low(b, v), High(b, v), put.bit)
<1> DEFINE d == m.data
           p == m.bit
           l == Low(b, v)
           h == High(b, v)
           e == IF l = <<>> THEN d ELSE Put(d, p, l, fast /\ b # 1)
           q == p + Len(l)
           put == PutValue(m, b, v, fast)
<1>1. put = PutSymbols(e, q, h, fast)
  BY DEF PutValue
<1>2. /\ l \in Seq(Bits) /\ Len(l) = Raw(b) /\ h \in Seq(Symbols) /\ Len(h) = Coded(b)
      /\ Raw(b) \in Nat /\ Coded(b) \in Nat /\ Raw(b) + LongestCode * Coded(b) <= Byte * (Reserve + 2)
  BY LowTyped, HighTyped, Widths DEF Writable
<1>3. d \in Data /\ p \in Nat /\ Clean(d, p)
  BY WriterTyped
<1>4. LongestCode * Coded(b) \in Nat
  BY <1>2, Constants, SMT
<1>5. p + (Raw(b) + LongestCode * Coded(b)) < Capacity
  BY <1>2, <1>3, <1>4, Room
<1> HIDE DEF l, h, put
<1>6. Wrote(d, p, l, e)
  <2>1. CASE l = <<>>
    <3>1. e = d /\ Len(l) = 0 /\ p + 0 = p
      BY <1>3, <2>1
    <3> QED
      BY <1>3, <3>1 DEF Wrote, SameBefore, Holds
  <2>2. CASE l # <<>>
    <3>1. p + Len(l) <= Capacity
      <4>1. Len(l) = Raw(b) /\ Raw(b) \in Nat
        BY <1>2
      <4>2. p \in Nat /\ Capacity \in Nat
        BY <1>3, Constants
      <4> HIDE DEF p
      <4> QED
        BY <1>4, <1>5, <4>1, <4>2
    <3>2. e = Put(d, p, l, fast /\ b # 1)
      BY <2>2
    <3> HIDE DEF e, d, p
    <3> QED
      BY <1>2, <1>3, <3>1, <3>2, PutWrote
  <2> QED
    BY <2>1, <2>2
<1>7. e \in Data /\ SameBefore(d, e, p) /\ Holds(e, p, l) /\ Clean(e, q) /\ q \in Nat
  BY <1>2, <1>3, <1>6 DEF Wrote
<1>8. PICK f : Marks(h, q, f)
  BY <1>2, <1>7, MarksExist
<1>9. f[Len(h)] \in Nat /\ q <= f[Len(h)] /\ f[Len(h)] <= q + LongestCode * Len(h)
  <2>1. Len(h) \in 0 .. Len(h)
    BY <1>2
  <2> HIDE DEF q
  <2> QED
    BY <1>2, <1>7, <1>8, <2>1, MarksBound
<1>10. f[Len(h)] < Capacity /\ p <= q
  <2>1. Len(l) = Raw(b) /\ Raw(b) \in Nat /\ Len(h) = Coded(b)
    BY <1>2
  <2>2. p \in Nat /\ Capacity \in Nat
    BY <1>3, Constants
  <2>3. f[Len(h)] \in Nat /\ f[Len(h)] <= (p + Raw(b)) + LongestCode * Coded(b)
    BY <1>9, <2>1
  <2> HIDE DEF p
  <2>4. q = p + Raw(b)
    BY <2>1
  <2> QED
    BY <1>4, <1>5, <2>1, <2>2, <2>3, <2>4
<1> HIDE DEF d, p, e, q
<1>11. put.bit = f[Len(h)] /\ SymbolsWrote(e, q, h, f, Len(h), put.data)
  <2>1. f[Len(h)] <= Capacity
    BY <1>9, <1>10, Constants
  <2> QED
    BY <1>1, <1>2, <1>7, <1>8, <2>1, PutSymbolsWrote
<1>12. /\ put.data \in Data /\ SameBefore(e, put.data, q) /\ Clean(put.data, put.bit)
       /\ Spelled(put.data, h, f)
  BY <1>11 DEF SymbolsWrote, Spelled
<1>13. SameBefore(d, put.data, p)
  <2>1. \A k \in 0 .. p - 1 : k \in 0 .. q - 1
    BY <1>3, <1>7, <1>10
  <2> QED
    BY <1>7, <1>12, <2>1 DEF SameBefore
<1>14. Holds(put.data, p, l)
  <2>1. \A i \in 1 .. Len(l) : p + (i - 1) \in 0 .. q - 1
    BY <1>2, <1>3 DEF q
  <2> QED
    BY <1>7, <1>12, <2>1 DEF SameBefore, Holds
<1>15. Stored(put.data, p, l, h, put.bit)
  <2>1. put.bit <= Capacity
    BY <1>9, <1>10, <1>11, Constants
  <2> QED
    BY <1>8, <1>11, <1>12, <1>14, <2>1 DEF Stored, q
<1> QED
  BY <1>9, <1>10, <1>11, <1>12, <1>13, <1>15, <1>3, <1>7 DEF d, p, l, h, put

(* The reserve is gone: the writer takes no more. *)
LEMMA NoMore ==
  ASSUME NEW m \in Writers, MaxSize - SizeAt(m.bit) < Reserve,
         NEW e, e = [m EXCEPT !.cursize = SizeAt(m.bit), !.overflowed = TRUE]
  PROVE  Moved(m, e) /\ e.overflowed
<1>1. /\ m \in [data : Data, bit : 0 .. Capacity - 1, cursize : Nat, overflowed : BOOLEAN]
      /\ Clean(m.data, m.bit) /\ SizeAt(m.bit) \in Nat /\ m.bit \in Nat
  BY WriterTyped DEF Writers
<1>2. /\ e \in [data : Data, bit : 0 .. Capacity - 1, cursize : Nat, overflowed : BOOLEAN]
      /\ e.data = m.data /\ e.bit = m.bit /\ e.cursize = SizeAt(m.bit) /\ e.overflowed
  BY <1>1
<1>3. e \in Writers
  BY <1>1, <1>2 DEF Writers
<1>4. SameBefore(m.data, e.data, m.bit) /\ m.bit <= e.bit
  BY <1>1, <1>2 DEF SameBefore
<1> QED
  BY <1>2, <1>3, <1>4 DEF Moved

(* The writer takes data that goes on after what it has. *)
GoesOn(m, d, p, e) ==
  /\ ~ (MaxSize - SizeAt(m.bit) < Reserve)
  /\ d \in Data /\ p \in Nat /\ p < Capacity /\ m.bit <= p
  /\ SameBefore(m.data, d, m.bit) /\ Clean(d, p)
  /\ e = [m EXCEPT !.data = d, !.bit = p, !.cursize = SizeAt(p)]

(* Then it is a writer still. *)
LEMMA OneMore ==
  ASSUME NEW m \in Writers, NEW d, NEW p, NEW e, GoesOn(m, d, p, e)
  PROVE  Moved(m, e) /\ ~ e.overflowed /\ e.data = d /\ e.bit = p
<1>0. /\ ~ (MaxSize - SizeAt(m.bit) < Reserve)
      /\ d \in Data /\ p \in Nat /\ p < Capacity /\ m.bit <= p
      /\ SameBefore(m.data, d, m.bit) /\ Clean(d, p)
      /\ e = [m EXCEPT !.data = d, !.bit = p, !.cursize = SizeAt(p)]
  BY DEF GoesOn
<1>1. /\ m \in [data : Data, bit : 0 .. Capacity - 1, cursize : Nat, overflowed : BOOLEAN]
      /\ SizeAt(p) \in Nat
      /\ SizeAt(m.bit) \in Nat /\ m.cursize \in Nat
  BY <1>0, Bytes, WriterTyped DEF Writers, SizeAt
<1>2. ~ m.overflowed
  BY <1>0, WriterTyped, Constants
<1>3. e \in [data : Data, bit : 0 .. Capacity - 1, cursize : Nat, overflowed : BOOLEAN]
  <2>1. p \in 0 .. Capacity - 1
    BY <1>0, Constants
  <2> QED
    BY <1>0, <1>1, <2>1
<1>4. e.data = d /\ e.bit = p /\ e.cursize = SizeAt(p)
  BY <1>0, <1>1
<1>5. ~ e.overflowed
  BY <1>0, <1>1, <1>2
<1>6. e \in Writers
  BY <1>0, <1>3, <1>4, <1>5 DEF Writers
<1> QED
  BY <1>0, <1>2, <1>4, <1>5, <1>6 DEF Moved

(* A value is stored if it fits. *)
LEMMA WriteBitsRight ==
  ASSUME NEW m \in Writers, NEW b, NEW v, Writable(b, v), NEW fast
  PROVE  LET e == WriteBits(m, b, v, fast)
         IN  /\ Moved(m, e)
             /\ ~ e.overflowed => Stored(e.data, m.bit, Low(b, v), High(b, v), e.bit)
<1> DEFINE e == WriteBits(m, b, v, fast)
           put == PutValue(m, b, v, fast)
<1>1. CASE MaxSize - m.cursize < Reserve
  <2>1. m.cursize = SizeAt(m.bit) /\ MaxSize - SizeAt(m.bit) < Reserve
    BY <1>1, WriterTyped
  <2>2. e = [m EXCEPT !.overflowed = TRUE]
    BY <1>1 DEF WriteBits
  <2>3. [m EXCEPT !.overflowed = TRUE] =
          [m EXCEPT !.cursize = SizeAt(m.bit), !.overflowed = TRUE]
    BY <2>1 DEF Writers
  <2> HIDE DEF e
  <2> QED
    BY <2>1, <2>2, <2>3, NoMore DEF e
<1>2. CASE ~ (MaxSize - m.cursize < Reserve)
  <2>1. ~ (MaxSize - SizeAt(m.bit) < Reserve)
    BY <1>2, WriterTyped
  <2>2. e = [m EXCEPT !.data = put.data, !.bit = put.bit, !.cursize = SizeAt(put.bit)]
    BY <1>2 DEF WriteBits
  <2>3. /\ put.data \in Data /\ put.bit \in Nat /\ put.bit < Capacity /\ m.bit <= put.bit
        /\ SameBefore(m.data, put.data, m.bit) /\ Clean(put.data, put.bit)
        /\ Stored(put.data, m.bit, Low(b, v), High(b, v), put.bit)
    BY <2>1, PutValueRight
  <2> HIDE DEF e, put
  <2>4. Moved(m, e) /\ e.data = put.data /\ e.bit = put.bit
    <3>1. GoesOn(m, put.data, put.bit, e)
      BY <2>1, <2>2, <2>3 DEF GoesOn
    <3> QED
      BY <3>1, OneMore
  <2> QED
    BY <2>3, <2>4 DEF e
<1> QED
  BY <1>1, <1>2

-----------------------------------------------------------------------------
(* Texts. *)

(* A single symbol. *)
LEMMA OneSymbol ==
  ASSUME NEW s \in Symbols, NEW p \in Nat
  PROVE  /\ <<s>> \in Seq(Symbols) /\ Len(<<s>>) = 1
         /\ \A f : Marks(<<s>>, p, f) => f[0] = p /\ f[1] = p + Len(Huffman[s])
         /\ \A d, f : Spelled(d, <<s>>, f) => Holds(d, f[0], Huffman[s])
<1> DEFINE c == <<s>>
<1>1. c \in Seq(Symbols) /\ Len(c) = 1 /\ c[1] = s
  OBVIOUS
<1> HIDE DEF c
<1>2. ASSUME NEW f, Marks(c, p, f) PROVE f[0] = p /\ f[1] = p + Len(Huffman[s])
  <2>1. f[0] = p /\ f[1] = f[1 - 1] + Len(Huffman[c[1]])
    BY <1>1, <1>2 DEF Marks
  <2> QED
    BY <1>1, <2>1
<1>3. ASSUME NEW d, NEW f, Spelled(d, c, f) PROVE Holds(d, f[0], Huffman[s])
  <2>1. Holds(d, f[1 - 1], Huffman[c[1]])
    BY <1>1, <1>3 DEF Spelled
  <2> QED
    BY <1>1, <2>1
<1> QED
  BY <1>1, <1>2, <1>3 DEF c

(* A byte is raw bits of no number and one symbol. *)
LEMMA ByteDigits ==
  ASSUME NEW s \in Symbols
  PROVE  Writable(Byte, s) /\ Low(Byte, s) = <<>> /\ High(Byte, s) = <<s>>
<1>1. Byte \in Nat \ {0} /\ Power[Byte] \in Nat \ {0} /\ s \in 0 .. Power[Byte] - 1
  BY Constants, PowerStep DEF Symbols
<1>2. Width(Byte) = Byte
  BY <1>1 DEF Width
<1>3. Raw(Byte) = 0 /\ Coded(Byte) = 1
  <2>1. Byte = Byte * 1 + 0 /\ 0 \in 0 .. Byte - 1
    BY <1>1
  <2>2. (Byte * 1 + 0) % Byte = 0 /\ (Byte * 1 + 0) \div Byte = 1
    BY <1>1, <2>1, DivisionIs
  <2> QED
    BY <1>2, <2>1, <2>2 DEF Raw, Coded
<1>4. Writable(Byte, s)
  <2>1. Raw(Byte) + LongestCode * Coded(Byte) = LongestCode
    BY <1>3, Constants
  <2> QED
    BY <1>1, <1>3, <2>1, BufferAssumption DEF Writable
<1>5. Low(Byte, s) = <<>>
  BY <1>1, <1>3, LowTyped
<1>6. High(Byte, s) = <<s>>
  <2>1. Sum(Low(Byte, s), 1) = s % Power[0]
    BY <1>1, <1>3, LowTyped
  <2> DEFINE h == (s % Power[Byte]) \div Power[0]
  <2>2. h = s
    <3>1. s % Power[Byte] = s
      BY <1>1
    <3>2. Power[0] = 1 /\ s \div 1 = s
      BY <1>1, PowerStep
    <3> QED
      BY <3>1, <3>2
  <2>3. High(Byte, s) = Digits(1, Byte, h)
    BY <1>2, <1>3 DEF High
  <2> HIDE DEF h
  <2>4. /\ Digits(1, Byte, s) \in Seq(0 .. Power[Byte] - 1) /\ Len(Digits(1, Byte, s)) = 1
        /\ Digits(1, Byte, s)[1] = (s \div Power[Byte * (1 - 1)]) % Power[Byte]
    <3>1. 1 \in Nat /\ Byte \in Nat /\ s \in Int /\ 1 \in 1 .. 1
      BY <1>1
    <3> QED
      BY <3>1, DigitsTyped, Zenon
  <2>5. Byte * (1 - 1) = 0 /\ Power[0] = 1 /\ s \div 1 = s /\ s % Power[Byte] = s
    <3>1. Byte * (1 - 1) = 0
      BY <1>1
    <3>2. Power[0] = 1
      BY PowerStep
    <3>3. s \div 1 = s /\ s % Power[Byte] = s
      BY <1>1
    <3> QED
      BY <3>1, <3>2, <3>3
  <2>6. Digits(1, Byte, s)[1] = s
    BY <2>4, <2>5
  <2> DEFINE c == Digits(1, Byte, s)
  <2>7. c = <<s>>
    <3>1. c \in Seq(0 .. Power[Byte] - 1) /\ Len(c) = 1 /\ c[1] = s
      BY <2>4, <2>6
    <3> HIDE DEF c
    <3> QED
      BY <3>1
  <2> QED
    BY <2>2, <2>3, <2>7
<1> QED
  BY <1>4, <1>5, <1>6

(* One symbol of a text. *)
WriteByte(m, s, fast) ==
  IF fast THEN FastWriteByte(m, s) ELSE WriteBits(m, Byte, s, FALSE)

(* Either form of writing a byte puts its symbol, if it fits. *)
LEMMA WriteByteRight ==
  ASSUME NEW m \in Writers, NEW s \in Symbols, NEW fast
  PROVE  LET e == WriteByte(m, s, fast)
         IN  /\ Moved(m, e)
             /\ ~ e.overflowed => /\ e.bit = m.bit + Len(Huffman[s])
                                  /\ Wrote(m.data, m.bit, Huffman[s], e.data)
<1> DEFINE e == WriteByte(m, s, fast)
           c == <<s>>
<1>1. m.data \in Data /\ m.bit \in Nat /\ Clean(m.data, m.bit)
  BY WriterTyped
<1>2. CASE ~ fast
  <2>1. e = WriteBits(m, Byte, s, FALSE)
    BY <1>2 DEF WriteByte
  <2> HIDE DEF e
  <2>2. /\ Moved(m, e)
        /\ ~ e.overflowed => Stored(e.data, m.bit, <<>>, c, e.bit)
    BY <2>1, ByteDigits, WriteBitsRight
  <2>3. ASSUME ~ e.overflowed
        PROVE  e.bit = m.bit + Len(Huffman[s]) /\ Wrote(m.data, m.bit, Huffman[s], e.data)
    <3>1. PICK f : Marks(c, m.bit + Len(<<>>), f) /\ f[Len(c)] = e.bit /\ Spelled(e.data, c, f)
      BY <2>2, <2>3 DEF Stored
    <3>2. m.bit + Len(<<>>) = m.bit /\ Len(c) = 1
      BY <1>1
    <3>3. e.bit = m.bit + Len(Huffman[s]) /\ Holds(e.data, m.bit, Huffman[s])
      <4> HIDE DEF c
      <4>1. Marks(c, m.bit, f) /\ f[1] = e.bit /\ Spelled(e.data, c, f)
        BY <3>1, <3>2
      <4> QED
        BY <1>1, <4>1, OneSymbol DEF c
    <3>4. e.data \in Data /\ SameBefore(m.data, e.data, m.bit) /\ Clean(e.data, e.bit)
      BY <2>2, WriterTyped DEF Moved
    <3> QED
      BY <3>3, <3>4 DEF Wrote
  <2> QED
    BY <2>2, <2>3 DEF e
<1>3. CASE fast /\ MaxSize - SizeAt(m.bit) < Reserve
  <2>1. e = [m EXCEPT !.cursize = SizeAt(m.bit), !.overflowed = TRUE]
    BY <1>3 DEF WriteByte, FastWriteByte
  <2> HIDE DEF e
  <2>2. Moved(m, e) /\ e.overflowed
    BY <1>3, <2>1, NoMore
  <2> QED
    BY <2>2 DEF e
<1>4. CASE fast /\ ~ (MaxSize - SizeAt(m.bit) < Reserve)
  <2> DEFINE put == PutSymbols(m.data, m.bit, c, TRUE)
  <2>1. e = [m EXCEPT !.data = put.data, !.bit = put.bit, !.cursize = SizeAt(put.bit)]
    BY <1>4 DEF WriteByte, FastWriteByte
  <2> HIDE DEF e, put
  <2>2. c \in Seq(Symbols) /\ Len(c) = 1
    OBVIOUS
  <2>3. PICK f : Marks(c, m.bit, f)
    <3> HIDE DEF c
    <3> QED
      BY <1>1, <2>2, MarksExist
  <2>4. f[0] = m.bit /\ f[1] = m.bit + Len(Huffman[s])
    BY <1>1, <2>3, OneSymbol
  <2>5. Len(Huffman[s]) \in Nat /\ Len(Huffman[s]) <= Byte * (Reserve + 2)
    <3>1. Len(Huffman[s]) \in Nat /\ Len(Huffman[s]) <= LongestCode
      BY CodesTyped
    <3>2. Byte * (Reserve + 2) \in Nat /\ LongestCode \in Nat
      BY Constants, SMT
    <3> QED
      BY <3>1, <3>2, BufferAssumption
  <2>6. m.bit + Len(Huffman[s]) < Capacity
    BY <1>1, <1>4, <2>5, Room
  <2>7. put.bit = f[1] /\ SymbolsWrote(m.data, m.bit, c, f, 1, put.data)
    <3>1. f[Len(c)] <= Capacity
      BY <1>1, <2>2, <2>4, <2>5, <2>6, Constants
    <3>2. /\ put.bit = f[Len(c)]
          /\ SymbolsWrote(m.data, m.bit, c, f, Len(c), put.data)
      <4> HIDE DEF c
      <4> QED
        BY <1>1, <2>2, <2>3, <3>1, PutSymbolsWrote DEF put
    <3> HIDE DEF c
    <3> QED
      BY <2>2, <3>2
  <2>8. put.data \in Data /\ SameBefore(m.data, put.data, m.bit) /\ Clean(put.data, put.bit)
        /\ Holds(put.data, m.bit, Huffman[s])
    <3>1. Holds(put.data, f[1 - 1], Huffman[c[1]]) /\ c[1] = s
      BY <2>7 DEF SymbolsWrote
    <3> QED
      BY <2>4, <2>7, <3>1 DEF SymbolsWrote
  <2>9. GoesOn(m, put.data, put.bit, e)
    BY <1>1, <1>4, <2>1, <2>4, <2>5, <2>6, <2>7, <2>8 DEF GoesOn
  <2>10. Moved(m, e) /\ e.data = put.data /\ e.bit = put.bit
    BY <2>9, OneMore
  <2>11. Wrote(m.data, m.bit, Huffman[s], e.data) /\ e.bit = m.bit + Len(Huffman[s])
    BY <2>4, <2>7, <2>8, <2>10 DEF Wrote
  <2> QED
    BY <2>10, <2>11 DEF e
<1> QED
  BY <1>2, <1>3, <1>4

WriteTextAt(m, text, fast, f, i) ==
  IF i = 0 THEN m ELSE WriteByte(f[i - 1], Said(text)[i], fast)
WriteTextUpTo(m, text, fast, f) ==
  f = [i \in 0 .. Len(Said(text)) |-> WriteTextAt(m, text, fast, f, i)]

(* A text is written byte by byte. *)
LEMMA WriteTextExists ==
  ASSUME NEW m \in Writers, NEW text \in Seq(Symbols \ {0}), NEW fast
  PROVE  \E f : /\ WriteTextUpTo(m, text, fast, f)
                /\ WriteText(m, text, fast) = f[Len(Said(text))]
<1> DEFINE s == Said(text)
           n == Len(s)
           nxt == [x \in (1 .. n) \X Writers |-> WriteByte(x[2], s[x[1]], fast)]
<1>1. n \in Nat /\ \A i \in 1 .. n : s[i] \in Symbols
  <2>1. s \in Seq(Symbols)
    BY SaidTyped
  <2> HIDE DEF s
  <2> QED
    BY <2>1
<1>2. nxt \in [(1 .. n) \X Writers -> Writers]
  <2> HIDE DEF n, s
  <2>1. ASSUME NEW i \in 1 .. n, NEW x \in Writers PROVE WriteByte(x, s[i], fast) \in Writers
    BY <1>1, WriteByteRight DEF Moved
  <2> QED
    BY <2>1
<1>3. PICK f \in [0 .. n -> Writers] : Recursive(f, n, m, nxt)
  <2> HIDE DEF nxt, n
  <2> QED
    BY <1>1, <1>2, Recursion
<1>4. WriteTextUpTo(m, text, fast, f)
  <2> HIDE DEF n
  <2>1. ASSUME NEW i \in 0 .. n PROVE f[i] = WriteTextAt(m, text, fast, f, i)
    <3>1. CASE i = 0
      BY <1>3, <3>1 DEF Recursive, WriteTextAt
    <3>2. CASE i # 0
      <4>1. i \in 1 .. n /\ i - 1 \in 0 .. n /\ f[i - 1] \in Writers
        BY <1>1, <1>3, <3>2
      <4>2. <<i, f[i - 1]>> \in (1 .. n) \X Writers
        BY <4>1
      <4>3. f[i] = nxt[<<i, f[i - 1]>>]
        BY <1>3, <4>1 DEF Recursive
      <4> QED
        BY <3>2, <4>2, <4>3 DEF WriteTextAt
    <3> QED
      BY <3>1, <3>2
  <2>2. f = [i \in 0 .. n |-> f[i]]
    BY <1>3
  <2> QED
    BY <2>1, <2>2 DEF WriteTextUpTo, n
<1> DEFINE g == CHOOSE h : WriteTextUpTo(m, text, fast, h)
<1>5. WriteTextUpTo(m, text, fast, g)
  BY <1>4
<1>6. WriteText(m, text, fast) = g[n]
  BY DEF WriteText, WriteTextUpTo, WriteTextAt, WriteByte
<1> QED
  BY <1>5, <1>6

(* A text is stored if all of it fits. *)
LEMMA WriteTextRight ==
  ASSUME NEW m \in Writers, NEW text \in Seq(Symbols \ {0}), NEW fast
  PROVE  LET e == WriteText(m, text, fast)
         IN  /\ Moved(m, e)
             /\ ~ e.overflowed => Stored(e.data, m.bit, <<>>, Said(text), e.bit)
<1> DEFINE s == Said(text)
           n == Len(s)
           d == m.data
           p == m.bit
<1>1. s \in Seq(Symbols) /\ n \in Nat /\ n >= 1
  BY SaidTyped
<1>2. d \in Data /\ p \in Nat /\ Clean(d, p)
  BY WriterTyped
<1>3. PICK g : WriteTextUpTo(m, text, fast, g) /\ WriteText(m, text, fast) = g[n]
  BY WriteTextExists
<1>4. \A i \in 0 .. n : g[i] = WriteTextAt(m, text, fast, g, i)
  BY <1>3 DEF WriteTextUpTo
<1>5. PICK f : Marks(s, p, f)
  <2> HIDE DEF s
  <2> QED
    BY <1>1, <1>2, MarksExist
<1> DEFINE Ok(i) == /\ g[i] \in Writers /\ p <= g[i].bit /\ SameBefore(d, g[i].data, p)
                    /\ m.overflowed => g[i].overflowed
                    /\ i > 0 => g[i].cursize = SizeAt(g[i].bit)
                    /\ ~ g[i].overflowed => /\ g[i].bit = f[i]
                                            /\ SymbolsWrote(d, p, s, f, i, g[i].data)
           T == {i \in 0 .. n : Ok(i)}
<1>6. 0 \in T
  <2>1. g[0] = m /\ f[0] = p /\ 0 \in 0 .. n
    BY <1>1, <1>4, <1>5 DEF WriteTextAt, Marks
  <2>2. SymbolsWrote(d, p, s, f, 0, d) /\ SameBefore(d, d, p)
    BY <1>2, <2>1 DEF SymbolsWrote, SameBefore
  <2> HIDE DEF s, n
  <2> QED
    BY <1>2, <2>1, <2>2
<1>7. ASSUME NEW i \in 1 .. n, i - 1 \in T PROVE i \in T
  <2> DEFINE a == g[i - 1]
             b == g[i]
             c == s[i]
  <2>1. Ok(i - 1)
    BY <1>7
  <2>2. i \in 0 .. n /\ i # 0 /\ c \in Symbols /\ i > 0
    <3> HIDE DEF s
    <3> QED
      BY <1>1
  <2>3. b = WriteByte(a, c, fast)
    <3>1. g[i] = WriteTextAt(m, text, fast, g, i)
      BY <1>4, <2>2
    <3> QED
      BY <2>2, <3>1 DEF WriteTextAt
  <2>4. /\ a \in Writers /\ p <= a.bit /\ SameBefore(d, a.data, p)
        /\ m.overflowed => a.overflowed
        /\ ~ a.overflowed => a.bit = f[i - 1] /\ SymbolsWrote(d, p, s, f, i - 1, a.data)
    BY <2>1
  <2> HIDE DEF a, b, c, s, n, d, p
  <2>5. /\ Moved(a, b)
        /\ ~ b.overflowed => /\ b.bit = a.bit + Len(Huffman[c])
                             /\ Wrote(a.data, a.bit, Huffman[c], b.data)
    BY <2>2, <2>3, <2>4, WriteByteRight
  <2>6. /\ b \in Writers /\ b.cursize = SizeAt(b.bit) /\ SameBefore(a.data, b.data, a.bit)
        /\ a.bit <= b.bit /\ (a.overflowed => b.overflowed)
    BY <2>5 DEF Moved
  <2>7. a.bit \in Nat /\ b.bit \in Nat
    BY <2>4, <2>6, WriterTyped
  <2>8. p <= b.bit /\ SameBefore(d, b.data, p)
    <3>1. \A k \in 0 .. p - 1 : k \in 0 .. a.bit - 1
      BY <1>2, <2>4, <2>7
    <3> QED
      BY <1>2, <2>4, <2>6, <2>7, <3>1 DEF SameBefore
  <2>9. ASSUME ~ b.overflowed
        PROVE  b.bit = f[i] /\ SymbolsWrote(d, p, s, f, i, b.data)
    <3>1. a.bit = f[i - 1] /\ SymbolsWrote(d, p, s, f, i - 1, a.data)
      BY <2>4, <2>6, <2>9
    <3>2. b.bit = f[i - 1] + Len(Huffman[s[i]]) /\ Wrote(a.data, f[i - 1], Huffman[s[i]], b.data)
      BY <2>5, <2>9, <3>1 DEF c
    <3>3. i \in 1 .. Len(s)
      BY DEF n
    <3>4. f[i] = f[i - 1] + Len(Huffman[s[i]])
      BY <1>5, <3>3 DEF Marks
    <3>5. SymbolsWrote(d, p, s, f, i, b.data)
      BY <1>1, <1>2, <1>5, <3>1, <3>2, <3>3, SymbolMore
    <3> QED
      BY <3>2, <3>4, <3>5
  <2>10. Ok(i)
    BY <2>4, <2>6, <2>8, <2>9 DEF b
  <2> QED
    BY <2>2, <2>10
<1>8. \A i \in 0 .. n : i \in T
  <2> HIDE DEF T, n
  <2> QED
    BY <1>1, <1>6, <1>7, Counting
<1>9. Ok(n) /\ n > 0
  BY <1>1, <1>8
<1> DEFINE e == g[n]
<1>10. Moved(m, e)
  BY <1>9 DEF Moved
<1>11. ASSUME ~ e.overflowed PROVE Stored(e.data, p, <<>>, s, e.bit)
  <2>1. e.bit = f[n] /\ SymbolsWrote(d, p, s, f, n, e.data) /\ e \in Writers
    BY <1>9, <1>11
  <2>2. e.bit <= Capacity
    BY <2>1, WriterTyped, Constants
  <2>3. p + Len(<<>>) = p
    BY <1>2
  <2>4. Marks(s, p + Len(<<>>), f) /\ f[Len(s)] = e.bit
    BY <1>5, <2>1, <2>3
  <2>5. Spelled(e.data, s, f) /\ Holds(e.data, p, <<>>)
    BY <2>1 DEF SymbolsWrote, Spelled, Holds
  <2> HIDE DEF s, e
  <2> QED
    BY <2>2, <2>4, <2>5 DEF Stored
<1> QED
  BY <1>3, <1>10, <1>11

-----------------------------------------------------------------------------
(* The invariant. *)

Entries ==
  {[bits |-> w.bits, what |-> w.value, fits |-> x] : w \in Values, x \in BOOLEAN}
    \cup {[bits |-> 0, what |-> text, fits |-> x] : text \in Texts, x \in BOOLEAN}

LowOf(w) == IF w.bits = 0 THEN <<>> ELSE Low(w.bits, w.what)
SymsOf(w) == IF w.bits = 0 THEN Said(w.what) ELSE High(w.bits, w.what)

(* What was written is from p to q. *)
Kept(d, p, w, q) == Stored(d, p, LowOf(w), SymsOf(w), q)

(* What fitted is kept between the places that at tells. *)
History(at) ==
  /\ at \in [0 .. Len(writes) -> Nat] /\ at[0] = 0
  /\ \A i \in 1 .. Len(writes) :
       writes[i].fits => Kept(writer.data, at[i - 1], writes[i], at[i]) /\ at[i] <= writer.bit
  /\ ~ writer.overflowed => at[Len(writes)] = writer.bit

(* Once something does not fit nothing does. *)
FitsInv ==
  /\ ~ writer.overflowed => \A i \in 1 .. Len(writes) : writes[i].fits
  /\ \A i, j \in 1 .. Len(writes) : i < j /\ writes[j].fits => writes[i].fits
  /\ writes # <<>> => writer.cursize = SizeAt(writer.bit)

(* The rest of the last byte. *)
Slack ==
  IF extra = NotExtra
  THEN \A k \in 0 .. Capacity - 1 :
         k >= writer.bit /\ ByteOf(k) = ByteOf(writer.bit) => reader.data[k] = 0
  ELSE /\ writer.bit % Byte = 0 /\ extra \in Symbols
       /\ \A k \in 0 .. Capacity - 1 :
            ByteOf(k) = ByteOf(writer.bit) => reader.data[k] = (extra \div Power[k % Byte]) % 2

MessageInv ==
  IF Writing THEN reads = <<>> /\ reader.bit = 0
  ELSE /\ writes # <<>> /\ reader.data \in Data
       /\ SameBefore(writer.data, reader.data, writer.bit) /\ Slack

(* The reader is behind what it read last, if that fitted. *)
ReaderAt(at) ==
  /\ Len(reads) = 0 => reader.bit = at[0]
  /\ Len(reads) > 0 /\ writes[Len(reads)].fits =>
       reader.bit = at[Len(reads)] /\ reader.readcount = SizeAt(at[Len(reads)])

(* A reader's msg_t. *)
IsReader(m) == m = [data |-> m.data, bit |-> m.bit, readcount |-> m.readcount]

TypeInv ==
  /\ writer \in Writers /\ writes \in Seq(Entries)
  /\ (\E S : reads \in Seq(S)) /\ Len(reads) <= Len(writes)
  /\ IsReader(reader)

BufferInv ==
  /\ TypeInv /\ FitsInv /\ MessageInv /\ ReadBack
  /\ \E at : History(at) /\ ReaderAt(at)

-----------------------------------------------------------------------------
(* Its steps. *)

(* What is written is a value or a text. *)
LEMMA EntryTyped ==
  ASSUME NEW w \in Entries
  PROVE  /\ w.bits # 0 => Writable(w.bits, w.what)
         /\ w.bits = 0 => w.what \in Seq(Symbols \ {0})
         /\ LowOf(w) \in Seq(Bits) /\ Len(LowOf(w)) \in Nat /\ SymsOf(w) \in Seq(Symbols)
         /\ w.fits \in BOOLEAN
<1>1. CASE \E v \in Values, x \in BOOLEAN : w = [bits |-> v.bits, what |-> v.value, fits |-> x]
  <2>1. PICK v \in Values, x \in BOOLEAN : w = [bits |-> v.bits, what |-> v.value, fits |-> x]
    BY <1>1
  <2>2. w.bits = v.bits /\ w.what = v.value /\ w.fits \in BOOLEAN
    BY <2>1
  <2>3. v.bits \in Int \ {0} /\ v.value \in Int /\ Writable(v.bits, v.value)
    BY BufferAssumption DEF Writable
  <2>4. w.bits \in Int \ {0} /\ w.what \in Int /\ Writable(w.bits, w.what)
    BY <2>2, <2>3
  <2>5. LowOf(w) = Low(w.bits, w.what) /\ SymsOf(w) = High(w.bits, w.what)
    BY <2>4 DEF LowOf, SymsOf
  <2> QED
    BY <2>2, <2>4, <2>5, LowTyped, HighTyped, Widths
<1>2. CASE \E text \in Texts, x \in BOOLEAN : w = [bits |-> 0, what |-> text, fits |-> x]
  <2>1. PICK text \in Texts, x \in BOOLEAN : w = [bits |-> 0, what |-> text, fits |-> x]
    BY <1>2
  <2>2. w.bits = 0 /\ w.what \in Seq(Symbols \ {0}) /\ w.fits \in BOOLEAN
    BY <2>1, BufferAssumption
  <2>3. LowOf(w) = <<>> /\ SymsOf(w) = Said(w.what)
    BY <2>2 DEF LowOf, SymsOf
  <2>4. Said(w.what) \in Seq(Symbols)
    BY <2>2, SaidTyped
  <2> QED
    BY <2>2, <2>3, <2>4
<1> QED
  BY <1>1, <1>2 DEF Entries

(* What is kept stays when what is before r is the same. *)
LEMMA KeptSame ==
  ASSUME NEW w \in Entries, NEW p \in Nat, NEW q \in Nat, NEW r \in Nat, q <= r,
         NEW d, NEW e, Kept(d, p, w, q), SameBefore(d, e, r)
  PROVE  Kept(e, p, w, q)
<1> DEFINE l == LowOf(w)
           s == SymsOf(w)
<1>1. l \in Seq(Bits) /\ Len(l) \in Nat /\ s \in Seq(Symbols)
  BY EntryTyped
<1> HIDE DEF l, s
<1>2. q <= Capacity /\ Holds(d, p, l)
  BY DEF Kept, Stored, l
<1>3. PICK f : Marks(s, p + Len(l), f) /\ f[Len(s)] = q /\ Spelled(d, s, f)
  BY DEF Kept, Stored, l, s
<1>4. /\ Len(s) \in Nat
      /\ \A i \in 0 .. Len(s) : f[i] \in Nat /\ p + Len(l) <= f[i] /\ f[i] <= q
  BY <1>1, <1>3, MarksBound
<1>5. Holds(e, p, l)
  <2>1. \A i \in 1 .. Len(l) : p + (i - 1) \in 0 .. r - 1
    <3>1. 0 \in 0 .. Len(s)
      BY <1>4
    <3>2. p + Len(l) <= q
      <4>1. f[0] \in Nat /\ p + Len(l) <= f[0] /\ f[0] <= q
        BY <1>4, <3>1
      <4> QED
        BY <1>1, <4>1
    <3> QED
      BY <1>1, <3>2
  <2> QED
    BY <1>2, <2>1 DEF Holds, SameBefore
<1>6. ASSUME NEW i \in 1 .. Len(s) PROVE Holds(e, f[i - 1], Huffman[s[i]])
  <2>1. i - 1 \in 0 .. Len(s) /\ i \in 0 .. Len(s) /\ s[i] \in Symbols
    BY <1>1, <1>4
  <2> DEFINE c == Huffman[s[i]]
  <2>2. Holds(d, f[i - 1], c)
    BY <1>3 DEF Spelled
  <2>3. f[i] = f[i - 1] + Len(c)
    BY <1>3 DEF Marks
  <2>4. f[i - 1] \in Nat /\ f[i] <= q /\ f[i] \in Nat /\ Len(c) \in Nat
    BY <1>4, <2>1, CodesTyped
  <2> HIDE DEF c
  <2>5. \A j \in 1 .. Len(c) : f[i - 1] + (j - 1) \in 0 .. r - 1
    <3>1. f[i - 1] + Len(c) <= r
      BY <2>3, <2>4
    <3> QED
      BY <2>4, <3>1, PlacesBelow, Zenon
  <2>6. Holds(e, f[i - 1], c)
    BY <2>2, <2>5 DEF Holds, SameBefore
  <2> QED
    BY <2>6 DEF c
<1>7. Spelled(e, s, f)
  BY <1>6 DEF Spelled
<1> QED
  BY <1>2, <1>3, <1>5, <1>7 DEF Kept, Stored, l, s

(* The invariant holds at the start. *)
LEMMA BufferInitInv == BufferInit => BufferInv
<1> SUFFICES ASSUME BufferInit PROVE BufferInv
  OBVIOUS
<1>1. PICK b \in Bits : writer = [data |-> [k \in 0 .. Capacity - 1 |-> b], bit |-> 0,
                                  cursize |-> 0, overflowed |-> FALSE]
  BY DEF BufferInit
<1>2. /\ writes = <<>> /\ message = NoMessage /\ extra = NotExtra /\ reads = <<>>
      /\ reader = [data |-> <<>>, bit |-> 0, readcount |-> 0]
  BY DEF BufferInit
<1>3. writer \in Writers
  <2>1. Clean([k \in 0 .. Capacity - 1 |-> b], 0)
    <3>1. 0 % Byte = 0
      BY Constants, SMT
    <3> QED
      BY <3>1 DEF Clean
  <2>2. writer \in [data : Data, bit : 0 .. Capacity - 1, cursize : Nat, overflowed : BOOLEAN]
    BY <1>1, Constants DEF Data
  <2> QED
    BY <1>1, <2>1, <2>2 DEF Writers
<1>4. TypeInv
  <2>1. Len(reads) = 0 /\ Len(writes) = 0 /\ reads \in Seq({}) /\ writes \in Seq(Entries)
    BY <1>2
  <2>2. IsReader(reader)
    BY <1>2 DEF IsReader
  <2> QED
    BY <1>3, <2>1, <2>2 DEF TypeInv
<1>5. FitsInv
  BY <1>2 DEF FitsInv
<1>6. MessageInv
  BY <1>2 DEF MessageInv, Writing
<1>7. ReadBack
  BY <1>2 DEF ReadBack
<1> DEFINE at == [i \in 0 .. 0 |-> 0]
<1>8. History(at)
  BY <1>1, <1>2 DEF History
<1>9. ReaderAt(at)
  BY <1>2 DEF ReaderAt
<1> QED
  BY <1>4, <1>5, <1>6, <1>7, <1>8, <1>9 DEF BufferInv

(* A write of w, whichever it is. *)
Records(w) ==
  /\ Writing /\ Moved(writer, writer')
  /\ w.fits <=> ~ writer'.overflowed
  /\ w.fits => Kept(writer'.data, writer.bit, w, writer'.bit)
  /\ writes' = Append(writes, w)
  /\ UNCHANGED <<message, extra, reader, reads>>

(* A write keeps the invariant. *)
LEMMA WriteInv ==
  ASSUME BufferInv, NEW w \in Entries, Records(w)
  PROVE  BufferInv'
<1> DEFINE n == Len(writes)
<1>1. /\ writer \in Writers /\ writes \in Seq(Entries)
      /\ n \in Nat /\ reads = <<>> /\ Len(reads) = 0 /\ reader.bit = 0
      /\ IsReader(reader)
  BY DEF BufferInv, TypeInv, MessageInv, Records
<1>2. /\ writer' \in Writers /\ writer'.cursize = SizeAt(writer'.bit)
      /\ SameBefore(writer.data, writer'.data, writer.bit) /\ writer.bit <= writer'.bit
      /\ writer.overflowed => writer'.overflowed
  BY DEF Records, Moved
<1>3. /\ w.fits <=> ~ writer'.overflowed
      /\ w.fits => Kept(writer'.data, writer.bit, w, writer'.bit)
      /\ writes' = Append(writes, w) /\ reader' = reader /\ reads' = reads
      /\ Writing /\ Writing'
  BY DEF Records, Writing
<1>4. /\ Len(writes') = n + 1 /\ writes' \in Seq(Entries) /\ writes'[n + 1] = w
      /\ \A i \in 1 .. n : writes'[i] = writes[i]
  BY <1>1, <1>3
<1>5. writer.bit \in Nat /\ writer'.bit \in Nat
  BY <1>1, <1>2, WriterTyped
<1>6. TypeInv'
  BY <1>1, <1>2, <1>3, <1>4 DEF TypeInv
<1>7. FitsInv'
  <2>1. ASSUME ~ writer'.overflowed, NEW i \in 1 .. n PROVE writes[i].fits
    BY <1>2, <2>1 DEF BufferInv, FitsInv
  <2>2. \A i, j \in 1 .. n : i < j /\ writes[j].fits => writes[i].fits
    BY DEF BufferInv, FitsInv
  <2>3. ASSUME ~ writer'.overflowed, NEW i \in 1 .. n + 1 PROVE writes'[i].fits
    <3>1. CASE i = n + 1
      BY <1>3, <1>4, <2>3, <3>1
    <3>2. CASE i # n + 1
      <4>1. i \in 1 .. n
        BY <1>1, <3>2
      <4> QED
        BY <1>4, <2>1, <2>3, <4>1
    <3> QED
      BY <3>1, <3>2
  <2>4. ASSUME NEW i \in 1 .. n + 1, NEW j \in 1 .. n + 1, i < j, writes'[j].fits
        PROVE  writes'[i].fits
    <3>1. i \in 1 .. n
      BY <1>1, <2>4
    <3>2. CASE j = n + 1
      BY <1>3, <1>4, <2>1, <2>4, <3>1, <3>2
    <3>3. CASE j # n + 1
      <4>1. j \in 1 .. n
        BY <1>1, <3>3
      <4> QED
        BY <1>4, <2>2, <2>4, <3>1, <4>1
    <3> QED
      BY <3>2, <3>3
  <2> QED
    BY <1>2, <1>4, <2>3, <2>4 DEF FitsInv
<1>8. MessageInv'
  BY <1>1, <1>3 DEF MessageInv
<1>9. ReadBack'
  BY <1>1, <1>3 DEF ReadBack
<1>10. PICK at : History(at) /\ ReaderAt(at)
  BY DEF BufferInv
<1>11. /\ at \in [0 .. n -> Nat] /\ at[0] = 0
       /\ \A i \in 1 .. n :
            writes[i].fits => Kept(writer.data, at[i - 1], writes[i], at[i]) /\ at[i] <= writer.bit
       /\ ~ writer.overflowed => at[n] = writer.bit
  BY <1>10 DEF History
<1>12. PICK to : /\ to \in [0 .. n + 1 -> Nat] /\ to[0] = 0 /\ to[n + 1] = writer'.bit
                 /\ \A i \in 0 .. n : to[i] = at[i]
  <2> DEFINE f == [i \in 0 .. n + 1 |-> IF i = n + 1 THEN writer'.bit ELSE at[i]]
  <2>1. f \in [0 .. n + 1 -> Nat] /\ f[0] = 0 /\ f[n + 1] = writer'.bit
        /\ \A i \in 0 .. n : f[i] = at[i]
    BY <1>1, <1>5, <1>11
  <2> QED
    BY <2>1
<1> HIDE DEF n
<1>13. ASSUME NEW i \in 1 .. n + 1, writes'[i].fits
       PROVE  Kept(writer'.data, to[i - 1], writes'[i], to[i]) /\ to[i] <= writer'.bit
  <2>1. CASE i = n + 1
    <3>1. w.fits /\ ~ writer'.overflowed /\ ~ writer.overflowed
      BY <1>2, <1>3, <1>4, <1>13, <2>1
    <3>2. to[i - 1] = writer.bit /\ to[i] = writer'.bit
      <4>1. i - 1 = n /\ n \in 0 .. n
        BY <1>1, <2>1
      <4> QED
        BY <1>11, <1>12, <2>1, <3>1, <4>1
    <3> QED
      BY <1>3, <1>4, <1>5, <2>1, <3>1, <3>2
  <2>2. CASE i # n + 1
    <3>1. i \in 1 .. n /\ i - 1 \in 0 .. n /\ i \in 0 .. n
      BY <1>1, <2>2
    <3>2. writes[i].fits /\ writes'[i] = writes[i] /\ writes[i] \in Entries
      BY <1>1, <1>4, <1>13, <3>1 DEF n
    <3>3. Kept(writer.data, at[i - 1], writes[i], at[i]) /\ at[i] <= writer.bit
          /\ at[i - 1] \in Nat /\ at[i] \in Nat
      BY <1>11, <3>1, <3>2
    <3>4. Kept(writer'.data, at[i - 1], writes[i], at[i])
      BY <1>2, <1>5, <3>2, <3>3, KeptSame
    <3> QED
      BY <1>2, <1>5, <1>12, <3>1, <3>2, <3>3, <3>4
  <2> QED
    BY <2>1, <2>2
<1>14. History(to)'
  BY <1>4, <1>12, <1>13 DEF History
<1>15. ReaderAt(to)'
  BY <1>1, <1>3, <1>12 DEF ReaderAt
<1> QED
  BY <1>6, <1>7, <1>8, <1>9, <1>14, <1>15 DEF BufferInv

(* MSG_WriteBits keeps it. *)
LEMMA WriteValueInv ==
  ASSUME BufferInv, NEW w \in Values, NEW fast \in BOOLEAN, WriteValue(w, fast)
  PROVE  BufferInv'
<1>1. PICK x \in BOOLEAN : x <=> ~ writer'.overflowed
  OBVIOUS
<1> DEFINE e == [bits |-> w.bits, what |-> w.value, fits |-> x]
<1>2. e \in Entries
  BY DEF Entries
<1>3. e.bits = w.bits /\ e.what = w.value /\ e.fits = x /\ w.bits \in Int \ {0}
      /\ Writable(w.bits, w.value)
  BY BufferAssumption DEF Writable
<1>4. writer \in Writers
  BY DEF BufferInv, TypeInv
<1>5. writer' = WriteBits(writer, w.bits, w.value, fast)
  BY DEF WriteValue
<1>6. /\ Moved(writer, writer')
      /\ ~ writer'.overflowed =>
           Stored(writer'.data, writer.bit, Low(w.bits, w.value), High(w.bits, w.value), writer'.bit)
  BY <1>3, <1>4, <1>5, WriteBitsRight
<1>7. LowOf(e) = Low(w.bits, w.value) /\ SymsOf(e) = High(w.bits, w.value)
  BY <1>3 DEF LowOf, SymsOf
<1>8. writes' = Append(writes, e)
  <2>1. writes' = Append(writes, [bits |-> w.bits, what |-> w.value,
                                  fits |-> ~ writer'.overflowed])
    BY DEF WriteValue
  <2>2. x = (~ writer'.overflowed)
    BY <1>1
  <2> QED
    BY <2>1, <2>2
<1> HIDE DEF e
<1>9. Records(e)
  BY <1>1, <1>3, <1>6, <1>7, <1>8 DEF Records, Kept, WriteValue
<1> QED
  BY <1>2, <1>9, WriteInv

(* MSG_WriteString keeps it. *)
LEMMA WriteStringInv ==
  ASSUME BufferInv, NEW text \in Texts, NEW fast \in BOOLEAN, WriteString(text, fast)
  PROVE  BufferInv'
<1>1. PICK x \in BOOLEAN : x <=> ~ writer'.overflowed
  OBVIOUS
<1> DEFINE e == [bits |-> 0, what |-> text, fits |-> x]
<1>2. e \in Entries
  BY DEF Entries
<1>3. e.bits = 0 /\ e.what = text /\ e.fits = x /\ text \in Seq(Symbols \ {0})
  BY BufferAssumption
<1>4. writer \in Writers
  BY DEF BufferInv, TypeInv
<1>5. writer' = WriteText(writer, text, fast)
  BY DEF WriteString
<1>6. /\ Moved(writer, writer')
      /\ ~ writer'.overflowed =>
           Stored(writer'.data, writer.bit, <<>>, Said(text), writer'.bit)
  BY <1>3, <1>4, <1>5, WriteTextRight
<1>7. LowOf(e) = <<>> /\ SymsOf(e) = Said(text)
  BY <1>3 DEF LowOf, SymsOf
<1>8. writes' = Append(writes, e)
  <2>1. writes' = Append(writes, [bits |-> 0, what |-> text, fits |-> ~ writer'.overflowed])
    BY DEF WriteString
  <2>2. x = (~ writer'.overflowed)
    BY <1>1
  <2> QED
    BY <2>1, <2>2
<1> HIDE DEF e
<1>9. Records(e)
  BY <1>1, <1>3, <1>6, <1>7, <1>8 DEF Records, Kept, WriteString
<1> QED
  BY <1>2, <1>9, WriteInv

(* Writing the message out, with what goes into its last byte, keeps it. *)
LEMMA DeliverInv ==
  ASSUME BufferInv, NEW x \in Symbols, NEW garbage \in Bits, Deliver(x, garbage)
  PROVE  BufferInv'
<1> DEFINE p == writer.bit
           B == ByteOf(p)
           d == writer.data
           e == [k \in DOMAIN d |-> IF k < Byte * writer.cursize THEN Filled(x)[k] ELSE garbage]
<1>1. /\ writer \in Writers /\ writes \in Seq(Entries) /\ writes # <<>>
      /\ reads = <<>> /\ Len(reads) = 0 /\ reader.bit = 0
      /\ IsReader(reader)
      /\ writer.cursize = SizeAt(p)
  BY DEF BufferInv, TypeInv, FitsInv, MessageInv, Deliver
<1>2. /\ d \in Data /\ p \in Nat /\ p < Capacity /\ Clean(d, p) /\ DOMAIN d = 0 .. Capacity - 1
      /\ \A k \in 0 .. Capacity - 1 : d[k] \in Bits
  BY <1>1, WriterTyped DEF Data
<1>3. /\ writer' = writer /\ writes' = writes /\ reads' = reads
      /\ reader' = [reader EXCEPT !.data = e]
      /\ extra' = IF p % Byte = 0 THEN x ELSE NotExtra
  BY DEF Deliver
<1>4. writer.cursize = B + 1 /\ B \in Nat /\ p = Byte * B + (p % Byte) /\ p % Byte \in 0 .. Byte - 1
  BY <1>1, <1>2, Bytes DEF SizeAt
<1>5. Byte * writer.cursize = Byte * B + Byte /\ Byte * B \in Nat
  <2>1. \A a, c \in Nat : a * (c + 1) = a * c + a /\ a * c \in Nat
    BY SMT
  <2> QED
    BY <1>4, <2>1, Constants
<1> DEFINE In(k) == ByteOf(k) = B
<1>6. ASSUME NEW k \in 0 .. Capacity - 1
      PROVE  /\ In(k) => k < Byte * writer.cursize
             /\ k < p => k < Byte * writer.cursize /\ ~ (p % Byte = 0 /\ In(k))
             /\ k \in Nat
  <2>1. /\ k \in Nat /\ ByteOf(k) \in Nat /\ k = Byte * ByteOf(k) + (k % Byte)
        /\ k % Byte \in 0 .. Byte - 1
    <3>1. k \in Nat
      BY Constants
    <3> QED
      BY <3>1, Bytes
  <2>2. k < p /\ p % Byte = 0 => ByteOf(k) # B
    BY <1>2, <1>4, <2>1, LaterByte
  <2>3. ByteOf(k) = B => k < Byte * B + Byte
    BY <1>5, <2>1, Constants
  <2>4. p < Byte * B + Byte
    BY <1>4, <1>5, Constants
  <2>5. k < p => k < Byte * writer.cursize
    <3>1. p < Byte * writer.cursize /\ Byte * writer.cursize \in Nat
      BY <1>5, <2>4, Constants
    <3> QED
      BY <1>2, <2>1, <3>1
  <2> QED
    BY <1>5, <2>1, <2>2, <2>3, <2>5
<1>7. ASSUME NEW k \in 0 .. Capacity - 1
      PROVE  e[k] = IF k < Byte * writer.cursize
                    THEN IF p % Byte = 0 /\ In(k) THEN (x \div Power[k % Byte]) % 2 ELSE d[k]
                    ELSE garbage
  <2>1. Filled(x)[k] = IF p % Byte = 0 /\ In(k) THEN (x \div Power[k % Byte]) % 2 ELSE d[k]
    BY <1>2, <1>4 DEF Filled
  <2> QED
    BY <1>2, <2>1
<1>8. e \in Data
  <2>1. ASSUME NEW k \in 0 .. Capacity - 1 PROVE e[k] \in Bits
    <3>1. (x \div Power[k % Byte]) % 2 \in Bits
      <4>1. k % Byte \in Nat /\ x \in Int
        BY Constants, Bytes DEF Symbols
      <4>2. Power[k % Byte] \in Nat \ {0}
        BY <4>1, PowerStep
      <4>3. x \div Power[k % Byte] \in Int
        BY <4>1, <4>2, Division
      <4> QED
        BY <4>3 DEF Bits
    <3> HIDE DEF e
    <3> QED
      BY <1>2, <1>7, <3>1
  <2>2. e = [k \in 0 .. Capacity - 1 |-> e[k]]
    BY <1>2
  <2> HIDE DEF e
  <2> QED
    BY <2>1, <2>2 DEF Data
<1> HIDE DEF e
<1>9. SameBefore(d, e, p)
  <2>1. ASSUME NEW k \in 0 .. p - 1 PROVE e[k] = d[k]
    <3>1. k \in 0 .. Capacity - 1 /\ k < p
      BY <1>2, Constants
    <3> QED
      BY <1>6, <1>7, <3>1
  <2> QED
    BY <2>1 DEF SameBefore
<1>10. reader'.data = e /\ reader'.bit = 0 /\ IsReader(reader')
  <2>1. reader \in [data : {reader.data}, bit : {0}, readcount : {reader.readcount}]
    BY <1>1 DEF IsReader
  <2>2. reader' \in [data : {e}, bit : {0}, readcount : {reader.readcount}]
    BY <1>3, <2>1
  <2> QED
    BY <2>2 DEF IsReader
<1>11. Slack'
  <2>1. CASE p % Byte = 0
    <3>1. extra' = x /\ x # NotExtra
      BY <1>3, <2>1, PowerStep, Constants DEF Symbols, NotExtra
    <3>2. ASSUME NEW k \in 0 .. Capacity - 1, ByteOf(k) = ByteOf(p)
          PROVE  e[k] = (x \div Power[k % Byte]) % 2
      BY <1>6, <1>7, <2>1, <3>2
    <3> QED
      BY <1>3, <1>10, <2>1, <3>1, <3>2 DEF Slack
  <2>2. CASE p % Byte # 0
    <3>1. extra' = NotExtra
      BY <1>3, <2>2
    <3>2. ASSUME NEW k \in 0 .. Capacity - 1, k >= p, ByteOf(k) = ByteOf(p)
          PROVE  e[k] = 0
      <4>1. d[k] = 0
        BY <1>2, <2>2, <3>2 DEF Clean
      <4> QED
        BY <1>6, <1>7, <2>2, <3>2, <4>1
    <3> QED
      BY <1>3, <1>10, <3>1, <3>2 DEF Slack
  <2> QED
    BY <2>1, <2>2
<1>12. MessageInv'
  <2>1. reads' = <<>> /\ reader'.bit = 0
    BY <1>1, <1>3, <1>10
  <2>2. writes' # <<>> /\ reader'.data \in Data /\ SameBefore(writer'.data, reader'.data, writer'.bit)
    BY <1>1, <1>3, <1>8, <1>9, <1>10
  <2> QED
    BY <1>11, <2>1, <2>2 DEF MessageInv
<1>13. TypeInv'
  BY <1>1, <1>3, <1>10 DEF TypeInv, BufferInv
<1>14. FitsInv'
  BY <1>3 DEF FitsInv, BufferInv
<1>15. ReadBack'
  BY <1>1, <1>3 DEF ReadBack
<1>16. PICK at : History(at) /\ ReaderAt(at)
  BY DEF BufferInv
<1>17. History(at)'
  BY <1>3, <1>16 DEF History
<1>18. ReaderAt(at)'
  <2>1. reader.bit = at[0]
    BY <1>1, <1>16 DEF ReaderAt
  <2> QED
    BY <1>1, <1>3, <1>10, <2>1 DEF ReaderAt
<1> QED
  BY <1>12, <1>13, <1>14, <1>15, <1>17, <1>18 DEF BufferInv

(* Reading leaves the data alone. *)
LEMMA ReadKeeps ==
  ASSUME NEW m, IsReader(m), NEW p, NEW c, NEW e, Went(m, e, p, c)
  PROVE  e.data = m.data /\ e.bit = p /\ e.readcount = c /\ IsReader(e)
<1>1. m \in [data : {m.data}, bit : {m.bit}, readcount : {m.readcount}]
  BY DEF IsReader
<1>2. e.data = m.data /\ e.bit = p /\ e.readcount = c
  BY <1>1 DEF Went
<1>3. e \in [data : {m.data}, bit : {p}, readcount : {c}]
  BY <1>1 DEF Went
<1> QED
  BY <1>2, <1>3 DEF IsReader

(* What Read reads of something that fitted. *)
LEMMA ReadRight ==
  ASSUME TypeInv, NEW w \in Entries, NEW q \in Nat, reader.data \in Data, reader.bit \in Nat,
         Kept(reader.data, reader.bit, w, q), SizeAt(q) <= writer.cursize
  PROVE  LET r == IF w.bits # 0 THEN ReadBits(reader, w.bits)
                  ELSE ReadText(reader, writer.cursize)
         IN  /\ r.value = Returned(w)
             /\ WentTo(reader, r.msg, q)
<1>1. CASE w.bits # 0
  <2>1. /\ w.bits \in Int \ {0} /\ w.what \in Int /\ (w.bits < 0 => Raw(w.bits) = 0)
    BY <1>1, EntryTyped DEF Writable
  <2>2. Stored(reader.data, reader.bit, Low(w.bits, w.what), High(w.bits, w.what), q)
    BY <1>1 DEF Kept, LowOf, SymsOf
  <2>3. /\ ReadBits(reader, w.bits).value = Back(w.bits, w.what)
        /\ WentTo(reader, ReadBits(reader, w.bits).msg, q)
    BY <2>1, <2>2, ReadBitsRight
  <2>4. Returned(w) = Back(w.bits, w.what)
    <3>1. ~ (w.bits < 0) => w.bits > 0
      BY <2>1
    <3> QED
      BY <3>1 DEF Returned, Back
  <2> QED
    BY <1>1, <2>3, <2>4
<1>2. CASE w.bits = 0
  <2>1. w.what \in Seq(Symbols \ {0})
    BY <1>2, EntryTyped
  <2>2. Stored(reader.data, reader.bit, <<>>, Said(w.what), q)
    BY <1>2 DEF Kept, LowOf, SymsOf
  <2>3. writer.cursize \in Int
    BY WriterTyped DEF TypeInv
  <2>4. /\ ReadText(reader, writer.cursize).value = Heard(w.what)
        /\ WentTo(reader, ReadText(reader, writer.cursize).msg, q)
    BY <2>1, <2>2, <2>3, ReadTextRight
  <2>5. Returned(w) = Heard(w.what)
    BY <1>2 DEF Returned, Heard
  <2> QED
    BY <1>2, <2>4, <2>5
<1> QED
  BY <1>1, <1>2

(* Reading keeps it. *)
LEMMA ReadInv ==
  ASSUME BufferInv, Read
  PROVE  BufferInv'
<1> DEFINE n == Len(reads)
           w == writes[n + 1]
           r == IF w.bits # 0 THEN ReadBits(reader, w.bits)
                ELSE ReadText(reader, writer.cursize)
<1>1. /\ ~ Writing /\ n < Len(writes) /\ reader' = r.msg /\ reads' = Append(reads, r.value)
      /\ writer' = writer /\ writes' = writes /\ message' = message /\ extra' = extra
  BY DEF Read
<1>2. /\ writer \in Writers /\ writes \in Seq(Entries) /\ n \in Nat /\ Len(writes) \in Nat
      /\ IsReader(reader)
  BY DEF BufferInv, TypeInv
<1>3. /\ writes # <<>> /\ reader.data \in Data
      /\ SameBefore(writer.data, reader.data, writer.bit) /\ Slack
  BY <1>1 DEF BufferInv, MessageInv
<1>4. n + 1 \in 1 .. Len(writes) /\ w \in Entries
  BY <1>1, <1>2
<1>5. PICK S : reads \in Seq(S)
  BY DEF BufferInv, TypeInv
<1>6. /\ Len(reads') = n + 1 /\ reads'[n + 1] = r.value
      /\ \A i \in 1 .. n : reads'[i] = reads[i]
      /\ reads' \in Seq(S \cup {r.value}) /\ DOMAIN reads' = 1 .. n + 1 /\ DOMAIN reads = 1 .. n
  <2> DEFINE v == r.value
  <2>1. reads' = Append(reads, v) /\ reads \in Seq(S \cup {v}) /\ v \in S \cup {v}
    BY <1>1, <1>5
  <2> HIDE DEF v
  <2>2. /\ Len(reads') = n + 1 /\ reads'[n + 1] = v
        /\ \A i \in 1 .. n : reads'[i] = reads[i]
        /\ reads' \in Seq(S \cup {v}) /\ DOMAIN reads' = 1 .. n + 1 /\ DOMAIN reads = 1 .. n
    BY <1>5, <2>1
  <2> QED
    BY <2>2 DEF v
<1>7. PICK at : History(at) /\ ReaderAt(at)
  BY DEF BufferInv
<1>8. /\ at \in [0 .. Len(writes) -> Nat] /\ at[0] = 0
      /\ \A i \in 1 .. Len(writes) :
           writes[i].fits => Kept(writer.data, at[i - 1], writes[i], at[i]) /\ at[i] <= writer.bit
  BY <1>7 DEF History
<1>9. \E p, c : Went(reader, r.msg, p, c)
  <2>1. CASE w.bits # 0
    <3>1. \E p, c : Went(reader, ReadBits(reader, w.bits).msg, p, c)
      BY Zenon DEF ReadBits, Went
    <3> QED
      BY <2>1, <3>1
  <2>2. CASE w.bits = 0
    <3>1. \E p, c : Went(reader, ReadText(reader, writer.cursize).msg, p, c)
      BY Zenon DEF ReadText, Went
    <3> QED
      BY <2>2, <3>1
  <2> QED
    BY <2>1, <2>2
<1> HIDE DEF r, w
<1>10. /\ reader'.data = reader.data
       /\ IsReader(reader')
  <2>1. PICK p, c : Went(reader, r.msg, p, c)
    BY <1>9
  <2> QED
    BY <1>1, <1>2, <2>1, ReadKeeps
<1>11. ASSUME w.fits
       PROVE  r.value = Returned(w) /\ reader'.bit = at[n + 1]
              /\ reader'.readcount = SizeAt(at[n + 1])
  <2> DEFINE q == at[n + 1]
  <2>1. reader.bit = at[n]
    <3>1. CASE n = 0
      BY <1>7, <3>1 DEF ReaderAt
    <3>2. CASE n # 0
      <4>1. n \in 1 .. Len(writes) /\ n < n + 1
        BY <1>1, <1>2, <3>2
      <4>2. writes[n].fits
        BY <1>4, <1>11, <4>1 DEF BufferInv, FitsInv, w
      <4> QED
        BY <1>2, <1>7, <3>2, <4>2 DEF ReaderAt
    <3> QED
      BY <3>1, <3>2
  <2>2. n \in 0 .. Len(writes) /\ n + 1 \in 0 .. Len(writes) /\ (n + 1) - 1 = n
    BY <1>1, <1>2
  <2>3. at[n] \in Nat /\ q \in Nat
    BY <1>8, <2>2
  <2>4. Kept(writer.data, at[n], w, q) /\ q <= writer.bit
    <3>1. Kept(writer.data, at[(n + 1) - 1], w, q) /\ q <= writer.bit
      BY <1>4, <1>8, <1>11 DEF w
    <3> QED
      BY <2>2, <3>1
  <2> HIDE DEF q
  <2>5. writer.bit \in Nat
    BY <1>2, WriterTyped
  <2>6. Kept(reader.data, reader.bit, w, q)
    BY <1>3, <1>4, <2>1, <2>3, <2>4, <2>5, KeptSame
  <2>7. SizeAt(q) <= writer.cursize
    <3>1. ByteOf(q) <= ByteOf(writer.bit) /\ ByteOf(q) \in Nat /\ ByteOf(writer.bit) \in Nat
      BY <2>3, <2>4, <2>5, LaterByte, Bytes
    <3>2. writer.cursize = SizeAt(writer.bit)
      BY <1>3 DEF BufferInv, FitsInv
    <3> QED
      BY <3>1, <3>2 DEF SizeAt
  <2>8. r.value = Returned(w) /\ WentTo(reader, r.msg, q)
    <3>1. TypeInv /\ reader.bit \in Nat
      BY <2>1, <2>3 DEF BufferInv
    <3> QED
      BY <1>3, <1>4, <2>3, <2>6, <2>7, <3>1, ReadRight DEF r
  <2>9. reader'.bit = q /\ reader'.readcount = SizeAt(q)
    BY <1>1, <1>2, <2>8, ReadKeeps DEF WentTo
  <2> QED
    BY <2>8, <2>9 DEF q
<1>12. TypeInv'
  <2>1. Len(reads') <= Len(writes')
    BY <1>1, <1>2, <1>6
  <2>2. \E T : reads' \in Seq(T)
    BY <1>6
  <2> QED
    BY <1>1, <1>2, <1>10, <2>1, <2>2 DEF TypeInv
<1>13. FitsInv'
  BY <1>1 DEF FitsInv, BufferInv
<1>14. MessageInv'
  <2>1. ~ Writing'
    BY <1>1 DEF Writing
  <2>2. Slack'
    BY <1>1, <1>3, <1>10 DEF Slack
  <2> QED
    BY <1>1, <1>3, <1>10, <2>1, <2>2 DEF MessageInv
<1>15. ReadBack'
  <2>1. ASSUME NEW i \in 1 .. n + 1, writes[i].fits PROVE reads'[i] = Returned(writes[i])
    <3>1. CASE i = n + 1
      BY <1>6, <1>11, <2>1, <3>1 DEF w
    <3>2. CASE i # n + 1
      <4>1. i \in 1 .. n
        BY <1>2, <3>2
      <4>2. reads[i] = Returned(writes[i])
        BY <1>6, <2>1, <4>1 DEF BufferInv, ReadBack
      <4> QED
        BY <1>6, <4>1, <4>2
    <3> QED
      BY <3>1, <3>2
  <2>2. \A i \in 1 .. n + 1 : writes'[i].fits => reads'[i] = Returned(writes'[i])
    BY <1>1, <2>1
  <2> QED
    BY <1>6, <2>2 DEF ReadBack, Returned
<1>16. History(at)'
  BY <1>1, <1>7 DEF History
<1>17. ReaderAt(at)'
  <2>1. Len(reads') = n + 1 /\ n + 1 > 0 /\ writes'[n + 1] = w
    BY <1>1, <1>2, <1>6 DEF w
  <2> QED
    BY <1>11, <2>1 DEF ReaderAt
<1> QED
  BY <1>12, <1>13, <1>14, <1>15, <1>16, <1>17 DEF BufferInv

(* Doing nothing keeps it. *)
LEMMA BufferStutterInv ==
  ASSUME BufferInv, UNCHANGED bufferVars
  PROVE  BufferInv'
<1>1. /\ writer' = writer /\ writes' = writes /\ message' = message /\ extra' = extra
      /\ reader' = reader /\ reads' = reads
  BY DEF bufferVars
<1>2. TypeInv'
  BY <1>1 DEF BufferInv, TypeInv
<1>3. FitsInv'
  BY <1>1 DEF BufferInv, FitsInv
<1>4. MessageInv'
  BY <1>1 DEF BufferInv, MessageInv, Slack, Writing
<1>5. ReadBack'
  BY <1>1 DEF BufferInv, ReadBack, Returned
<1>6. PICK at : History(at) /\ ReaderAt(at)
  BY DEF BufferInv
<1>7. History(at)' /\ ReaderAt(at)'
  BY <1>1, <1>6 DEF History, ReaderAt
<1> QED
  BY <1>2, <1>3, <1>4, <1>5, <1>7 DEF BufferInv

(* BufferInv holds always: every value and text that fitted is stored      *)
(* where the writer was, the bits behind it in its byte are zero, and the  *)
(* reader is behind what it read last.                                     *)
THEOREM BufferAlways == BufferSpec => []BufferInv
<1>1. ASSUME BufferInv, BufferNext PROVE BufferInv'
  <2>1. CASE \E w \in Values, fast \in BOOLEAN : WriteValue(w, fast)
    BY <1>1, <2>1, WriteValueInv
  <2>2. CASE \E text \in Texts, fast \in BOOLEAN : WriteString(text, fast)
    BY <1>1, <2>2, WriteStringInv
  <2>3. CASE \E x \in Symbols, garbage \in Bits : Deliver(x, garbage)
    BY <1>1, <2>3, DeliverInv
  <2>4. CASE Read
    BY <1>1, <2>4, ReadInv
  <2> QED
    BY <1>1, <2>1, <2>2, <2>3, <2>4 DEF BufferNext
<1>2. BufferInv /\ [BufferNext]_bufferVars => BufferInv'
  BY <1>1, BufferStutterInv
<1> QED
  BY <1>2, BufferInitInv, PTL DEF BufferSpec

(* MSG_ReadBits and MSG_ReadString return what MSG_WriteBits,              *)
(* MSG_WriteString and their fast forms wrote, for every prefix code, byte *)
(* size, mix of forms, earlier content of both buffers and lost end.       *)
THEOREM ReadBackAlways == BufferSpec => []ReadBack
<1>1. BufferInv => ReadBack
  BY DEF BufferInv
<1> QED
  BY <1>1, BufferAlways, PTL

(* The reader is never past cursize after what fitted. *)
LEMMA NoFalseEndHolds == BufferInv => NoFalseEnd
<1> SUFFICES ASSUME BufferInv PROVE NoFalseEnd
  OBVIOUS
<1>1. /\ writer \in Writers /\ writes \in Seq(Entries) /\ Len(writes) \in Nat
      /\ Len(reads) <= Len(writes)
  BY DEF BufferInv, TypeInv
<1>2. DOMAIN writes = 1 .. Len(writes)
  BY <1>1
<1>3. \A i, j \in DOMAIN writes : i < j /\ writes[j].fits => writes[i].fits
  BY <1>2 DEF BufferInv, FitsInv
<1>4. DOMAIN reads = 1 .. Len(reads) /\ Len(reads) \in Nat
  BY DEF BufferInv, TypeInv
<1>5. PICK at : History(at) /\ ReaderAt(at)
  BY DEF BufferInv
<1>6. ASSUME NEW i \in DOMAIN reads, writes[i].fits, ~ (Len(reads) > i)
      PROVE  reader.readcount <= writer.cursize
  <2>1. i = Len(reads) /\ i > 0 /\ i \in 1 .. Len(writes) /\ i \in 0 .. Len(writes)
    BY <1>1, <1>4, <1>6
  <2>2. reader.readcount = SizeAt(at[i])
    BY <1>5, <1>6, <2>1 DEF ReaderAt
  <2>3. at[i] \in Nat /\ at[i] <= writer.bit
    BY <1>5, <1>6, <2>1 DEF History
  <2>4. writer.bit \in Nat
    BY <1>1, WriterTyped
  <2>5. ByteOf(at[i]) <= ByteOf(writer.bit) /\ ByteOf(at[i]) \in Nat /\ ByteOf(writer.bit) \in Nat
    BY <2>3, <2>4, LaterByte, Bytes
  <2>6. writer.cursize = SizeAt(writer.bit)
    <3>1. writes # <<>>
      BY <1>1, <2>1
    <3> QED
      BY <3>1 DEF BufferInv, FitsInv
  <2> QED
    BY <2>2, <2>5, <2>6 DEF SizeAt
<1> QED
  BY <1>3, <1>6 DEF NoFalseEnd

(* What fitted comes before what did not, and CL_ParseServerMessage finds  *)
(* readcount <= cursize behind everything that fitted.                     *)
THEOREM NoFalseEndAlways == BufferSpec => []NoFalseEnd
BY BufferAlways, NoFalseEndHolds, PTL

(* Bits of the byte a place is in. *)
LEMMA InByte ==
  ASSUME NEW p \in Nat, p < Capacity, NEW i \in 1 .. Byte
  PROVE  LET k == Byte * ByteOf(p) + (i - 1)
         IN  /\ k \in 0 .. Capacity - 1 /\ ByteOf(k) = ByteOf(p) /\ k % Byte = i - 1
             /\ i - 1 >= p % Byte <=> k >= p
<1> DEFINE B == ByteOf(p)
           k == Byte * B + (i - 1)
<1>1. B \in Nat /\ p = Byte * B + (p % Byte) /\ p % Byte \in 0 .. Byte - 1 /\ Byte \in Nat \ {0}
  BY Bytes, Constants
<1>2. i - 1 \in 0 .. Byte - 1
  BY <1>1
<1> HIDE DEF B
<1>3. Byte * B \in Nat
  BY <1>1, SMT
<1>4. k \div Byte = B /\ k % Byte = i - 1
  <2> DEFINE r == i - 1
  <2>1. r \in 0 .. Byte - 1 /\ B \in Int
    BY <1>1, <1>2
  <2> HIDE DEF r
  <2>2. (Byte * B + r) \div Byte = B /\ (Byte * B + r) % Byte = r
    BY <1>1, <2>1, DivisionIs, Zenon
  <2> QED
    BY <2>2 DEF r
<1>5. k < Capacity
  <2>1. Byte * B < Byte * (MaxSize + 2)
    BY <1>1, <1>3, Constants DEF Capacity
  <2>2. MaxSize + 2 \in Nat
    BY Constants
  <2>3. \A a \in Nat \ {0}, x, y \in Nat : a * x < a * y => a * x + a <= a * y
    <3>1. ASSUME NEW a \in Nat \ {0}, NEW x \in Nat, NEW y \in Nat, a * x < a * y
          PROVE  a * x + a <= a * y
      <4>1. a * y - a * x = a * (y - x)
        BY SMT
      <4>2. y - x <= 0 => a * (y - x) <= 0
        BY SMT
      <4>3. y - x >= 1 => a * (y - x) >= a
        BY SMT
      <4>4. a * y \in Nat /\ a * x \in Nat
        BY SMT
      <4> QED
        BY <3>1, <4>1, <4>2, <4>3, <4>4
    <3> QED
      BY <3>1
  <2>4. Byte * B + Byte <= Byte * (MaxSize + 2)
    BY <1>1, <2>1, <2>2, <2>3
  <2> QED
    BY <1>1, <1>2, <1>3, <2>4, Constants DEF Capacity
<1>6. k \in Nat
  BY <1>2, <1>3
<1> QED
  BY <1>1, <1>2, <1>3, <1>4, <1>5, <1>6, Constants DEF ByteOf, B

(* The rest of the last byte is what the writer put there. *)
LEMMA SlackKeptHolds == BufferInv => SlackKept
<1> SUFFICES ASSUME BufferInv, ~ Writing, Len(reads) = Len(writes), ~ writer.overflowed
             PROVE  ExtraByte = IF extra = NotExtra THEN 0 ELSE extra
  BY DEF SlackKept
<1> DEFINE p == writer.bit
           n == Len(writes)
<1>1. /\ writer \in Writers /\ writes \in Seq(Entries) /\ n \in Nat /\ writes # <<>>
      /\ reader.data \in Data /\ Slack
  BY DEF BufferInv, TypeInv, MessageInv
<1>2. n > 0 /\ n \in 1 .. n
  BY <1>1
<1>3. PICK at : History(at) /\ ReaderAt(at)
  BY DEF BufferInv
<1>4. writes[n].fits /\ at[n] = p
  BY <1>2, <1>3 DEF BufferInv, FitsInv, History
<1>5. reader.bit = p /\ reader.readcount = SizeAt(p)
  BY <1>2, <1>3, <1>4 DEF ReaderAt
<1>6. p \in Nat /\ p < Capacity /\ ByteOf(p) \in Nat
  BY <1>1, WriterTyped, Bytes
<1>7. reader.readcount - 1 = ByteOf(p)
  BY <1>5, <1>6 DEF SizeAt
<1> DEFINE c == [i \in 1 .. Byte |->
                   IF i - 1 >= p % Byte
                   THEN BitAt(reader.data, Byte * ByteOf(p) + (i - 1)) ELSE 0]
<1>8. ExtraByte = Sum(c, 1)
  BY <1>5, <1>7 DEF ExtraByte
<1> HIDE DEF p
<1>9. DOMAIN reader.data = 0 .. Capacity - 1 /\ \A k \in 0 .. Capacity - 1 : reader.data[k] \in Bits
  BY <1>1 DEF Data
<1>10. CASE extra = NotExtra
  <2>1. ASSUME NEW i \in 1 .. Byte PROVE c[i] = 0
    <3> DEFINE k == Byte * ByteOf(p) + (i - 1)
    <3>1. /\ k \in 0 .. Capacity - 1 /\ ByteOf(k) = ByteOf(p)
          /\ i - 1 >= p % Byte <=> k >= p
      BY <1>6, InByte
    <3>2. k >= p => reader.data[k] = 0
      BY <1>1, <1>10, <3>1 DEF Slack, p
    <3>3. c[i] = IF i - 1 >= p % Byte THEN BitAt(reader.data, k) ELSE 0
      OBVIOUS
    <3> HIDE DEF k, c
    <3> QED
      BY <1>9, <3>1, <3>2, <3>3 DEF BitAt
  <2>2. c = [i \in 1 .. Byte |-> c[i]] /\ Byte \in Nat
    BY Constants
  <2> HIDE DEF c
  <2>3. c \in Seq(Nat) /\ Len(c) = Byte
    BY <2>1, <2>2
  <2>4. Sum(c, 1) = 0
    BY <2>1, <2>3, SumZeros
  <2> QED
    BY <1>8, <1>10, <2>4
<1>11. CASE extra # NotExtra
  <2>1. p % Byte = 0 /\ extra \in Symbols
    BY <1>1, <1>11 DEF Slack, p
  <2>2. extra \in Int /\ Byte \in Nat /\ extra \in 0 .. Power[Byte] - 1 /\ Power[Byte] \in Nat \ {0}
    BY <2>1, Constants, PowerStep DEF Symbols
  <2> DEFINE g == Digits(Byte, 1, extra)
  <2>3. /\ Len(g) = Byte /\ g = [i \in 1 .. Byte |-> g[i]]
        /\ \A i \in 1 .. Byte : g[i] = (extra \div Power[1 * (i - 1)]) % Power[1]
    BY <2>2, DigitsTyped DEF Digits
  <2> HIDE DEF g
  <2>4. ASSUME NEW i \in 1 .. Byte PROVE c[i] = g[i]
    <3> DEFINE k == Byte * ByteOf(p) + (i - 1)
    <3>1. k \in 0 .. Capacity - 1 /\ ByteOf(k) = ByteOf(p) /\ k % Byte = i - 1
      BY <1>6, InByte
    <3>2. reader.data[k] = (extra \div Power[k % Byte]) % 2
      BY <1>1, <1>11, <3>1 DEF Slack, p
    <3>3. c[i] = IF i - 1 >= p % Byte THEN BitAt(reader.data, k) ELSE 0
      OBVIOUS
    <3>4. i - 1 >= p % Byte /\ 1 * (i - 1) = i - 1
      BY <2>1, <2>2
    <3> HIDE DEF k, c
    <3>5. c[i] = (extra \div Power[i - 1]) % 2
      BY <1>9, <3>1, <3>2, <3>3, <3>4 DEF BitAt
    <3> QED
      BY <2>3, <3>4, <3>5, PowerStep
  <2>5. c = [i \in 1 .. Byte |-> c[i]]
    OBVIOUS
  <2> HIDE DEF c
  <2>6. c = g
    BY <2>3, <2>4, <2>5
  <2>7. Sum(g, 1) = extra % Power[1 * Byte]
    BY <2>2, SumDigits DEF g
  <2>8. 1 * Byte = Byte /\ extra % Power[Byte] = extra
    BY <2>2
  <2> QED
    BY <1>8, <1>11, <2>6, <2>7, <2>8
<1> QED
  BY <1>10, <1>11

(* At the end of a message the reader finds messageExtraByte, or zeros     *)
(* where the last byte was begun.                                          *)
THEOREM SlackAlways == BufferSpec => []SlackKept
BY BufferAlways, SlackKeptHolds, PTL
=============================================================================
