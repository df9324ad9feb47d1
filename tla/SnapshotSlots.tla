--------------------------- MODULE SnapshotSlots ---------------------------
(***************************************************************************)
(* CL_ParseSnapshot of src/JKDemoMetadata/cl_parse.cpp as a function, for  *)
(* the tools that put readers together.  A snapshot holds its world by     *)
(* value: SnapshotReader is the same function over the rings of the code,  *)
(* and its ValidExact says when the value can be trusted.  The limit on    *)
(* the age of a base is left out, as if the entity ring had no end.        *)
(***************************************************************************)
EXTENDS Integers, WorldDelta

CONSTANT PacketBackup    \* PACKET_BACKUP (32)

ASSUME SlotsAssumption == PacketBackup \in Nat \ {0}

Slots == 0 .. PacketBackup - 1
SlotOf(m) == m % PacketBackup

ZeroSnap == [valid |-> FALSE, messageNum |-> 0, deltaNum |-> 0, world |-> NoWorld]

(* A reader: cl.snapshots, cl.snap, cl.newSnapshots, and whether the last  *)
(* snapshot, and any so far, was read with "Delta from invalid frame".     *)
ZeroReader == [snapshots |-> [s \in Slots |-> ZeroSnap], snap |-> ZeroSnap,
               newSnapshots |-> FALSE, baseInvalid |-> FALSE, anyInvalid |-> FALSE]

(* The message that message m is read against when it names base d. *)
FirstValid(r, d, m) ==
  CHOOSE e \in d .. d + PacketBackup :
    /\ r.snapshots[SlotOf(e)].valid \/ SlotOf(e) = SlotOf(m)
    /\ \A k \in d .. e - 1 : /\ ~ r.snapshots[SlotOf(k)].valid
                             /\ SlotOf(k) # SlotOf(m)

(* The messages whose slots are cleared when message m is stored. *)
Skipped(r, m) ==
  LET next == r.snap.messageNum + 1
  IN  (IF m - next >= PacketBackup THEN m - (PacketBackup - 1) ELSE next) .. m - 1

StoreSnap(r, s) ==
  LET cleared == {SlotOf(k) : k \in Skipped(r, s.messageNum)}
  IN  [r EXCEPT !.snap = s, !.newSnapshots = TRUE,
         !.snapshots = [i \in Slots |->
            IF i = SlotOf(s.messageNum) THEN s
            ELSE [r.snapshots[i] EXCEPT !.valid = @ /\ i \notin cleared]]]

(* Reader r after message m with difference delta to the message span      *)
(* messages earlier, or to nothing if span is 0.                           *)
ParseSnapshot(r, m, span, delta) ==
  LET d    == m - span
      full == span = 0 \/ d <= 0
      e    == FirstValid(r, d, m)
      old  == r.snapshots[SlotOf(e)]
      new  == [valid      |-> full \/ (old.valid /\ old.messageNum = e),
               messageNum |-> m,
               deltaNum   |-> IF span = 0 THEN -1 ELSE IF full THEN d ELSE e,
               world      |-> Apply(IF full THEN NoWorld ELSE old.world, delta)]
      bad  == ~ full /\ ~ r.snapshots[SlotOf(d)].valid
      read == [r EXCEPT !.baseInvalid = bad, !.anyInvalid = @ \/ bad]
  IN  IF new.valid THEN StoreSnap(read, new) ELSE read

(* A mistake: the first snapshot of a cut has a base, too. *)
BaseDistanceAlways(r, forceNonDelta) ==
  IF r.snap.deltaNum > 0 THEN r.snap.messageNum - r.snap.deltaNum ELSE 0

(* writeDeltaSnapshot of src/DemoTrimmer/demo_utils.cpp: how far back the  *)
(* base of the written snapshot lies, which is where the base of the       *)
(* snapshot lay when reader r read it.  0: no base.                        *)
BaseDistance(r, forceNonDelta) ==
  LET s    == r.snap
      span == IF s.deltaNum > 0 /\ s.deltaNum >= s.messageNum - PacketBackup
              THEN s.messageNum - s.deltaNum ELSE 1
  IN  IF /\ s.messageNum > 0 /\ ~ forceNonDelta /\ s.deltaNum # -1
         /\ r.snapshots[SlotOf(s.messageNum - span)].valid
      THEN span ELSE 0
=============================================================================
