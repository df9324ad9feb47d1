---------------------------- MODULE MergedFrame ----------------------------
(***************************************************************************)
(* One frame of many demos: demo_combiner.cpp collects what the demos that *)
(* have the frame saw, writeMergedDeltaSnapshot of                         *)
(* combined_demo_utils.cpp writes it against the frame before,             *)
(* demo_splitter.cpp reads it and makes each client's snapshot of it.      *)
(*                                                                         *)
(* Both tools keep a combinedDemoContext_t.  What a client had last time   *)
(* is in one of two slots; a mask says which, and both tools have to turn  *)
(* it in the same frames.  So here a client's data is sent as a difference *)
(* that is worth nothing without the right base: a number of 0 .. Mod - 1  *)
(* as the difference modulo Mod, a mask as the bits that changed.          *)
(*                                                                         *)
(* Clients have numbers below 30: the loops over masks compare signed      *)
(* integers, and do not end, or not begin, with the last two.  A frame has *)
(* at most one demo of a client.                                           *)
(***************************************************************************)
EXTENDS Integers, FiniteSets

CONSTANTS
  Clients,        \* clients that were recorded
  Entities,       \* entity numbers
  Mod,            \* values of entities and player states are 0 .. Mod - 1
  PacketBackup,   \* PACKET_BACKUP (32)
  Inputs,         \* what may be recorded: records [worlds, views] with the
                  \* server's worlds, Entities -> values, and the clients'
                  \* views of them: client -> set of snapshots
  MaxFrames       \* bound: merged frames

(* What a snapshot can say of a player, of its vehicle, and of entities,   *)
(* which it marks only if it has them.                                     *)
IsPs(p) == /\ p = [val |-> p.val, veh |-> p.veh, marks |-> p.marks]
           /\ p.val \in 0 .. Mod - 1 /\ p.veh \in BOOLEAN
IsVps(p) == p = [val |-> p.val, marks |-> p.marks] /\ p.val \in 0 .. Mod - 1
IsView(s) == /\ s.lost \in Nat /\ s.span \in Nat /\ s.acked \in Int
             /\ IsPs(s.ps) /\ IsVps(s.vps)
             /\ s.sees \subseteq Entities /\ s.marks \subseteq s.sees

ASSUME FrameAssumption ==
  /\ Clients \subseteq Nat /\ IsFiniteSet(Clients)
  /\ Mod \in Nat \ {0} /\ PacketBackup \in Nat \ {0} /\ MaxFrames \in Nat
  /\ \A i \in Inputs :
       /\ i.worlds \subseteq [Entities -> 0 .. Mod - 1]
       /\ \A c \in Clients : \A s \in i.views[c] : IsView(s)

VARIABLES
  inputs,     \* the member of Inputs this run has
  demos,      \* client -> what its demo has been read to
  seen,       \* client -> what its last snapshot said
  combiner,   \* cctx of the combiner
  splitter,   \* cctx of the splitter
  split,      \* client -> its context in the splitter
  given,      \* client -> the snapshot that the splitter wrote last
  frames      \* merged frames so far
vars == <<inputs, demos, seen, combiner, splitter, split, given, frames>>

Change(old, new) == (new - old) % Mod
Changed(old, d) == (old + d) % Mod
Xor(s, t) == (s \ t) \cup (t \ s)

SlotOf(m) == m % PacketBackup
Other(slot) == 1 - slot

NoPs == [val |-> 0, veh |-> FALSE, marks |-> {}]
NoVps == [val |-> 0, marks |-> {}]
NoDelta == [span |-> 0, explicit |-> FALSE]
NoSnap == [seq |-> -1]
Both(x) == [slot \in 0 .. 1 |-> [c \in Clients |-> x]]

ZeroContext ==
  [matched |-> {}, deltasnap |-> [c \in Clients |-> NoDelta],
   psSlot |-> [c \in Clients |-> 0],      \* curPlayerStateIdxMask
   psValid |-> {},                        \* playerStateValidMask
   ps |-> Both(NoPs), vps |-> Both(NoVps),
   ackSlot |-> [c \in Clients |-> 0],     \* reliableAcknowledgeIdxMask
   ack |-> Both(0), serverAck |-> Both(0),
   seq |-> [c \in Clients |-> 0], lastSeq |-> [c \in Clients |-> 0],
   flags |-> [c \in Clients |-> 0], extra |-> [c \in Clients |-> 0],
   owners |-> [n \in Entities |-> {}],
   frame |-> [n \in {} |-> 0]]            \* entity -> value, version, marks

-----------------------------------------------------------------------------
(* A demo's next snapshot.                                                 *)

(* A mistake: the splitter can always tell from the base. *)
NeverNamed(d, base, serverAck) == FALSE

(* Does the merged file have to name the first command?  The base may have *)
(* been sent with other commands than this message repeats.                *)
Named(d, base, serverAck) == d.ring[SlotOf(base)].cmd # serverAck

(* Snapshot s as the reader of demo d has it.  The commands it starts with *)
(* may be some the demo has already.                                       *)
Snapshot(d, s, world) ==
  LET seq == d.seq + 1 + s.lost
      serverAck == d.cmd - s.resent
      base == seq - s.span
  IN  [seq |-> seq, ack |-> d.ack + s.acked, cmd |-> d.cmd + s.commands,
       serverAck |-> serverAck,
       deltasnap |-> IF s.span = 0 THEN NoDelta
                     ELSE [span |-> s.span,
                           explicit |-> Named(d, base, serverAck)],
       ps |-> s.ps, vps |-> s.vps, flags |-> s.flags, extra |-> s.extra,
       ents |-> [n \in s.sees |-> world[n]], marks |-> s.marks]

ReadDemo(d, snap) ==
  [seq |-> snap.seq, ack |-> snap.ack, cmd |-> snap.cmd,
   ring |-> [d.ring EXCEPT ![SlotOf(snap.seq)] = [seq |-> snap.seq, cmd |-> snap.cmd]]]

(* A reader takes a snapshot only with the base it names. *)
Readable(d, s) == LET base == d.seq + 1 + s.lost - s.span
                  IN  s.span = 0 \/ d.ring[SlotOf(base)].seq = base

-----------------------------------------------------------------------------
(* The combiner collects the snapshots of a frame.                         *)

Put(slots, which, values) ==
  [slot \in 0 .. 1 |-> [c \in Clients |->
     IF c \in DOMAIN values /\ which[c] = slot THEN values[c] ELSE slots[slot][c]]]

Turn(slots, who) ==
  [c \in Clients |-> IF c \in who THEN Other(slots[c]) ELSE slots[c]]

Update(old, values) ==
  [c \in Clients |-> IF c \in DOMAIN values THEN values[c] ELSE old[c]]

(* Who sees an entity.  Those that miss the frame count as before. *)
Unite(prev, snaps) ==
  [n \in Entities |->
     LET see == {c \in DOMAIN snaps : n \in DOMAIN snaps[c].ents}
     IN  IF see = {} THEN {} ELSE see \cup (prev[n] \ DOMAIN snaps)]

(* The first demo that sees an entity gives its state; its version is one  *)
(* that demo alone has, and that changes when the state does.              *)
United(snaps, owners) ==
  [n \in {k \in Entities : owners[k] # {}} |->
     LET see == {c \in DOMAIN snaps : n \in DOMAIN snaps[c].ents}
         first == CHOOSE c \in see : \A d \in see : c <= d
     IN  [val |-> snaps[first].ents[n], ver |-> <<first, snaps[first].ents[n]>>,
          marks |-> {c \in see : n \in snaps[c].marks}]]

Collect(w, snaps) ==
  LET who == DOMAIN snaps
      Of(f(_)) == [c \in who |-> f(snaps[c])]
      owners == Unite(w.owners, snaps)
      driving == {c \in who : snaps[c].ps.veh}
  IN  [w EXCEPT
         !.matched = who,
         !.deltasnap = [c \in Clients |->
                          IF c \in who THEN snaps[c].deltasnap ELSE NoDelta],
         !.ps = Put(w.ps, w.psSlot, Of(LAMBDA s : s.ps)),
         !.vps = Put(w.vps, w.psSlot, [c \in driving |-> snaps[c].vps]),
         !.psValid = @ \cup {c \in who : w.psSlot[c] = 1},
         !.psSlot = Turn(@, who),
         !.ack = Put(w.ack, w.ackSlot, Of(LAMBDA s : s.ack)),
         !.serverAck = Put(w.serverAck, w.ackSlot, Of(LAMBDA s : s.serverAck)),
         !.ackSlot = Turn(@, who),
         !.lastSeq = Update(@, [c \in who |-> w.seq[c]]),
         !.seq = Update(@, Of(LAMBDA s : s.seq)),
         !.flags = Update(@, Of(LAMBDA s : s.flags)),
         !.extra = Update(@, Of(LAMBDA s : s.extra)),
         !.owners = owners,
         !.frame = United(snaps, owners)]

-----------------------------------------------------------------------------
(* writeMergedDeltaSnapshot.  The frame before is the base, but the first  *)
(* frame has none.                                                         *)

(* The slot a tool that has turned its mask filled last. *)
Filled(slots, c) == Other(slots[c])

WritePs(ps, old, valid) ==
  [val |-> IF valid THEN Change(old.val, ps.val) ELSE ps.val, veh |-> ps.veh,
   marks |-> IF valid THEN Xor(old.marks, ps.marks) ELSE ps.marks]

(* A vehicle's state has a base only if the last one had a vehicle. *)
WriteVps(vps, old, valid) ==
  [val |-> IF valid THEN Change(old.val, vps.val) ELSE vps.val,
   marks |-> IF valid THEN Xor(old.marks, vps.marks) ELSE vps.marks]

WritePlayer(w, c) ==
  LET slot == Filled(w.psSlot, c)
      ps == w.ps[slot][c]
      old == w.ps[Other(slot)][c]
      valid == c \in w.psValid
  IN  [ps |-> WritePs(ps, old, valid),
       vps |-> IF ps.veh THEN WriteVps(w.vps[slot][c], w.vps[Other(slot)][c],
                                       valid /\ old.veh)
               ELSE NoVps]

(* A mistake: an entity with its old version is left out, marks or not. *)
UnsaidByVersion(old, new, ownersSame) ==
  ownersSame /\ (old.ver = new.ver \/ old = new)

(* Is nothing written of an entity that was there before? *)
Unsaid(old, new, ownersSame) ==
  /\ ownersSame
  /\ \/ old.marks = {} /\ new.marks = {} /\ old.ver = new.ver
     \/ old.val = new.val /\ old.marks = new.marks

(* SV_EmitPacketEntities. *)
WriteEntities(base, owners, new, newOwners) ==
  LET said == {n \in DOMAIN new :
                 n \in DOMAIN base => ~ Unsaid(base[n], new[n], owners[n] = newOwners[n])}
      from(n) == IF n \in DOMAIN base THEN base[n] ELSE [val |-> 0, marks |-> {}]
  IN  [said |-> [n \in said |-> [val    |-> Change(from(n).val, new[n].val),
                                 marks  |-> Xor(from(n).marks, new[n].marks),
                                 owners |-> Xor(owners[n], newOwners[n])]],
       gone |-> DOMAIN base \ DOMAIN new]

WriteMerged(old, w, first) ==
  LET ackSlot(c) == Filled(w.ackSlot, c)
      acks(c) == w.ack[ackSlot(c)][c] - w.ack[Other(ackSlot(c))][c]
      jump(c) == w.seq[c] - w.lastSeq[c] - 1
      asks(c) == w.deltasnap[c].span = 0 \/ w.deltasnap[c].explicit
  IN  [seq |-> [c \in {d \in w.matched : jump(d) # 0} |-> jump(c)],
       ack |-> [c \in {d \in w.matched : acks(d) # 0} |-> acks(c)],
       matched |-> w.matched,
       deltasnap |-> [c \in w.matched |-> w.deltasnap[c]],
       serverAck |-> [c \in {d \in w.matched : asks(d)} |-> w.serverAck[ackSlot(c)][c]],
       delta |-> ~ first,
       flags |-> IF Cardinality({w.flags[c] : c \in w.matched}) = 1
                 THEN [c \in {} |-> 0] ELSE [c \in w.matched |-> w.flags[c]],
       allFlags |-> w.flags[CHOOSE c \in w.matched : TRUE],
       players |-> [c \in w.matched |-> WritePlayer(w, c)],
       entities |-> WriteEntities(IF first THEN [n \in {} |-> 0] ELSE old.frame,
                                  old.owners, w.frame, w.owners),
       extra |-> [c \in w.matched |-> w.extra[c]]]

-----------------------------------------------------------------------------
(* CL_ParseMergedServerMessage.                                            *)

(* A mistake: no slot is turned. *)
ReadAcksInPlace(r, acks) ==
  [r EXCEPT !.ack = Put(@, r.ackSlot,
     [c \in DOMAIN acks |-> r.ack[Other(r.ackSlot[c])][c] + acks[c]])]

(* The acknowledges come first: a client whose acknowledge changed has its *)
(* slot turned, the others keep theirs. *)
ReadAcks(r, acks) ==
  LET slot(c) == r.ackSlot[c]
  IN  [r EXCEPT !.ack = Put(@, r.ackSlot,
                   [c \in DOMAIN acks |-> r.ack[Other(slot(c))][c] + acks[c]]),
                !.ackSlot = Turn(@, DOMAIN acks)]

ReadPs(m, old, valid) ==
  [val |-> IF valid THEN Changed(old.val, m.val) ELSE m.val, veh |-> m.veh,
   marks |-> IF valid THEN Xor(old.marks, m.marks) ELSE m.marks]

ReadVps(m, old, valid) ==
  [val |-> IF valid THEN Changed(old.val, m.val) ELSE m.val,
   marks |-> IF valid THEN Xor(old.marks, m.marks) ELSE m.marks]

(* A mistake: the base is the slot that is filled now. *)
ReadPlayersStale(r, players) ==
  [r EXCEPT !.ps = Put(@, r.psSlot,
     [c \in DOMAIN players |->
        ReadPs(players[c].ps, r.ps[r.psSlot[c]][c], c \in r.psValid)]),
     !.psSlot = Turn(@, DOMAIN players), !.psValid = @ \cup DOMAIN players]

(* The slot is the one the mask does not name, unlike in Collect. *)
ReadPlayers(r, players) ==
  LET slots == [c \in Clients |-> Filled(r.psSlot, c)]
      old(c) == r.ps[Other(slots[c])][c]
      oldv(c) == r.vps[Other(slots[c])][c]
      valid(c) == c \in r.psValid
      driving == {c \in DOMAIN players : players[c].ps.veh}
  IN  [r EXCEPT
         !.ps = Put(@, slots, [c \in DOMAIN players |->
                                 ReadPs(players[c].ps, old(c), valid(c))]),
         !.vps = Put(@, slots, [c \in driving |->
                                  ReadVps(players[c].vps, oldv(c),
                                          valid(c) /\ old(c).veh)]),
         !.psSlot = Turn(@, DOMAIN players),
         !.psValid = @ \cup DOMAIN players]

OwnersRead(owners, there, said) ==
  [n \in Entities |-> IF n \notin there THEN {}
                      ELSE IF n \in DOMAIN said THEN Xor(owners[n], said[n].owners)
                      ELSE owners[n]]

(* CL_ParseMergedPacketEntities. *)
ReadEntities(r, m, delta) ==
  LET base == IF delta THEN r.frame ELSE [n \in {} |-> 0]
      from(n) == IF n \in DOMAIN base THEN base[n] ELSE [val |-> 0, marks |-> {}]
      there == (DOMAIN base \ m.gone) \cup DOMAIN m.said
  IN  [r EXCEPT
         !.frame = [n \in there |->
            IF n \in DOMAIN m.said
            THEN [val   |-> Changed(from(n).val, m.said[n].val),
                  marks |-> Xor(from(n).marks, m.said[n].marks)]
            ELSE base[n]],
         !.owners = OwnersRead(@, there, m.said)]

ReadMerged(r, m) ==
  LET a == ReadAcks(r, m.ack)
      ackSlots == [c \in Clients |-> Filled(a.ackSlot, c)]
      b == [a EXCEPT
              !.matched = m.matched,
              !.deltasnap = Update(@, m.deltasnap),
              !.serverAck = Put(@, ackSlots, m.serverAck),
              !.flags = Update(@, [c \in m.matched |->
                          IF c \in DOMAIN m.flags THEN m.flags[c] ELSE m.allFlags]),
              !.lastSeq = Update(@, [c \in m.matched |-> r.seq[c]]),
              !.seq = Update(@, [c \in m.matched |->
                        r.seq[c] + 1 + IF c \in DOMAIN m.seq THEN m.seq[c] ELSE 0]),
              !.extra = Update(@, m.extra)]
  IN  ReadEntities(ReadPlayers(b, m.players), m.entities, m.delta)

-----------------------------------------------------------------------------
(* The splitter makes client c's snapshot; sp is what it wrote before.     *)

Give(r, c, sp, cmd) ==
  LET delta == r.deltasnap[c]
      slot == r.psSlot[c]
      ackSlot == Filled(r.ackSlot, c)
      base == r.seq[c] - delta.span
      ps == r.ps[slot][c]
      mine == {n \in DOMAIN r.frame : c \in r.owners[n]}
  IN  [seq |-> r.seq[c], ack |-> r.ack[ackSlot][c], cmd |-> cmd, span |-> delta.span,
       first |-> IF delta.span # 0 /\ ~ delta.explicit
                 THEN sp.ring[SlotOf(base)].cmd + 1
                 ELSE r.serverAck[ackSlot][c] + 1,
       ps |-> ps, vps |-> IF ps.veh THEN r.vps[slot][c] ELSE NoVps,
       flags |-> r.flags[c], extra |-> r.extra[c],
       ents |-> [n \in mine |-> r.frame[n].val],
       marks |-> {n \in mine : c \in r.frame[n].marks}]

-----------------------------------------------------------------------------
(* A frame of the clients in who.                                          *)
Frame(world, choice) ==
  LET snaps == [c \in DOMAIN choice |-> Snapshot(demos[c], choice[c], world)]
      w == Collect(combiner, snaps)
      m == WriteMerged(combiner, w, frames = 0)
      r == ReadMerged(splitter, m)
      out == [c \in m.matched |-> Give(r, c, split[c], snaps[c].cmd)]
  IN  /\ frames < MaxFrames /\ frames' = frames + 1
      /\ demos' = Update(demos, [c \in DOMAIN snaps |-> ReadDemo(demos[c], snaps[c])])
      /\ seen' = Update([c \in Clients |-> NoSnap], snaps)
      /\ combiner' = w
      /\ splitter' = r
      /\ split' = Update(split, [c \in m.matched |->
                    [ring |-> [split[c].ring EXCEPT
                       ![SlotOf(out[c].seq)] = [seq |-> out[c].seq, cmd |-> out[c].cmd]]]])
      /\ given' = Update([c \in Clients |-> NoSnap], out)
      /\ UNCHANGED inputs

ZeroRing == [slot \in 0 .. PacketBackup - 1 |-> [seq |-> -1, cmd |-> 0]]

(* Demos begin with a message number and a command number of their own. *)
Init == /\ inputs \in Inputs
        /\ demos = [c \in Clients |-> [seq |-> c, ack |-> 0, cmd |-> 1,
                                       ring |-> ZeroRing]]
        /\ combiner = ZeroContext /\ splitter = ZeroContext
        /\ split = [c \in Clients |-> [ring |-> ZeroRing]]
        /\ seen = [c \in Clients |-> NoSnap] /\ given = [c \in Clients |-> NoSnap]
        /\ frames = 0

Next == \E world \in inputs.worlds, who \in SUBSET Clients \ {{}} :
          \E choice \in [who -> UNION {inputs.views[c] : c \in who}] :
            /\ \A c \in who : choice[c] \in inputs.views[c] /\ Readable(demos[c], choice[c])
            /\ Frame(world, choice)

Spec == Init /\ [][Next]_vars

-----------------------------------------------------------------------------
(* Properties.                                                             *)

Given == {c \in Clients : given[c] # NoSnap}

(* A client's split demo has the entities, and the marks, that the client  *)
(* saw: no one else's, and none that it saw before it missed a frame.      *)
EntitiesExact == /\ Given = splitter.matched
                 /\ \A c \in Given : /\ given[c].ents = seen[c].ents
                                      /\ given[c].marks = seen[c].marks

(* It has the client's own state and its vehicle's, whichever slots the    *)
(* two tools have them in.                                                 *)
PlayersExact ==
  \A c \in Given : /\ given[c].ps = seen[c].ps
                   /\ given[c].ps.veh => given[c].vps = seen[c].vps

(* Its messages have the numbers they had, and start with the command they *)
(* started with, although the merged file names it only now and then.      *)
CountersExact ==
  \A c \in Given : /\ given[c].seq = seen[c].seq /\ given[c].ack = seen[c].ack
                   /\ given[c].first = seen[c].serverAck + 1
                   /\ given[c].span = seen[c].deltasnap.span
                   /\ given[c].flags = seen[c].flags /\ given[c].extra = seen[c].extra

(* Between frames both tools hold the same: what the next message is a     *)
(* difference to, with an entity for every one that has an owner.  The     *)
(* combiner trusts a player state one frame later.                         *)
ContextsAgree ==
  /\ splitter.owners = combiner.owners
  /\ \A x \in {combiner, splitter} :
       /\ DOMAIN x.frame = {n \in Entities : x.owners[n] # {}}
       /\ \A n \in DOMAIN x.frame : x.frame[n].marks \subseteq x.owners[n]
  /\ \A n \in DOMAIN combiner.frame :
       /\ splitter.frame[n].val = combiner.frame[n].val
       /\ splitter.frame[n].marks = combiner.frame[n].marks
  /\ \A c \in Clients :
       /\ c \in splitter.psValid =>
            /\ splitter.ps[splitter.psSlot[c]][c] = combiner.ps[Filled(combiner.psSlot, c)][c]
            /\ c \in combiner.psValid \/ combiner.psSlot[c] = 1
       /\ splitter.ack[Filled(splitter.ackSlot, c)][c]
            = combiner.ack[Filled(combiner.ackSlot, c)][c]
       /\ splitter.seq[c] = combiner.seq[c]
=============================================================================
