---------------------------- MODULE FrameProofs ----------------------------
(***************************************************************************)
(* What is in a merged frame comes out of it, in two halves.               *)
(*                                                                         *)
(* MergedFrame: the splitter gives each client exactly what its demo had,  *)
(* whichever demos have a frame, for any number of clients, entities and   *)
(* frames.  A frame is a function of the two contexts and of the snapshots *)
(* in it, so the lemmas are about any contexts w (the combiner's before),  *)
(* u (its context after), r and v (the splitter's).  What has to agree for *)
(* a difference to be undone is stated for each client and each kind of    *)
(* data, and kept by Collect, WriteMerged and ReadMerged together.         *)
(*                                                                         *)
(* FieldCodec: a state comes through the differences themselves, for any   *)
(* tables of fields and any states.  The lemmas are about the set S of the *)
(* fields that a message carries, wherever they are in its table.          *)
(***************************************************************************)
EXTENDS MergedFrame, FieldCodec, FiniteSetTheorems, SequenceTheorems, TLAPS

(* The fields of a context. *)
Fields == {"matched", "deltasnap", "psSlot", "psValid", "ps", "vps", "ackSlot",
           "ack", "serverAck", "seq", "lastSeq", "flags", "extra", "owners", "frame"}

IsContext(x) ==
  /\ DOMAIN x = Fields
  /\ x.psSlot \in [Clients -> 0 .. 1] /\ x.ackSlot \in [Clients -> 0 .. 1]

(* The state that the combiner wrote of client c last is the one that the  *)
(* splitter has it in the slot it reads, and its vehicle's too if it drove. *)
(* The splitter trusts its base in the frame in which the combiner does:   *)
(* the combiner sets the bit one frame later, but before it writes.        *)
PlayerAgrees(w, r, c) ==
  LET p == w.ps[Filled(w.psSlot, c)][c]
      q == w.vps[Filled(w.psSlot, c)][c]
  IN  /\ c \in r.psValid <=> c \in w.psValid \/ w.psSlot[c] = 1
      /\ c \in r.psValid =>
           /\ IsPs(p) /\ r.ps[r.psSlot[c]][c] = p
           /\ p.veh => IsVps(q) /\ r.vps[r.psSlot[c]][c] = q

(* Each tool's last acknowledge is in the slot its own mask names. *)
AcksAgree(w, r, c) ==
  /\ w.ack[Filled(w.ackSlot, c)][c] \in Int
  /\ r.ack[Filled(r.ackSlot, c)][c] = w.ack[Filled(w.ackSlot, c)][c]

SeqAgrees(w, r, c) == w.seq[c] \in Int /\ r.seq[c] = w.seq[c]

(* What a reader of a demo can make of a message. *)
IsSnap(s) ==
  /\ s.seq \in Nat /\ s.ack \in Int /\ IsPs(s.ps) /\ IsVps(s.vps)
  /\ s.ents \in [DOMAIN s.ents -> 0 .. Mod - 1]
  /\ DOMAIN s.ents \subseteq Entities /\ s.marks \subseteq DOMAIN s.ents

-----------------------------------------------------------------------------
(* A difference to a base gives back what it was made of. *)
LEMMA ChangeBack ==
  ASSUME NEW old \in 0 .. Mod - 1, NEW new \in 0 .. Mod - 1
  PROVE  Changed(old, Change(old, new)) = new
BY FrameAssumption DEF Changed, Change

(* So do the bits that changed. *)
LEMMA XorBack == \A s, t : Xor(s, Xor(s, t)) = t
BY DEF Xor

(* So does what WritePs writes, for a reader with the same base if there   *)
(* is one. *)
LEMMA PsBack ==
  ASSUME NEW ps, IsPs(ps), NEW valid \in BOOLEAN,
         NEW old, NEW same, valid => IsPs(old) /\ same = old
  PROVE  ReadPs(WritePs(ps, old, valid), same, valid) = ps
<1>1. CASE valid
  BY <1>1, ChangeBack, XorBack DEF IsPs, ReadPs, WritePs
<1>2. CASE ~ valid
  BY <1>2 DEF IsPs, ReadPs, WritePs
<1> QED
  BY <1>1, <1>2

(* And what WriteVps writes. *)
LEMMA VpsBack ==
  ASSUME NEW vps, IsVps(vps), NEW valid \in BOOLEAN,
         NEW old, NEW same, valid => IsVps(old) /\ same = old
  PROVE  ReadVps(WriteVps(vps, old, valid), same, valid) = vps
<1>1. CASE valid
  BY <1>1, ChangeBack, XorBack DEF IsVps, ReadVps, WriteVps
<1>2. CASE ~ valid
  BY <1>2 DEF IsVps, ReadVps, WriteVps
<1> QED
  BY <1>1, <1>2

(* One slot of one client after Put. *)
LEMMA PutAt ==
  ASSUME NEW slots, NEW which, NEW values, NEW slot \in 0 .. 1, NEW c \in Clients
  PROVE  Put(slots, which, values)[slot][c] =
           IF c \in DOMAIN values /\ which[c] = slot THEN values[c] ELSE slots[slot][c]
BY DEF Put

(* There are two slots, and turning exchanges them. *)
LEMMA TurnAt ==
  ASSUME NEW slots \in [Clients -> 0 .. 1], NEW who
  PROVE  /\ Turn(slots, who) \in [Clients -> 0 .. 1]
         /\ \A c \in Clients :
              /\ slots[c] \in 0 .. 1 /\ Filled(slots, c) \in 0 .. 1
              /\ Turn(slots, who)[c] = IF c \in who THEN Filled(slots, c) ELSE slots[c]
              /\ Filled(Turn(slots, who), c) =
                   IF c \in who THEN slots[c] ELSE Filled(slots, c)
              /\ Filled(slots, c) # slots[c] /\ Other(Filled(slots, c)) = slots[c]
              /\ Other(slots[c]) = Filled(slots, c)
BY DEF Turn, Filled, Other

(* One client after Update. *)
LEMMA UpdateAt ==
  ASSUME NEW old, NEW values, NEW c \in Clients
  PROVE  Update(old, values)[c] = IF c \in DOMAIN values THEN values[c] ELSE old[c]
BY DEF Update

(* Context u field by field, if the snapshots in snaps make it of w. *)
CollectFacts(w, snaps, u) ==
  LET who == DOMAIN snaps
  IN  /\ DOMAIN u = Fields
      /\ u.matched = who
      /\ u.deltasnap = [c \in Clients |->
                          IF c \in who THEN snaps[c].deltasnap ELSE NoDelta]
      /\ u.psSlot = Turn(w.psSlot, who)
      /\ u.ps = Put(w.ps, w.psSlot, [c \in who |-> snaps[c].ps])
      /\ u.vps = Put(w.vps, w.psSlot,
                     [c \in {d \in who : snaps[d].ps.veh} |-> snaps[c].vps])
      /\ u.psValid = w.psValid \cup {c \in who : w.psSlot[c] = 1}
      /\ u.ackSlot = Turn(w.ackSlot, who)
      /\ u.ack = Put(w.ack, w.ackSlot, [c \in who |-> snaps[c].ack])
      /\ u.serverAck = Put(w.serverAck, w.ackSlot, [c \in who |-> snaps[c].serverAck])
      /\ u.lastSeq = Update(w.lastSeq, [c \in who |-> w.seq[c]])
      /\ u.seq = Update(w.seq, [c \in who |-> snaps[c].seq])
      /\ u.flags = Update(w.flags, [c \in who |-> snaps[c].flags])
      /\ u.extra = Update(w.extra, [c \in who |-> snaps[c].extra])
      /\ u.owners = Unite(w.owners, snaps)
      /\ u.frame = United(snaps, Unite(w.owners, snaps))

(* Collect makes it so. *)
LEMMA CollectAt ==
  ASSUME NEW w, DOMAIN w = Fields, NEW snaps
  PROVE  CollectFacts(w, snaps, Collect(w, snaps))
BY DEF Collect, CollectFacts, Fields

(* Context v field by field, if message m makes it of r. *)
ReadFacts(r, m, v) ==
  LET slots   == [c \in Clients |-> Filled(r.psSlot, c)]
      old(c)  == r.ps[Other(slots[c])][c]
      oldv(c) == r.vps[Other(slots[c])][c]
      valid(c) == c \in r.psValid
      base    == IF m.delta THEN r.frame ELSE [n \in {} |-> 0]
      there   == (DOMAIN base \ m.entities.gone) \cup DOMAIN m.entities.said
      from(n) == IF n \in DOMAIN base THEN base[n] ELSE [val |-> 0, marks |-> {}]
  IN  /\ DOMAIN v = Fields
      /\ v.matched = m.matched
      /\ v.deltasnap = Update(r.deltasnap, m.deltasnap)
      /\ v.ackSlot = Turn(r.ackSlot, DOMAIN m.ack)
      /\ v.ack = Put(r.ack, r.ackSlot,
           [c \in DOMAIN m.ack |-> r.ack[Other(r.ackSlot[c])][c] + m.ack[c]])
      /\ v.serverAck = Put(r.serverAck, [c \in Clients |-> Filled(v.ackSlot, c)],
                           m.serverAck)
      /\ v.flags = Update(r.flags, [c \in m.matched |->
                     IF c \in DOMAIN m.flags THEN m.flags[c] ELSE m.allFlags])
      /\ v.seq = Update(r.seq, [c \in m.matched |->
                   r.seq[c] + 1 + IF c \in DOMAIN m.seq THEN m.seq[c] ELSE 0])
      /\ v.extra = Update(r.extra, m.extra)
      /\ v.psSlot = Turn(r.psSlot, DOMAIN m.players)
      /\ v.psValid = r.psValid \cup DOMAIN m.players
      /\ v.ps = Put(r.ps, slots, [c \in DOMAIN m.players |->
                      ReadPs(m.players[c].ps, old(c), valid(c))])
      /\ v.vps = Put(r.vps, slots,
           [c \in {d \in DOMAIN m.players : m.players[d].ps.veh} |->
              ReadVps(m.players[c].vps, oldv(c), valid(c) /\ old(c).veh)])
      /\ v.owners = OwnersRead(r.owners, there, m.entities.said)
      /\ v.frame = [n \in there |->
           IF n \in DOMAIN m.entities.said
           THEN [val   |-> Changed(from(n).val, m.entities.said[n].val),
                 marks |-> Xor(from(n).marks, m.entities.said[n].marks)]
           ELSE base[n]]

(* ReadMerged makes it so: its four parts change different fields, and     *)
(* only the server's acknowledge is put where an earlier part says. *)
LEMMA ReadMergedAt ==
  ASSUME NEW r, DOMAIN r = Fields, NEW m
  PROVE  ReadFacts(r, m, ReadMerged(r, m))
<1> DEFINE a == ReadAcks(r, m.ack)
           ackSlots == [c \in Clients |-> Filled(a.ackSlot, c)]
           b == [a EXCEPT
              !.matched = m.matched,
              !.deltasnap = Update(@, m.deltasnap),
              !.serverAck = Put(@, ackSlots, m.serverAck),
              !.flags = Update(@, [c \in m.matched |->
                          IF c \in DOMAIN m.flags THEN m.flags[c] ELSE m.allFlags]),
              !.lastSeq = Update(@, [c \in m.matched |-> r.seq[c]]),
              !.seq = Update(@, [c \in m.matched |->
                        r.seq[c] + 1 + IF c \in DOMAIN m.seq THEN m.seq[c] ELSE 0]),
              !.extra = Update(@, m.extra)]
           p == ReadPlayers(b, m.players)
           v == ReadEntities(p, m.entities, m.delta)
<1>1. /\ DOMAIN a = Fields
      /\ a.ackSlot = Turn(r.ackSlot, DOMAIN m.ack)
      /\ a.ack = Put(r.ack, r.ackSlot,
                  [c \in DOMAIN m.ack |-> r.ack[Other(r.ackSlot[c])][c] + m.ack[c]])
      /\ \A f \in Fields \ {"ack", "ackSlot"} : a[f] = r[f]
  BY DEF ReadAcks, Fields
<1> HIDE DEF a
<1>2. /\ DOMAIN b = Fields
      /\ b.matched = m.matched
      /\ b.deltasnap = Update(r.deltasnap, m.deltasnap)
      /\ b.serverAck = Put(r.serverAck, ackSlots, m.serverAck)
      /\ b.flags = Update(r.flags, [c \in m.matched |->
                     IF c \in DOMAIN m.flags THEN m.flags[c] ELSE m.allFlags])
      /\ b.seq = Update(r.seq, [c \in m.matched |->
                     r.seq[c] + 1 + IF c \in DOMAIN m.seq THEN m.seq[c] ELSE 0])
      /\ b.extra = Update(r.extra, m.extra)
      /\ \A f \in {"ack", "ackSlot"} : b[f] = a[f]
      /\ \A f \in {"ps", "vps", "psSlot", "psValid", "owners", "frame"} : b[f] = r[f]
  BY <1>1 DEF Fields
<1> HIDE DEF b
<1>3. /\ DOMAIN p = Fields
      /\ p.psSlot = Turn(b.psSlot, DOMAIN m.players)
      /\ p.psValid = b.psValid \cup DOMAIN m.players
      /\ p.ps = Put(b.ps, [c \in Clients |-> Filled(b.psSlot, c)],
              [c \in DOMAIN m.players |->
                 ReadPs(m.players[c].ps,
                        b.ps[Other([e \in Clients |-> Filled(b.psSlot, e)][c])][c],
                        c \in b.psValid)])
      /\ p.vps = Put(b.vps, [c \in Clients |-> Filled(b.psSlot, c)],
              [c \in {e \in DOMAIN m.players : m.players[e].ps.veh} |->
                 ReadVps(m.players[c].vps,
                   b.vps[Other([e \in Clients |-> Filled(b.psSlot, e)][c])][c],
                   c \in b.psValid
                     /\ b.ps[Other([e \in Clients |-> Filled(b.psSlot, e)][c])][c].veh)])
      /\ \A f \in Fields \ {"ps", "vps", "psSlot", "psValid"} : p[f] = b[f]
  BY <1>2 DEF ReadPlayers, Fields
<1> HIDE DEF p
<1> DEFINE base(x) == IF m.delta THEN x.frame ELSE [n \in {} |-> 0]
           there(x) == (DOMAIN base(x) \ m.entities.gone) \cup DOMAIN m.entities.said
           from(x, n) == IF n \in DOMAIN base(x) THEN base(x)[n]
                         ELSE [val |-> 0, marks |-> {}]
<1>4. /\ DOMAIN v = Fields
      /\ v.owners = OwnersRead(p.owners, there(p), m.entities.said)
      /\ v.frame = [n \in there(p) |->
                  IF n \in DOMAIN m.entities.said
                  THEN [val   |-> Changed(from(p, n).val, m.entities.said[n].val),
                        marks |-> Xor(from(p, n).marks, m.entities.said[n].marks)]
                  ELSE base(p)[n]]
      /\ \A f \in Fields \ {"frame", "owners"} : v[f] = p[f]
  BY <1>3 DEF ReadEntities, Fields
<1>5. /\ p.frame = r.frame /\ p.owners = r.owners
      /\ there(p) = there(r)
  BY <1>2, <1>3 DEF Fields
<1>6. v = ReadMerged(r, m)
  BY DEF ReadMerged, v, p, b, a
<1> HIDE DEF v
<1>7. /\ DOMAIN v = Fields
      /\ v.matched = m.matched
      /\ v.deltasnap = Update(r.deltasnap, m.deltasnap)
      /\ v.ackSlot = Turn(r.ackSlot, DOMAIN m.ack)
      /\ v.ack = a.ack /\ v.serverAck = b.serverAck /\ v.flags = b.flags
      /\ v.seq = b.seq /\ v.extra = b.extra
      /\ a.ackSlot = v.ackSlot
  BY <1>1, <1>2, <1>3, <1>4, ZenonT(30) DEF Fields
<1>8. /\ v.psSlot = p.psSlot /\ v.psValid = p.psValid
      /\ v.ps = p.ps /\ v.vps = p.vps
      /\ b.psSlot = r.psSlot /\ b.psValid = r.psValid
      /\ b.ps = r.ps /\ b.vps = r.vps
  BY <1>2, <1>3, <1>4 DEF Fields
<1>9. /\ v.ps = Put(r.ps, [c \in Clients |-> Filled(r.psSlot, c)],
              [c \in DOMAIN m.players |->
                 ReadPs(m.players[c].ps,
                        r.ps[Other([e \in Clients |-> Filled(r.psSlot, e)][c])][c],
                        c \in r.psValid)])
      /\ v.vps = Put(r.vps, [c \in Clients |-> Filled(r.psSlot, c)],
              [c \in {e \in DOMAIN m.players : m.players[e].ps.veh} |->
                 ReadVps(m.players[c].vps,
                   r.vps[Other([e \in Clients |-> Filled(r.psSlot, e)][c])][c],
                   c \in r.psValid
                     /\ r.ps[Other([e \in Clients |-> Filled(r.psSlot, e)][c])][c].veh)])
      /\ v.psSlot = Turn(r.psSlot, DOMAIN m.players)
      /\ v.psValid = r.psValid \cup DOMAIN m.players
  <2>1. v.psSlot = Turn(r.psSlot, DOMAIN m.players)
    BY <1>3, <1>8, Zenon
  <2>2. v.psValid = r.psValid \cup DOMAIN m.players
    BY <1>3, <1>8, Zenon
  <2>3. v.ps = Put(b.ps, [c \in Clients |-> Filled(b.psSlot, c)],
              [c \in DOMAIN m.players |->
                 ReadPs(m.players[c].ps,
                        b.ps[Other([e \in Clients |-> Filled(b.psSlot, e)][c])][c],
                        c \in b.psValid)])
    BY <1>3, <1>8, Zenon
  <2>4. v.vps = Put(b.vps, [c \in Clients |-> Filled(b.psSlot, c)],
              [c \in {e \in DOMAIN m.players : m.players[e].ps.veh} |->
                 ReadVps(m.players[c].vps,
                   b.vps[Other([e \in Clients |-> Filled(b.psSlot, e)][c])][c],
                   c \in b.psValid
                     /\ b.ps[Other([e \in Clients |-> Filled(b.psSlot, e)][c])][c].veh)])
    BY <1>3, <1>8, Zenon
  <2>5. b.psSlot = r.psSlot /\ b.psValid = r.psValid /\ b.ps = r.ps /\ b.vps = r.vps
    BY <1>8
  <2> QED
    BY <2>1, <2>2, <2>3, <2>4, <2>5
<1>10. /\ v.owners = OwnersRead(r.owners, there(r), m.entities.said)
       /\ v.frame = [n \in there(r) |->
                  IF n \in DOMAIN m.entities.said
                  THEN [val   |-> Changed(from(r, n).val, m.entities.said[n].val),
                        marks |-> Xor(from(r, n).marks, m.entities.said[n].marks)]
                  ELSE base(r)[n]]
  BY <1>4, <1>5
<1>11. /\ v.ack = Put(r.ack, r.ackSlot,
                  [c \in DOMAIN m.ack |-> r.ack[Other(r.ackSlot[c])][c] + m.ack[c]])
       /\ v.serverAck = Put(r.serverAck, [c \in Clients |-> Filled(v.ackSlot, c)],
                            m.serverAck)
       /\ v.flags = Update(r.flags, [c \in m.matched |->
                     IF c \in DOMAIN m.flags THEN m.flags[c] ELSE m.allFlags])
       /\ v.seq = Update(r.seq, [c \in m.matched |->
                     r.seq[c] + 1 + IF c \in DOMAIN m.seq THEN m.seq[c] ELSE 0])
       /\ v.extra = Update(r.extra, m.extra)
  BY <1>1, <1>2, <1>7
<1> HIDE DEF base, there, from
<1>12. ReadFacts(r, m, v)
  BY <1>7, <1>9, <1>10, <1>11 DEF ReadFacts, base, there, from
<1> QED
  BY <1>6, <1>12

(* What the combiner has of a client's players. *)
LEMMA CollectPlayer ==
  ASSUME NEW w, IsContext(w), NEW snaps, NEW c \in Clients
  PROVE  LET u == Collect(w, snaps)
             slot == w.psSlot[c]
         IN  /\ c \notin DOMAIN snaps =>
                  /\ u.psSlot[c] = slot
                  /\ c \in u.psValid <=> c \in w.psValid
                  /\ \A i \in 0 .. 1 : u.ps[i][c] = w.ps[i][c] /\ u.vps[i][c] = w.vps[i][c]
             /\ c \in DOMAIN snaps =>
                  /\ u.psSlot[c] = Filled(w.psSlot, c) /\ Filled(u.psSlot, c) = slot
                  /\ c \in u.psValid <=> c \in w.psValid \/ slot = 1
                  /\ u.ps[slot][c] = snaps[c].ps
                  /\ u.ps[Filled(w.psSlot, c)][c] = w.ps[Filled(w.psSlot, c)][c]
                  /\ snaps[c].ps.veh => u.vps[slot][c] = snaps[c].vps
                  /\ u.vps[Filled(w.psSlot, c)][c] = w.vps[Filled(w.psSlot, c)][c]
<1> DEFINE u   == Collect(w, snaps)
           who == DOMAIN snaps
<1>1. CollectFacts(w, snaps, u)
  BY CollectAt DEF IsContext
<1> HIDE DEF u
<1>2. /\ u.psSlot = Turn(w.psSlot, who)
      /\ u.ps = Put(w.ps, w.psSlot, [e \in who |-> snaps[e].ps])
      /\ u.vps = Put(w.vps, w.psSlot, [e \in {d \in who : snaps[d].ps.veh} |-> snaps[e].vps])
      /\ u.psValid = w.psValid \cup {e \in who : w.psSlot[e] = 1}
  BY <1>1 DEF CollectFacts
<1>3. /\ w.psSlot[c] \in 0 .. 1 /\ Filled(w.psSlot, c) \in 0 .. 1
      /\ Filled(w.psSlot, c) # w.psSlot[c]
      /\ u.psSlot[c] = IF c \in who THEN Filled(w.psSlot, c) ELSE w.psSlot[c]
      /\ Filled(u.psSlot, c) = IF c \in who THEN w.psSlot[c] ELSE Filled(w.psSlot, c)
  BY <1>2, TurnAt DEF IsContext
<1>4. \A i \in 0 .. 1 :
        /\ u.ps[i][c] = IF c \in who /\ w.psSlot[c] = i THEN snaps[c].ps ELSE w.ps[i][c]
        /\ u.vps[i][c] = IF c \in who /\ snaps[c].ps.veh /\ w.psSlot[c] = i
                         THEN snaps[c].vps ELSE w.vps[i][c]
  BY <1>2, PutAt
<1>5. c \in u.psValid <=> c \in w.psValid \/ (c \in who /\ w.psSlot[c] = 1)
  BY <1>2
<1> QED
  BY <1>3, <1>4, <1>5 DEF u

(* What the splitter has of a client's players. *)
LEMMA ReadPlayer ==
  ASSUME NEW r, IsContext(r), NEW m, NEW c \in Clients
  PROVE  LET v == ReadMerged(r, m)
             slot == r.psSlot[c]
         IN  /\ c \notin DOMAIN m.players =>
                  /\ v.psSlot[c] = slot
                  /\ c \in v.psValid <=> c \in r.psValid
                  /\ \A i \in 0 .. 1 : v.ps[i][c] = r.ps[i][c] /\ v.vps[i][c] = r.vps[i][c]
             /\ c \in DOMAIN m.players =>
                  /\ v.psSlot[c] = Filled(r.psSlot, c)
                  /\ c \in v.psValid
                  /\ v.ps[v.psSlot[c]][c] =
                       ReadPs(m.players[c].ps, r.ps[slot][c], c \in r.psValid)
                  /\ m.players[c].ps.veh =>
                       v.vps[v.psSlot[c]][c] =
                         ReadVps(m.players[c].vps, r.vps[slot][c],
                                 c \in r.psValid /\ r.ps[slot][c].veh)
<1> DEFINE v   == ReadMerged(r, m)
           who == DOMAIN m.players
           slots == [e \in Clients |-> Filled(r.psSlot, e)]
           vehs == {e \in who : m.players[e].ps.veh}
           NewPs(e) == ReadPs(m.players[e].ps, r.ps[Other(slots[e])][e], e \in r.psValid)
           NewVps(e) == ReadVps(m.players[e].vps, r.vps[Other(slots[e])][e],
                                e \in r.psValid /\ r.ps[Other(slots[e])][e].veh)
<1>1. ReadFacts(r, m, v)
  BY ReadMergedAt DEF IsContext
<1> HIDE DEF v
<1>2. /\ v.psSlot = Turn(r.psSlot, who)
      /\ v.psValid = r.psValid \cup who
      /\ v.ps = Put(r.ps, slots, [e \in who |-> NewPs(e)])
      /\ v.vps = Put(r.vps, slots, [e \in vehs |-> NewVps(e)])
  BY <1>1 DEF ReadFacts
<1>3. /\ r.psSlot[c] \in 0 .. 1 /\ Filled(r.psSlot, c) \in 0 .. 1
      /\ slots[c] = Filled(r.psSlot, c) /\ Other(slots[c]) = r.psSlot[c]
      /\ v.psSlot[c] = IF c \in who THEN Filled(r.psSlot, c) ELSE r.psSlot[c]
  BY <1>2, TurnAt DEF IsContext
<1> HIDE DEF slots, NewPs, NewVps
<1>4. \A i \in 0 .. 1 :
        /\ v.ps[i][c] = IF c \in who /\ slots[c] = i THEN NewPs(c) ELSE r.ps[i][c]
        /\ v.vps[i][c] = IF c \in who /\ m.players[c].ps.veh /\ slots[c] = i
                         THEN NewVps(c) ELSE r.vps[i][c]
  BY <1>2, PutAt
<1>5. c \in v.psValid <=> c \in r.psValid \/ c \in who
  BY <1>2
<1>6. /\ NewPs(c) = ReadPs(m.players[c].ps, r.ps[r.psSlot[c]][c], c \in r.psValid)
      /\ NewVps(c) = ReadVps(m.players[c].vps, r.vps[r.psSlot[c]][c],
                             c \in r.psValid /\ r.ps[r.psSlot[c]][c].veh)
  BY <1>3 DEF NewPs, NewVps
<1> QED
  BY <1>3, <1>4, <1>5, <1>6 DEF v

(* What the splitter reads of a client's players is what its snapshot had. *)
LEMMA PlayersStep ==
  ASSUME NEW w, IsContext(w), NEW r, IsContext(r), NEW c \in Clients,
         PlayerAgrees(w, r, c),
         NEW snaps, c \in DOMAIN snaps => IsSnap(snaps[c]),
         NEW first
  PROVE  LET u == Collect(w, snaps)
             v == ReadMerged(r, WriteMerged(w, u, first))
         IN  /\ PlayerAgrees(u, v, c)
             /\ c \in DOMAIN snaps =>
                  /\ v.ps[v.psSlot[c]][c] = snaps[c].ps
                  /\ snaps[c].ps.veh => v.vps[v.psSlot[c]][c] = snaps[c].vps
<1> DEFINE u   == Collect(w, snaps)
           m   == WriteMerged(w, u, first)
           v   == ReadMerged(r, m)
           who == DOMAIN snaps
<1>1. DOMAIN m.players = who /\ \A e \in who : m.players[e] = WritePlayer(u, e)
  <2>1. CollectFacts(w, snaps, u)
    BY CollectAt DEF IsContext
  <2>2. u.matched = who
    BY <2>1 DEF CollectFacts
  <2> QED
    BY <2>2 DEF WriteMerged
<1> HIDE DEF m
<1>2. /\ w.psSlot[c] \in 0 .. 1 /\ Filled(w.psSlot, c) \in 0 .. 1
      /\ r.psSlot[c] \in 0 .. 1 /\ Filled(r.psSlot, c) \in 0 .. 1
      /\ Filled(u.psSlot, c) = Other(u.psSlot[c])
      /\ Filled(w.psSlot, c) = Other(w.psSlot[c])
      /\ w.psSlot[c] = 1 \/ Filled(w.psSlot, c) = 1
  BY TurnAt DEF IsContext, Filled, Other
<1>3. CASE c \notin who
  <2>1. /\ u.psSlot[c] = w.psSlot[c]
        /\ c \in u.psValid <=> c \in w.psValid
        /\ \A i \in 0 .. 1 : u.ps[i][c] = w.ps[i][c] /\ u.vps[i][c] = w.vps[i][c]
    BY <1>3, CollectPlayer
  <2>2. /\ v.psSlot[c] = r.psSlot[c]
        /\ c \in v.psValid <=> c \in r.psValid
        /\ \A i \in 0 .. 1 : v.ps[i][c] = r.ps[i][c] /\ v.vps[i][c] = r.vps[i][c]
    BY <1>1, <1>3, ReadPlayer
  <2> HIDE DEF u, v
  <2>3. Filled(u.psSlot, c) = Filled(w.psSlot, c)
    BY <1>2, <2>1
  <2>4. PlayerAgrees(u, v, c)
    BY <1>2, <2>1, <2>2, <2>3, SMTT(30) DEF PlayerAgrees
  <2> QED
    BY <1>3, <2>4 DEF u, v, m
<1>4. CASE c \in who
  <2> DEFINE slot  == w.psSlot[c]
             old   == w.ps[Filled(w.psSlot, c)][c]
             oldv  == w.vps[Filled(w.psSlot, c)][c]
             valid == c \in r.psValid
             ps    == snaps[c].ps
             vps   == snaps[c].vps
  <2>1. /\ u.psSlot[c] = Filled(w.psSlot, c) /\ Filled(u.psSlot, c) = slot
        /\ c \in u.psValid <=> c \in w.psValid \/ slot = 1
        /\ u.ps[slot][c] = ps /\ u.ps[Filled(w.psSlot, c)][c] = old
        /\ ps.veh => u.vps[slot][c] = vps
        /\ u.vps[Filled(w.psSlot, c)][c] = oldv
    BY <1>4, CollectPlayer
  <2>2. /\ v.psSlot[c] = Filled(r.psSlot, c) /\ c \in v.psValid
        /\ v.ps[v.psSlot[c]][c] = ReadPs(m.players[c].ps, r.ps[r.psSlot[c]][c], valid)
        /\ m.players[c].ps.veh =>
             v.vps[v.psSlot[c]][c] =
               ReadVps(m.players[c].vps, r.vps[r.psSlot[c]][c],
                       valid /\ r.ps[r.psSlot[c]][c].veh)
    BY <1>1, <1>4, ReadPlayer
  <2> HIDE DEF u, v
  <2>3. IsPs(ps) /\ IsVps(vps) /\ (valid <=> c \in u.psValid)
    BY <1>4, <2>1 DEF IsSnap, PlayerAgrees
  <2>4. valid => /\ IsPs(old) /\ r.ps[r.psSlot[c]][c] = old
                 /\ old.veh => IsVps(oldv) /\ r.vps[r.psSlot[c]][c] = oldv
    BY DEF PlayerAgrees
  <2> HIDE DEF valid, old, oldv, ps, vps
  <2>5. /\ m.players[c].ps = WritePs(ps, old, valid)
        /\ ps.veh => m.players[c].vps = WriteVps(vps, oldv, valid /\ old.veh)
    <3>1. m.players[c] = WritePlayer(u, c)
      BY <1>1, <1>4
    <3>2. Other(slot) = Filled(w.psSlot, c)
      BY <1>2
    <3>3. /\ m.players[c].ps = WritePs(ps, old, c \in u.psValid)
          /\ ps.veh => m.players[c].vps
                         = WriteVps(vps, oldv, c \in u.psValid /\ old.veh)
      BY <2>1, <3>1, <3>2 DEF WritePlayer
    <3>4. valid = (c \in u.psValid)
      BY <2>3 DEF valid
    <3> QED
      BY <3>3, <3>4
  <2>6. m.players[c].ps.veh = ps.veh
    BY <2>5 DEF WritePs
  <2>7. v.ps[v.psSlot[c]][c] = ps
    <3>1. valid \in BOOLEAN
      BY DEF valid
    <3> QED
      BY <2>2, <2>3, <2>4, <2>5, <3>1, PsBack
  <2>8. ASSUME ps.veh
        PROVE  v.vps[v.psSlot[c]][c] = vps
    <3> DEFINE based == valid /\ old.veh
    <3>1. (valid /\ r.ps[r.psSlot[c]][c].veh) = based
      BY <2>4
    <3>2. based \in BOOLEAN /\ (based => IsVps(oldv) /\ r.vps[r.psSlot[c]][c] = oldv)
      BY <2>4
    <3>3. v.vps[v.psSlot[c]][c] = ReadVps(m.players[c].vps, r.vps[r.psSlot[c]][c], based)
      BY <2>2, <2>6, <2>8, <3>1
    <3>4. m.players[c].vps = WriteVps(vps, oldv, based)
      BY <2>5, <2>8
    <3> HIDE DEF based
    <3> QED
      BY <2>3, <3>2, <3>3, <3>4, VpsBack
  <2>9. c \in u.psValid \/ u.psSlot[c] = 1
    BY <1>2, <2>1
  <2>10. PlayerAgrees(u, v, c)
    BY <2>1, <2>2, <2>3, <2>7, <2>8, <2>9 DEF PlayerAgrees
  <2> QED
    BY <2>7, <2>8, <2>10 DEF ps, vps, u, v, m
<1> QED
  BY <1>3, <1>4

-----------------------------------------------------------------------------
(* What the combiner has of a client's counters. *)
LEMMA CollectCounters ==
  ASSUME NEW w, IsContext(w), NEW snaps, NEW c \in Clients
  PROVE  LET u == Collect(w, snaps)
             slot == w.ackSlot[c]
         IN  /\ c \notin DOMAIN snaps =>
                  /\ Filled(u.ackSlot, c) = Filled(w.ackSlot, c)
                  /\ \A i \in 0 .. 1 : u.ack[i][c] = w.ack[i][c]
                  /\ u.seq[c] = w.seq[c]
             /\ c \in DOMAIN snaps =>
                  /\ Filled(u.ackSlot, c) = slot /\ Other(slot) = Filled(w.ackSlot, c)
                  /\ u.ack[slot][c] = snaps[c].ack
                  /\ u.ack[Other(slot)][c] = w.ack[Other(slot)][c]
                  /\ u.serverAck[slot][c] = snaps[c].serverAck
                  /\ u.seq[c] = snaps[c].seq /\ u.lastSeq[c] = w.seq[c]
                  /\ u.flags[c] = snaps[c].flags /\ u.extra[c] = snaps[c].extra
                  /\ u.deltasnap[c] = snaps[c].deltasnap
<1> DEFINE u   == Collect(w, snaps)
           who == DOMAIN snaps
<1>1. CollectFacts(w, snaps, u)
  BY CollectAt DEF IsContext
<1> HIDE DEF u
<1>2. /\ u.ackSlot = Turn(w.ackSlot, who)
      /\ u.ack = Put(w.ack, w.ackSlot, [e \in who |-> snaps[e].ack])
      /\ u.serverAck = Put(w.serverAck, w.ackSlot, [e \in who |-> snaps[e].serverAck])
  BY <1>1 DEF CollectFacts
<1>3. /\ u.lastSeq = Update(w.lastSeq, [e \in who |-> w.seq[e]])
      /\ u.seq = Update(w.seq, [e \in who |-> snaps[e].seq])
      /\ u.flags = Update(w.flags, [e \in who |-> snaps[e].flags])
      /\ u.extra = Update(w.extra, [e \in who |-> snaps[e].extra])
      /\ u.deltasnap = [e \in Clients |-> IF e \in who THEN snaps[e].deltasnap ELSE NoDelta]
  BY <1>1 DEF CollectFacts
<1>4. /\ w.ackSlot[c] \in 0 .. 1 /\ Filled(w.ackSlot, c) \in 0 .. 1
      /\ Filled(w.ackSlot, c) # w.ackSlot[c]
      /\ Other(w.ackSlot[c]) = Filled(w.ackSlot, c)
      /\ Filled(u.ackSlot, c) = IF c \in who THEN w.ackSlot[c] ELSE Filled(w.ackSlot, c)
  BY <1>2, TurnAt DEF IsContext
<1>5. \A i \in 0 .. 1 :
        /\ u.ack[i][c] = IF c \in who /\ w.ackSlot[c] = i THEN snaps[c].ack ELSE w.ack[i][c]
        /\ u.serverAck[i][c] = IF c \in who /\ w.ackSlot[c] = i
                               THEN snaps[c].serverAck ELSE w.serverAck[i][c]
  BY <1>2, PutAt
<1>6. /\ u.seq[c] = IF c \in who THEN snaps[c].seq ELSE w.seq[c]
      /\ c \in who => /\ u.lastSeq[c] = w.seq[c] /\ u.flags[c] = snaps[c].flags
                      /\ u.extra[c] = snaps[c].extra /\ u.deltasnap[c] = snaps[c].deltasnap
  BY <1>3, UpdateAt
<1> QED
  BY <1>4, <1>5, <1>6 DEF u

(* What the splitter has of a client's counters. *)
LEMMA ReadCounters ==
  ASSUME NEW r, IsContext(r), NEW m, NEW c \in Clients
  PROVE  LET v == ReadMerged(r, m)
             slot == Filled(r.ackSlot, c)
             last == Filled(v.ackSlot, c)
         IN  /\ v.ack[last][c] = IF c \in DOMAIN m.ack THEN r.ack[slot][c] + m.ack[c]
                                 ELSE r.ack[slot][c]
             /\ c \in DOMAIN m.serverAck => v.serverAck[last][c] = m.serverAck[c]
             /\ v.seq[c] = IF c \in m.matched
                           THEN r.seq[c] + 1 + IF c \in DOMAIN m.seq THEN m.seq[c] ELSE 0
                           ELSE r.seq[c]
             /\ c \in m.matched =>
                  v.flags[c] = IF c \in DOMAIN m.flags THEN m.flags[c] ELSE m.allFlags
             /\ c \in DOMAIN m.extra => v.extra[c] = m.extra[c]
             /\ c \in DOMAIN m.deltasnap => v.deltasnap[c] = m.deltasnap[c]
<1> DEFINE v   == ReadMerged(r, m)
           last == [e \in Clients |-> Filled(v.ackSlot, e)]
<1>1. ReadFacts(r, m, v)
  BY ReadMergedAt DEF IsContext
<1> HIDE DEF v
<1>2. /\ v.ackSlot = Turn(r.ackSlot, DOMAIN m.ack)
      /\ v.ack = Put(r.ack, r.ackSlot,
             [e \in DOMAIN m.ack |-> r.ack[Other(r.ackSlot[e])][e] + m.ack[e]])
      /\ v.serverAck = Put(r.serverAck, last, m.serverAck)
  BY <1>1 DEF ReadFacts
<1>3. /\ v.seq = Update(r.seq, [e \in m.matched |->
                   r.seq[e] + 1 + IF e \in DOMAIN m.seq THEN m.seq[e] ELSE 0])
      /\ v.flags = Update(r.flags, [e \in m.matched |->
                     IF e \in DOMAIN m.flags THEN m.flags[e] ELSE m.allFlags])
      /\ v.extra = Update(r.extra, m.extra)
      /\ v.deltasnap = Update(r.deltasnap, m.deltasnap)
  BY <1>1 DEF ReadFacts
<1>4. /\ r.ackSlot[c] \in 0 .. 1 /\ Filled(r.ackSlot, c) \in 0 .. 1
      /\ Filled(r.ackSlot, c) # r.ackSlot[c]
      /\ Other(r.ackSlot[c]) = Filled(r.ackSlot, c)
      /\ last[c] = IF c \in DOMAIN m.ack THEN r.ackSlot[c] ELSE Filled(r.ackSlot, c)
      /\ last[c] \in 0 .. 1 /\ last[c] = Filled(v.ackSlot, c)
  BY <1>2, TurnAt DEF IsContext
<1> HIDE DEF last
<1>5. \A i \in 0 .. 1 :
        /\ v.ack[i][c] = IF c \in DOMAIN m.ack /\ r.ackSlot[c] = i
                         THEN r.ack[Other(r.ackSlot[c])][c] + m.ack[c] ELSE r.ack[i][c]
        /\ v.serverAck[i][c] = IF c \in DOMAIN m.serverAck /\ last[c] = i
                               THEN m.serverAck[c] ELSE r.serverAck[i][c]
  BY <1>2, PutAt
<1>6. /\ v.seq[c] = IF c \in m.matched
                    THEN r.seq[c] + 1 + IF c \in DOMAIN m.seq THEN m.seq[c] ELSE 0
                    ELSE r.seq[c]
      /\ c \in m.matched =>
           v.flags[c] = IF c \in DOMAIN m.flags THEN m.flags[c] ELSE m.allFlags
      /\ c \in DOMAIN m.extra => v.extra[c] = m.extra[c]
      /\ c \in DOMAIN m.deltasnap => v.deltasnap[c] = m.deltasnap[c]
  BY <1>3, UpdateAt
<1> QED
  BY <1>4, <1>5, <1>6 DEF v

(* If the flags of all clients are written as one, they are the same. *)
LEMMA OneFlag ==
  ASSUME NEW S \in SUBSET Clients, NEW f, NEW c \in S,
         Cardinality({f[e] : e \in S}) = 1
  PROVE  f[CHOOSE e \in S : TRUE] = f[c]
<1> DEFINE image == {f[e] : e \in S}
<1>1. IsFiniteSet(S)
  BY FrameAssumption, FS_Subset
<1>2. IsFiniteSet(image)
  <2> DEFINE g == [e \in S |-> f[e]]
  <2>1. g \in Surjection(S, image)
    BY DEF Surjection
  <2> QED
    BY <1>1, <2>1, FS_Surjection
<1>3. \E x : image = {x}
  <2> HIDE DEF image
  <2> QED
    BY <1>2, FS_Singleton DEF image
<1>4. (CHOOSE e \in S : TRUE) \in S
  OBVIOUS
<1>5. f[CHOOSE e \in S : TRUE] \in image /\ f[c] \in image
  BY <1>4
<1> QED
  BY <1>3, <1>5

(* What the splitter reads of a client's counters is what its snapshot had, *)
(* the server's acknowledge only if it was written. *)
LEMMA CountersStep ==
  ASSUME NEW w, IsContext(w), NEW r, IsContext(r), NEW c \in Clients,
         AcksAgree(w, r, c), SeqAgrees(w, r, c),
         NEW snaps, DOMAIN snaps \subseteq Clients,
         c \in DOMAIN snaps => IsSnap(snaps[c]),
         NEW first
  PROVE  LET u == Collect(w, snaps)
             v == ReadMerged(r, WriteMerged(w, u, first))
             s == snaps[c]
         IN  /\ AcksAgree(u, v, c) /\ SeqAgrees(u, v, c)
             /\ c \in DOMAIN snaps =>
                  /\ v.seq[c] = s.seq
                  /\ v.ack[Filled(v.ackSlot, c)][c] = s.ack
                  /\ v.deltasnap[c] = s.deltasnap
                  /\ s.deltasnap.span = 0 \/ s.deltasnap.explicit =>
                       v.serverAck[Filled(v.ackSlot, c)][c] = s.serverAck
                  /\ v.flags[c] = s.flags /\ v.extra[c] = s.extra
<1> DEFINE u   == Collect(w, snaps)
           m   == WriteMerged(w, u, first)
           v   == ReadMerged(r, m)
           who == DOMAIN snaps
           acks(e) == u.ack[Filled(u.ackSlot, e)][e] - u.ack[Other(Filled(u.ackSlot, e))][e]
           jump(e) == u.seq[e] - u.lastSeq[e] - 1
           asks(e) == u.deltasnap[e].span = 0 \/ u.deltasnap[e].explicit
<1>1. u.matched = who
  <2>1. CollectFacts(w, snaps, u)
    BY CollectAt DEF IsContext
  <2> QED
    BY <2>1 DEF CollectFacts
<1> HIDE DEF u
<1>2. /\ m.matched = who
      /\ c \in DOMAIN m.ack <=> c \in who /\ acks(c) # 0
      /\ c \in DOMAIN m.ack => m.ack[c] = acks(c)
      /\ c \in DOMAIN m.seq <=> c \in who /\ jump(c) # 0
      /\ c \in DOMAIN m.seq => m.seq[c] = jump(c)
  BY <1>1 DEF WriteMerged
<1>3. /\ c \in DOMAIN m.serverAck <=> c \in who /\ asks(c)
      /\ c \in DOMAIN m.serverAck => m.serverAck[c] = u.serverAck[Filled(u.ackSlot, c)][c]
      /\ c \in who => c \in DOMAIN m.extra /\ m.extra[c] = u.extra[c]
      /\ c \in who => c \in DOMAIN m.deltasnap /\ m.deltasnap[c] = u.deltasnap[c]
  BY <1>1 DEF WriteMerged
<1>4. c \in who => (IF c \in DOMAIN m.flags THEN m.flags[c] ELSE m.allFlags) = u.flags[c]
  <2>1. CASE Cardinality({u.flags[e] : e \in who}) = 1
    <3>1. c \in who => u.flags[CHOOSE e \in who : TRUE] = u.flags[c]
      BY <2>1, OneFlag
    <3>2. m.flags = [e \in {} |-> 0] /\ m.allFlags = u.flags[CHOOSE e \in who : TRUE]
      BY <1>1, <2>1 DEF WriteMerged
    <3> QED
      BY <3>1, <3>2
  <2>2. CASE Cardinality({u.flags[e] : e \in who}) # 1
    BY <1>1, <2>2 DEF WriteMerged
  <2> QED
    BY <2>1, <2>2
<1> HIDE DEF m
<1>5. /\ v.ack[Filled(v.ackSlot, c)][c] =
             IF c \in DOMAIN m.ack THEN r.ack[Filled(r.ackSlot, c)][c] + m.ack[c]
             ELSE r.ack[Filled(r.ackSlot, c)][c]
      /\ c \in DOMAIN m.serverAck =>
           v.serverAck[Filled(v.ackSlot, c)][c] = m.serverAck[c]
      /\ v.seq[c] = IF c \in m.matched
                    THEN r.seq[c] + 1 + IF c \in DOMAIN m.seq THEN m.seq[c] ELSE 0
                    ELSE r.seq[c]
      /\ c \in m.matched =>
           v.flags[c] = IF c \in DOMAIN m.flags THEN m.flags[c] ELSE m.allFlags
      /\ c \in DOMAIN m.extra => v.extra[c] = m.extra[c]
      /\ c \in DOMAIN m.deltasnap => v.deltasnap[c] = m.deltasnap[c]
  BY ReadCounters
<1> HIDE DEF v
<1>6. Filled(w.ackSlot, c) \in 0 .. 1
  BY TurnAt DEF IsContext
<1>7. CASE c \notin who
  <2>1. /\ Filled(u.ackSlot, c) = Filled(w.ackSlot, c)
        /\ \A i \in 0 .. 1 : u.ack[i][c] = w.ack[i][c]
        /\ u.seq[c] = w.seq[c]
    BY <1>7, CollectCounters DEF u
  <2>2. AcksAgree(u, v, c)
    BY <1>2, <1>5, <1>6, <1>7, <2>1 DEF AcksAgree
  <2>3. SeqAgrees(u, v, c)
    BY <1>2, <1>5, <1>7, <2>1 DEF SeqAgrees
  <2> QED
    BY <1>7, <2>2, <2>3 DEF u, v, m
<1>8. CASE c \in who
  <2> DEFINE slot == w.ackSlot[c]
             s    == snaps[c]
  <2>1. /\ Filled(u.ackSlot, c) = slot /\ Other(slot) = Filled(w.ackSlot, c)
        /\ u.ack[slot][c] = s.ack
        /\ u.ack[Other(slot)][c] = w.ack[Other(slot)][c]
        /\ u.serverAck[slot][c] = s.serverAck
        /\ u.seq[c] = s.seq /\ u.lastSeq[c] = w.seq[c]
        /\ u.flags[c] = s.flags /\ u.extra[c] = s.extra
        /\ u.deltasnap[c] = s.deltasnap
    BY <1>8, CollectCounters DEF u
  <2>2. s.seq \in Int /\ s.ack \in Int
    BY <1>8 DEF IsSnap
  <2>3. v.ack[Filled(v.ackSlot, c)][c] = s.ack
    <3>1. acks(c) = s.ack - r.ack[Filled(r.ackSlot, c)][c]
      BY <2>1 DEF AcksAgree
    <3> QED
      BY <1>2, <1>5, <1>8, <2>2, <3>1 DEF AcksAgree
  <2>4. v.seq[c] = s.seq
    <3>1. jump(c) = s.seq - r.seq[c] - 1 /\ r.seq[c] \in Int
      BY <2>1 DEF SeqAgrees
    <3> QED
      BY <1>2, <1>5, <1>8, <2>2, <3>1
  <2>5. s.deltasnap.span = 0 \/ s.deltasnap.explicit =>
          v.serverAck[Filled(v.ackSlot, c)][c] = s.serverAck
    BY <1>3, <1>5, <1>8, <2>1
  <2>6. v.deltasnap[c] = s.deltasnap /\ v.extra[c] = s.extra /\ v.flags[c] = s.flags
    BY <1>2, <1>3, <1>4, <1>5, <1>8, <2>1
  <2>7. AcksAgree(u, v, c) /\ SeqAgrees(u, v, c)
    BY <2>1, <2>2, <2>3, <2>4 DEF AcksAgree, SeqAgrees
  <2> QED
    BY <2>3, <2>4, <2>5, <2>6, <2>7 DEF u, v, m
<1> QED
  BY <1>7, <1>8

-----------------------------------------------------------------------------
(* The version of an entity gives its value away, which is why one with    *)
(* its old version need not be written. *)
Known(w, n) ==
  /\ w.frame[n].val \in 0 .. Mod - 1 /\ w.frame[n].ver[2] = w.frame[n].val
  /\ w.frame[n].marks \subseteq w.owners[n]

(* Both have the same entities, with the same owners, and one for each     *)
(* number that has an owner. *)
EntitiesAgree(w, r) ==
  /\ r.owners = w.owners
  /\ DOMAIN w.frame = {n \in Entities : w.owners[n] # {}}
  /\ DOMAIN r.frame = DOMAIN w.frame
  /\ \A n \in DOMAIN w.frame :
       /\ Known(w, n)
       /\ r.frame[n].val = w.frame[n].val /\ r.frame[n].marks = w.frame[n].marks

(* The clients that see entity n in this frame. *)
SeenBy(snaps, n) == {c \in DOMAIN snaps : n \in DOMAIN snaps[c].ents}

(* A set of natural numbers has a least one: among the intervals up to its *)
(* members there is one that contains no other. *)
LEMMA LeastOf ==
  ASSUME NEW S \in SUBSET Nat, S # {}
  PROVE  \E x \in S : \A y \in S : x <= y
<1> DEFINE Below == {0 .. k : k \in S}
<1>1. \A k \in S : IsFiniteSet(0 .. k) /\ 0 .. k \subseteq Nat
  BY FS_Interval
<1>2. Below \subseteq FiniteSubsetsOf(Nat) /\ Below # {}
  BY <1>1 DEF FiniteSubsetsOf
<1>3. PICK b \in Below : \A a \in Below : ~ (<<a, b>> \in StrictSubsetOrdering(Nat))
  <2> HIDE DEF Below
  <2> QED
    BY <1>2, FS_StrictSubsetOrderingWellFounded, WFMin
<1>4. PICK x \in S : b = 0 .. x
  BY <1>3
<1>5. ASSUME NEW y \in S, y < x
      PROVE  FALSE
  <2>1. 0 .. y \in Below /\ 0 .. y \in SUBSET Nat /\ 0 .. x \in SUBSET Nat
    OBVIOUS
  <2>2. 0 .. y \subseteq 0 .. x /\ x \in 0 .. x /\ x \notin 0 .. y
    BY <1>5
  <2> QED
    BY <2>1, <2>2, <1>3, <1>4 DEF StrictSubsetOrdering
<1> QED
  BY <1>5

(* Who has an entity: for a client in the frame, exactly if it sees it. *)
LEMMA UniteAt ==
  ASSUME NEW prev, NEW snaps, NEW n \in Entities
  PROVE  /\ Unite(prev, snaps)[n] =
              IF SeenBy(snaps, n) = {} THEN {}
              ELSE SeenBy(snaps, n) \cup (prev[n] \ DOMAIN snaps)
         /\ Unite(prev, snaps)[n] # {} <=> SeenBy(snaps, n) # {}
         /\ \A c \in DOMAIN snaps :
              c \in Unite(prev, snaps)[n] <=> n \in DOMAIN snaps[c].ents
BY DEF Unite, SeenBy

(* An entity's state is the one that some client sees. *)
LEMMA UnitedAt ==
  ASSUME NEW prev, NEW snaps, DOMAIN snaps \subseteq Clients,
         NEW n \in Entities, Unite(prev, snaps)[n] # {}
  PROVE  LET new == United(snaps, Unite(prev, snaps))[n]
         IN  /\ \E c \in SeenBy(snaps, n) : new.val = snaps[c].ents[n]
             /\ new.ver[2] = new.val
             /\ new.marks = {c \in SeenBy(snaps, n) : n \in snaps[c].marks}
             /\ new.marks \subseteq Unite(prev, snaps)[n]
<1> DEFINE see   == SeenBy(snaps, n)
           first == CHOOSE c \in see : \A d \in see : c <= d
           new   == United(snaps, Unite(prev, snaps))[n]
<1>1. see # {} /\ see \subseteq Unite(prev, snaps)[n]
  <2>1. Unite(prev, snaps)[n] = IF see = {} THEN {} ELSE see \cup (prev[n] \ DOMAIN snaps)
    BY UniteAt
  <2> HIDE DEF see
  <2> QED
    BY <2>1
<1>2. see \in SUBSET Nat
  BY FrameAssumption DEF SeenBy
<1>3. \E c \in see : \A d \in see : c <= d
  <2> HIDE DEF see
  <2> QED
    BY <1>1, <1>2, LeastOf
<1>4. first \in see
  <2> HIDE DEF see
  <2> QED
    BY <1>3
<1>5. new = [val |-> snaps[first].ents[n], ver |-> <<first, snaps[first].ents[n]>>,
             marks |-> {c \in see : n \in snaps[c].marks}]
  BY DEF United, SeenBy
<1> HIDE DEF see, first, new
<1> QED
  BY <1>1, <1>4, <1>5 DEF see, new

(* What the combiner has of the entities. *)
LEMMA CollectEntities ==
  ASSUME NEW w, IsContext(w),
         NEW snaps, DOMAIN snaps \subseteq Clients, \A c \in DOMAIN snaps : IsSnap(snaps[c])
  PROVE  LET u == Collect(w, snaps)
         IN  /\ u.owners = Unite(w.owners, snaps)
             /\ u.frame = United(snaps, u.owners)
             /\ DOMAIN u.frame = {n \in Entities : u.owners[n] # {}}
             /\ \A n \in DOMAIN u.frame : Known(u, n)
<1> DEFINE u == Collect(w, snaps)
<1>1. CollectFacts(w, snaps, u)
  BY CollectAt DEF IsContext
<1> HIDE DEF u
<1>2. u.owners = Unite(w.owners, snaps) /\ u.frame = United(snaps, u.owners)
  BY <1>1 DEF CollectFacts
<1>3. DOMAIN u.frame = {n \in Entities : u.owners[n] # {}}
  BY <1>2 DEF United
<1>4. ASSUME NEW n \in DOMAIN u.frame
      PROVE  Known(u, n)
  <2>1. n \in Entities /\ Unite(w.owners, snaps)[n] # {}
    BY <1>2, <1>3
  <2>2. /\ \E c \in SeenBy(snaps, n) : u.frame[n].val = snaps[c].ents[n]
        /\ u.frame[n].ver[2] = u.frame[n].val
        /\ u.frame[n].marks \subseteq u.owners[n]
    BY <1>2, <2>1, UnitedAt
  <2>3. \A c \in SeenBy(snaps, n) : snaps[c].ents[n] \in 0 .. Mod - 1
    BY DEF SeenBy, IsSnap
  <2> QED
    BY <2>2, <2>3 DEF Known
<1> QED
  BY <1>2, <1>3, <1>4 DEF u

(* What is written of the entities of u against those of w gives those of  *)
(* u to a splitter that has those of w, and the owners with them.          *)
LEMMA EntitiesBack ==
  ASSUME NEW w, NEW r, EntitiesAgree(w, r), IsContext(r),
         NEW u, DOMAIN u.frame = {n \in Entities : u.owners[n] # {}},
         \A n \in DOMAIN u.frame : Known(u, n),
         u.owners = [n \in Entities |-> u.owners[n]],
         NEW first \in BOOLEAN, first => DOMAIN w.frame = {},
         NEW m, m.delta = ~ first,
         m.entities = WriteEntities(IF first THEN [n \in {} |-> 0] ELSE w.frame,
                                    w.owners, u.frame, u.owners)
  PROVE  LET v == ReadMerged(r, m)
         IN  EntitiesAgree(u, v)
<1> DEFINE v == ReadMerged(r, m)
           base  == IF first THEN [n \in {} |-> 0] ELSE w.frame
           rbase == IF m.delta THEN r.frame ELSE [n \in {} |-> 0]
           from(n)  == IF n \in DOMAIN base THEN base[n] ELSE [val |-> 0, marks |-> {}]
           rfrom(n) == IF n \in DOMAIN rbase THEN rbase[n] ELSE [val |-> 0, marks |-> {}]
           same(n) == w.owners[n] = u.owners[n]
           said  == m.entities.said
           there == (DOMAIN rbase \ m.entities.gone) \cup DOMAIN said
<1>1. ReadFacts(r, m, v)
  BY ReadMergedAt DEF IsContext
<1> HIDE DEF v
<1>2. /\ DOMAIN base = DOMAIN w.frame /\ DOMAIN rbase = DOMAIN base
      /\ \A n \in DOMAIN base : base[n] = w.frame[n] /\ rbase[n] = r.frame[n]
  BY DEF EntitiesAgree
<1>3. /\ v.owners = OwnersRead(r.owners, there, said)
      /\ v.frame = [n \in there |->
           IF n \in DOMAIN said
           THEN [val   |-> Changed(rfrom(n).val, said[n].val),
                 marks |-> Xor(rfrom(n).marks, said[n].marks)]
           ELSE rbase[n]]
  BY <1>1 DEF ReadFacts
<1>4. /\ DOMAIN said = {n \in DOMAIN u.frame :
              n \in DOMAIN base => ~ Unsaid(base[n], u.frame[n], same(n))}
      /\ \A n \in DOMAIN said :
           /\ said[n].val = Change(from(n).val, u.frame[n].val)
           /\ said[n].marks = Xor(from(n).marks, u.frame[n].marks)
           /\ said[n].owners = Xor(w.owners[n], u.owners[n])
      /\ m.entities.gone = DOMAIN base \ DOMAIN u.frame
  BY DEF WriteEntities
<1>5. there = DOMAIN u.frame
  BY <1>2, <1>4
<1>10. /\ \A n \in there : n \in DOMAIN said =>
            /\ v.frame[n].val = Changed(rfrom(n).val, said[n].val)
            /\ v.frame[n].marks = Xor(rfrom(n).marks, said[n].marks)
       /\ \A n \in there : n \notin DOMAIN said => v.frame[n] = rbase[n]
  <2> HIDE DEF rfrom, rbase, said, there
  <2> QED
    BY <1>3
<1>12. \A n \in there : n \in Entities /\
         v.owners[n] = IF n \in DOMAIN said THEN Xor(r.owners[n], said[n].owners)
                       ELSE r.owners[n]
  <2>1. there \subseteq Entities
    BY <1>5
  <2>2. v.owners = OwnersRead(r.owners, there, said)
    BY <1>3
  <2> HIDE DEF there, said
  <2> QED
    BY <2>1, <2>2 DEF OwnersRead
<1> HIDE DEF base, rbase, said, there
<1>6. ASSUME NEW n \in DOMAIN u.frame, n \in DOMAIN said
      PROVE  /\ v.frame[n].val = u.frame[n].val /\ v.frame[n].marks = u.frame[n].marks
             /\ v.owners[n] = u.owners[n]
  <2>1. rfrom(n).val = from(n).val /\ rfrom(n).marks = from(n).marks
    BY <1>2 DEF EntitiesAgree
  <2>2. from(n).val \in 0 .. Mod - 1 /\ u.frame[n].val \in 0 .. Mod - 1
    BY <1>2, FrameAssumption DEF EntitiesAgree, Known
  <2> HIDE DEF from, rfrom
  <2>3. /\ v.frame[n].val = Changed(from(n).val, Change(from(n).val, u.frame[n].val))
        /\ v.frame[n].marks = Xor(from(n).marks, Xor(from(n).marks, u.frame[n].marks))
    BY <1>4, <1>5, <1>6, <1>10, <2>1
  <2>4. v.owners[n] = Xor(r.owners[n], Xor(w.owners[n], u.owners[n]))
    BY <1>4, <1>5, <1>6, <1>12
  <2> QED
    BY <2>2, <2>3, <2>4, ChangeBack, XorBack DEF EntitiesAgree
<1>7. ASSUME NEW n \in DOMAIN u.frame, n \notin DOMAIN said
      PROVE  /\ v.frame[n].val = u.frame[n].val /\ v.frame[n].marks = u.frame[n].marks
             /\ v.owners[n] = u.owners[n]
  <2>1. n \in DOMAIN base /\ Unsaid(base[n], u.frame[n], same(n))
    BY <1>4, <1>7
  <2>2. /\ w.owners[n] = u.owners[n]
        /\ w.frame[n].val = u.frame[n].val /\ w.frame[n].marks = u.frame[n].marks
    <3>1. base[n] = w.frame[n] /\ Known(w, n) /\ Known(u, n)
      BY <1>2, <2>1 DEF EntitiesAgree
    <3>2. Unsaid(w.frame[n], u.frame[n], w.owners[n] = u.owners[n])
      BY <2>1, <3>1
    <3> QED
      BY <3>1, <3>2 DEF Unsaid, Known
  <2>3. v.frame[n] = r.frame[n] /\ v.owners[n] = r.owners[n]
    BY <1>2, <1>3, <1>5, <1>7, <2>1 DEF OwnersRead
  <2> QED
    BY <1>2, <2>1, <2>2, <2>3 DEF EntitiesAgree
<1>8. v.owners = u.owners
  <2>1. v.owners = [n \in Entities |-> v.owners[n]]
    BY <1>3 DEF OwnersRead
  <2>2. \A n \in Entities : n \notin DOMAIN u.frame => v.owners[n] = {} /\ u.owners[n] = {}
    BY <1>3, <1>5 DEF OwnersRead
  <2>3. \A n \in Entities : v.owners[n] = u.owners[n]
    BY <1>6, <1>7, <2>2
  <2> QED
    BY <2>1, <2>3
<1>9. DOMAIN v.frame = DOMAIN u.frame
  BY <1>3, <1>5
<1> QED
  BY <1>6, <1>7, <1>8, <1>9 DEF EntitiesAgree, v

-----------------------------------------------------------------------------
(* The two contexts agree on all that the next message is a difference to. *)
ContextsCorrespond ==
  /\ IsContext(combiner) /\ IsContext(splitter)
  /\ EntitiesAgree(combiner, splitter)
  /\ \A c \in Clients : /\ PlayerAgrees(combiner, splitter, c)
                        /\ AcksAgree(combiner, splitter, c)
                        /\ SeqAgrees(combiner, splitter, c)
  /\ frames = 0 => DOMAIN combiner.frame = {}

(* The rings of sequences are those of the demos. *)
DemosCorrespond ==
  \A c \in Clients : /\ demos[c].seq \in Nat /\ demos[c].ack \in Int
                     /\ split[c].ring = demos[c].ring

(* Every split snapshot is the one that was collected. *)
Exact == EntitiesExact /\ PlayersExact /\ CountersExact

(* The inductive invariant. *)
FrameInv == /\ inputs \in Inputs /\ frames \in Nat
            /\ ContextsCorrespond /\ DemosCorrespond /\ Exact

-----------------------------------------------------------------------------
(* A snapshot that a client's demo can hold is one that both tools expect. *)
LEMMA SnapshotIs ==
  ASSUME NEW d, d.seq \in Nat, d.ack \in Int, NEW s, IsView(s),
         NEW world \in [Entities -> 0 .. Mod - 1]
  PROVE  LET snap == Snapshot(d, s, world)
         IN  /\ IsSnap(snap)
             /\ \A n \in DOMAIN snap.ents : snap.ents[n] = world[n]
             /\ snap.deltasnap.span # 0 /\ ~ snap.deltasnap.explicit =>
                  d.ring[SlotOf(snap.seq - snap.deltasnap.span)].cmd = snap.serverAck
<1> DEFINE snap == Snapshot(d, s, world)
<1>1. /\ snap.seq = d.seq + 1 + s.lost /\ snap.ack = d.ack + s.acked
      /\ snap.ps = s.ps /\ snap.vps = s.vps /\ snap.marks = s.marks
      /\ snap.ents = [n \in s.sees |-> world[n]]
  BY DEF Snapshot
<1>2. snap.deltasnap = IF s.span = 0 THEN NoDelta
                       ELSE [span |-> s.span,
                             explicit |-> Named(d, snap.seq - s.span, snap.serverAck)]
  BY DEF Snapshot
<1> HIDE DEF snap
<1>3. IsSnap(snap)
  BY <1>1 DEF IsSnap, IsView
<1>4. \A n \in DOMAIN snap.ents : snap.ents[n] = world[n]
  BY <1>1
<1>5. ASSUME snap.deltasnap.span # 0, ~ snap.deltasnap.explicit
      PROVE  d.ring[SlotOf(snap.seq - snap.deltasnap.span)].cmd = snap.serverAck
  <2>1. s.span # 0
    BY <1>2, <1>5 DEF NoDelta
  <2>2. ~ Named(d, snap.seq - s.span, snap.serverAck) /\ snap.deltasnap.span = s.span
    BY <1>2, <1>5, <2>1
  <2> QED
    BY <2>2 DEF Named
<1> QED
  BY <1>3, <1>4, <1>5 DEF snap

(* The snapshot that the splitter makes. *)
LEMMA GiveAt ==
  ASSUME NEW r, NEW c, NEW sp, NEW cmd
  PROVE  LET out == Give(r, c, sp, cmd)
         IN  /\ out.seq = r.seq[c] /\ out.cmd = cmd
             /\ out.ack = r.ack[Filled(r.ackSlot, c)][c]
             /\ out.span = r.deltasnap[c].span
             /\ out.first = IF r.deltasnap[c].span # 0 /\ ~ r.deltasnap[c].explicit
                            THEN sp.ring[SlotOf(r.seq[c] - r.deltasnap[c].span)].cmd + 1
                            ELSE r.serverAck[Filled(r.ackSlot, c)][c] + 1
             /\ out.ps = r.ps[r.psSlot[c]][c]
             /\ out.ps.veh => out.vps = r.vps[r.psSlot[c]][c]
             /\ out.flags = r.flags[c] /\ out.extra = r.extra[c]
             /\ out # NoSnap
<1> DEFINE out == Give(r, c, sp, cmd)
<1>1. "cmd" \in DOMAIN out /\ "cmd" \notin DOMAIN NoSnap
  BY DEF Give, NoSnap
<1>2. out # NoSnap
  <2> HIDE DEF out
  <2> QED
    BY <1>1
<1> QED
  BY <1>2 DEF Give

(* The contexts are zero at first, and there is no base. *)
LEMMA InitInv == Init => FrameInv
<1> SUFFICES ASSUME Init PROVE FrameInv
  OBVIOUS
<1>1. IsContext(ZeroContext)
  BY DEF IsContext, ZeroContext, Fields
<1>2. EntitiesAgree(ZeroContext, ZeroContext)
  BY DEF EntitiesAgree, ZeroContext
<1>3. ASSUME NEW c \in Clients
      PROVE  /\ PlayerAgrees(ZeroContext, ZeroContext, c)
             /\ AcksAgree(ZeroContext, ZeroContext, c)
             /\ SeqAgrees(ZeroContext, ZeroContext, c)
  BY DEF PlayerAgrees, AcksAgree, SeqAgrees, ZeroContext, Both, Filled, Other
<1>4. DOMAIN ZeroContext.frame = {}
  BY DEF ZeroContext
<1>5. ContextsCorrespond
  BY <1>1, <1>2, <1>3, <1>4 DEF ContextsCorrespond, Init
<1>6. DemosCorrespond
  BY FrameAssumption DEF DemosCorrespond, Init
<1>7. Exact
  <2>1. Given = {} /\ splitter.matched = {}
    BY DEF Given, Init, ZeroContext
  <2> QED
    BY <2>1 DEF Exact, EntitiesExact, PlayersExact, CountersExact
<1> QED
  BY <1>5, <1>6, <1>7 DEF FrameInv, Init

(* A frame leaves two contexts that agree on the entities. *)
LEMMA ContextsStep ==
  ASSUME FrameInv,
         NEW snaps, DOMAIN snaps \subseteq Clients, \A c \in DOMAIN snaps : IsSnap(snaps[c])
  PROVE  LET u == Collect(combiner, snaps)
             m == WriteMerged(combiner, u, frames = 0)
             v == ReadMerged(splitter, m)
         IN  /\ IsContext(u) /\ IsContext(v)
             /\ m.matched = DOMAIN snaps /\ v.matched = DOMAIN snaps
             /\ EntitiesAgree(u, v)
             /\ u.owners = Unite(combiner.owners, snaps)
             /\ u.frame = United(snaps, u.owners)
<1> DEFINE u == Collect(combiner, snaps)
           m == WriteMerged(combiner, u, frames = 0)
           v == ReadMerged(splitter, m)
<1>1. IsContext(combiner) /\ IsContext(splitter) /\ EntitiesAgree(combiner, splitter)
  BY DEF FrameInv, ContextsCorrespond
<1>2. CollectFacts(combiner, snaps, u)
  BY <1>1, CollectAt DEF IsContext
<1>3. ReadFacts(splitter, m, v)
  BY <1>1, ReadMergedAt DEF IsContext
<1>4. /\ u.owners = Unite(combiner.owners, snaps)
      /\ u.frame = United(snaps, u.owners)
      /\ DOMAIN u.frame = {n \in Entities : u.owners[n] # {}}
      /\ \A n \in DOMAIN u.frame : Known(u, n)
  BY <1>1, CollectEntities
<1> HIDE DEF u
<1>5. IsContext(u) /\ u.matched = DOMAIN snaps
  BY <1>1, <1>2, TurnAt DEF IsContext, CollectFacts
<1>6. m.matched = DOMAIN snaps
  BY <1>5 DEF WriteMerged
<1>7. /\ m.delta = ~ (frames = 0)
      /\ m.entities = WriteEntities(IF frames = 0 THEN [n \in {} |-> 0] ELSE combiner.frame,
                                    combiner.owners, u.frame, u.owners)
  BY DEF WriteMerged
<1>8. u.owners = [n \in Entities |-> u.owners[n]]
  BY <1>4 DEF Unite
<1> HIDE DEF m
<1>9. EntitiesAgree(u, v)
  <2>1. frames = 0 => DOMAIN combiner.frame = {}
    BY DEF FrameInv, ContextsCorrespond
  <2>2. (frames = 0) \in BOOLEAN
    OBVIOUS
  <2> QED
    BY <1>1, <1>4, <1>7, <1>8, <2>1, <2>2, EntitiesBack
<1> HIDE DEF v
<1>10. IsContext(v) /\ v.matched = DOMAIN snaps
  <2>1. /\ DOMAIN v = Fields /\ v.matched = m.matched
        /\ v.psSlot = Turn(splitter.psSlot, DOMAIN m.players)
        /\ v.ackSlot = Turn(splitter.ackSlot, DOMAIN m.ack)
    BY <1>3, Zenon DEF ReadFacts
  <2> QED
    BY <1>1, <1>6, <2>1, TurnAt DEF IsContext
<1> QED
  BY <1>4, <1>5, <1>6, <1>9, <1>10 DEF u, m, v

(* The snapshots of a frame show one world, or parts of it. *)
OneWorld(snaps, world) ==
  \A c \in DOMAIN snaps :
    IsSnap(snaps[c]) /\ \A n \in DOMAIN snaps[c].ents : snaps[c].ents[n] = world[n]

(* The entities that the splitter gives a client are the ones that its     *)
(* snapshot has, if all snapshots are of one world.                        *)
LEMMA EntitiesGiven ==
  ASSUME NEW world, NEW snaps, DOMAIN snaps \subseteq Clients, OneWorld(snaps, world),
         NEW prev, NEW u, NEW v, EntitiesAgree(u, v),
         u.owners = Unite(prev, snaps), u.frame = United(snaps, u.owners),
         NEW c \in DOMAIN snaps, NEW sp, NEW cmd
  PROVE  /\ Give(v, c, sp, cmd).ents = snaps[c].ents
         /\ Give(v, c, sp, cmd).marks = snaps[c].marks
<1> DEFINE s    == snaps[c]
           mine == {n \in DOMAIN v.frame : c \in v.owners[n]}
<1>1. /\ s.ents = [n \in DOMAIN s.ents |-> s.ents[n]]
      /\ DOMAIN s.ents \subseteq Entities /\ s.marks \subseteq DOMAIN s.ents
  BY DEF OneWorld, IsSnap
<1>2. mine = DOMAIN s.ents
  <2>1. DOMAIN v.frame = {n \in Entities : u.owners[n] # {}} /\ v.owners = u.owners
    BY DEF EntitiesAgree
  <2>2. \A n \in Entities : c \in Unite(prev, snaps)[n] <=> n \in DOMAIN s.ents
    BY UniteAt
  <2> QED
    BY <1>1, <2>1, <2>2
<1>3. ASSUME NEW n \in mine
      PROVE  /\ v.frame[n].val = s.ents[n]
             /\ c \in v.frame[n].marks <=> n \in s.marks
  <2>1. /\ n \in Entities /\ Unite(prev, snaps)[n] # {}
        /\ v.frame[n].val = u.frame[n].val /\ v.frame[n].marks = u.frame[n].marks
    BY DEF EntitiesAgree
  <2>2. /\ \E d \in SeenBy(snaps, n) : u.frame[n].val = snaps[d].ents[n]
        /\ u.frame[n].marks = {d \in SeenBy(snaps, n) : n \in snaps[d].marks}
    BY <2>1, UnitedAt
  <2>3. \A d \in SeenBy(snaps, n) : snaps[d].ents[n] = world[n]
    BY DEF SeenBy, OneWorld
  <2>4. n \in DOMAIN s.ents /\ c \in SeenBy(snaps, n)
    BY <1>2 DEF SeenBy
  <2> QED
    BY <2>1, <2>2, <2>3, <2>4
<1>4. /\ Give(v, c, sp, cmd).ents = [n \in mine |-> v.frame[n].val]
      /\ Give(v, c, sp, cmd).marks = {n \in mine : c \in v.frame[n].marks}
  BY DEF Give
<1> HIDE DEF mine, s
<1>5. [n \in mine |-> v.frame[n].val] = s.ents
  BY <1>1, <1>2, <1>3
<1>6. {n \in mine : c \in v.frame[n].marks} = s.marks
  BY <1>1, <1>2, <1>3
<1> QED
  BY <1>4, <1>5, <1>6 DEF s

(* A frame keeps the invariant: the lemmas for each kind of data, and what *)
(* Give makes of the splitter's context. *)
LEMMA NextInv ==
  ASSUME FrameInv, Next
  PROVE  FrameInv'
<1>1. PICK world \in inputs.worlds, who \in SUBSET Clients \ {{}} :
        \E choice \in [who -> UNION {inputs.views[c] : c \in who}] :
           /\ \A c \in who : choice[c] \in inputs.views[c]
           /\ Frame(world, choice)
  BY DEF Next
<1>2. PICK choice \in [who -> UNION {inputs.views[c] : c \in who}] :
           /\ \A c \in who : choice[c] \in inputs.views[c]
           /\ Frame(world, choice)
  BY <1>1
<1> DEFINE snaps == [c \in DOMAIN choice |-> Snapshot(demos[c], choice[c], world)]
           u     == Collect(combiner, snaps)
           m     == WriteMerged(combiner, u, frames = 0)
           v     == ReadMerged(splitter, m)
           out   == [c \in m.matched |-> Give(v, c, split[c], snaps[c].cmd)]
<1>3. /\ frames' = frames + 1 /\ inputs' = inputs
      /\ demos' = Update(demos, [c \in DOMAIN snaps |-> ReadDemo(demos[c], snaps[c])])
      /\ seen' = Update([c \in Clients |-> NoSnap], snaps)
      /\ combiner' = u /\ splitter' = v
      /\ split' = Update(split, [c \in m.matched |->
                    [ring |-> [split[c].ring EXCEPT
                       ![SlotOf(out[c].seq)] = [seq |-> out[c].seq, cmd |-> out[c].cmd]]]])
      /\ given' = Update([c \in Clients |-> NoSnap], out)
  BY <1>2 DEF Frame
<1>4. /\ DOMAIN snaps = who /\ who \subseteq Clients
      /\ \A c \in who : /\ IsSnap(snaps[c])
                        /\ \A n \in DOMAIN snaps[c].ents : snaps[c].ents[n] = world[n]
                        /\ snaps[c].deltasnap.span # 0 /\ ~ snaps[c].deltasnap.explicit =>
                             demos[c].ring[SlotOf(snaps[c].seq - snaps[c].deltasnap.span)].cmd
                               = snaps[c].serverAck
  <2>1. world \in [Entities -> 0 .. Mod - 1]
    BY FrameAssumption DEF FrameInv
  <2>2. \A c \in who : IsView(choice[c])
    BY <1>2, FrameAssumption DEF FrameInv
  <2>3. \A c \in who : demos[c].seq \in Nat /\ demos[c].ack \in Int
    BY DEF FrameInv, DemosCorrespond
  <2>4. /\ DOMAIN snaps = who /\ who \subseteq Clients
        /\ \A c \in who : snaps[c] = Snapshot(demos[c], choice[c], world)
    OBVIOUS
  <2> HIDE DEF snaps
  <2>5. ASSUME NEW c \in who
        PROVE  /\ IsSnap(snaps[c])
               /\ \A n \in DOMAIN snaps[c].ents : snaps[c].ents[n] = world[n]
               /\ snaps[c].deltasnap.span # 0 /\ ~ snaps[c].deltasnap.explicit =>
                    demos[c].ring[SlotOf(snaps[c].seq - snaps[c].deltasnap.span)].cmd
                      = snaps[c].serverAck
    <3>1. snaps[c] = Snapshot(demos[c], choice[c], world)
      BY <2>4
    <3>2. IsView(choice[c]) /\ demos[c].seq \in Nat /\ demos[c].ack \in Int
      BY <2>2, <2>3
    <3> QED
      BY <2>1, <3>1, <3>2, SnapshotIs
  <2> QED
    BY <2>4, <2>5
<1> HIDE DEF snaps
<1>5. /\ IsContext(u) /\ IsContext(v)
      /\ m.matched = who /\ v.matched = who
      /\ EntitiesAgree(u, v)
      /\ u.owners = Unite(combiner.owners, snaps) /\ u.frame = United(snaps, u.owners)
  BY <1>4, ContextsStep
<1>6. ASSUME NEW c \in Clients
      PROVE  /\ PlayerAgrees(u, v, c)
             /\ c \in who =>
                  /\ v.ps[v.psSlot[c]][c] = snaps[c].ps
                  /\ snaps[c].ps.veh => v.vps[v.psSlot[c]][c] = snaps[c].vps
  BY <1>4, PlayersStep DEF FrameInv, ContextsCorrespond
<1>7. ASSUME NEW c \in Clients
      PROVE  /\ AcksAgree(u, v, c) /\ SeqAgrees(u, v, c)
             /\ c \in who =>
                  /\ v.seq[c] = snaps[c].seq
                  /\ v.ack[Filled(v.ackSlot, c)][c] = snaps[c].ack
                  /\ v.deltasnap[c] = snaps[c].deltasnap
                  /\ snaps[c].deltasnap.span = 0 \/ snaps[c].deltasnap.explicit =>
                       v.serverAck[Filled(v.ackSlot, c)][c] = snaps[c].serverAck
                  /\ v.flags[c] = snaps[c].flags /\ v.extra[c] = snaps[c].extra
  BY <1>4, CountersStep DEF FrameInv, ContextsCorrespond
<1> HIDE DEF u, m, v
<1>8. ContextsCorrespond'
  BY <1>3, <1>5, <1>6, <1>7 DEF ContextsCorrespond, FrameInv
<1>9. \A c \in who : /\ c \in Clients /\ out[c] = Give(v, c, split[c], snaps[c].cmd)
                     /\ snaps[c].seq \in Nat
  BY <1>4, <1>5 DEF IsSnap
<1>10. ASSUME NEW c \in Clients
       PROVE  /\ given'[c] = IF c \in who THEN out[c] ELSE NoSnap
              /\ seen'[c] = IF c \in who THEN snaps[c] ELSE NoSnap
  BY <1>3, <1>4, <1>5, UpdateAt
<1> HIDE DEF out
<1>11. DemosCorrespond'
  <2> SUFFICES ASSUME NEW c \in Clients
               PROVE  /\ demos'[c].seq \in Nat /\ demos'[c].ack \in Int
                      /\ split'[c].ring = demos'[c].ring
    BY DEF DemosCorrespond
  <2>1. /\ demos[c].seq \in Nat /\ demos[c].ack \in Int /\ split[c].ring = demos[c].ring
    BY DEF FrameInv, DemosCorrespond
  <2>2. CASE c \notin who
    <3>1. demos'[c] = demos[c] /\ split'[c] = split[c]
      BY <1>3, <1>4, <1>5, <2>2, UpdateAt
    <3> QED
      BY <2>1, <3>1
  <2>3. CASE c \in who
    <3>1. demos'[c] = ReadDemo(demos[c], snaps[c])
      BY <1>3, <1>4, <2>3, UpdateAt
    <3>2. split'[c].ring = [split[c].ring EXCEPT
                              ![SlotOf(out[c].seq)] = [seq |-> out[c].seq, cmd |-> out[c].cmd]]
      BY <1>3, <1>5, <2>3, UpdateAt
    <3>3. out[c].seq = snaps[c].seq /\ out[c].cmd = snaps[c].cmd
      BY <1>7, <1>9, <2>3, GiveAt
    <3>4. snaps[c].seq \in Nat /\ snaps[c].ack \in Int
      BY <1>4, <2>3 DEF IsSnap
    <3> QED
      BY <2>1, <3>1, <3>2, <3>3, <3>4 DEF ReadDemo
  <2> QED
    BY <2>2, <2>3
<1>12. Given' = who
  <2>1. \A c \in who : out[c] # NoSnap
    BY <1>9, GiveAt
  <2>2. \A c \in Clients : given'[c] # NoSnap <=> c \in who
    BY <1>10, <2>1
  <2> QED
    BY <1>4, <2>2 DEF Given
<1>13. EntitiesExact'
  <2>1. ASSUME NEW c \in who
        PROVE  out[c].ents = snaps[c].ents /\ out[c].marks = snaps[c].marks
    <3>1. /\ Give(v, c, split[c], snaps[c].cmd).ents = snaps[c].ents
          /\ Give(v, c, split[c], snaps[c].cmd).marks = snaps[c].marks
      <4>1. OneWorld(snaps, world)
        BY <1>4 DEF OneWorld
      <4>2. DOMAIN snaps \subseteq Clients /\ c \in DOMAIN snaps
        BY <1>4
      <4> QED
        BY <1>5, <4>1, <4>2, EntitiesGiven
    <3> QED
      BY <1>9, <3>1
  <2> QED
    BY <1>3, <1>5, <1>9, <1>10, <1>12, <2>1 DEF EntitiesExact
<1>14. PlayersExact'
  <2>1. ASSUME NEW c \in who
        PROVE  /\ out[c].ps = snaps[c].ps
               /\ snaps[c].ps.veh => out[c].vps = snaps[c].vps
    BY <1>6, <1>9, GiveAt
  <2> QED
    BY <1>9, <1>10, <1>12, <2>1 DEF PlayersExact
<1>15. CountersExact'
  <2>1. ASSUME NEW c \in who
        PROVE  /\ out[c].seq = snaps[c].seq /\ out[c].ack = snaps[c].ack
               /\ out[c].span = snaps[c].deltasnap.span
               /\ out[c].flags = snaps[c].flags /\ out[c].extra = snaps[c].extra
    BY <1>7, <1>9, GiveAt
  <2>2. ASSUME NEW c \in who
        PROVE  out[c].first = snaps[c].serverAck + 1
    <3> DEFINE delta == snaps[c].deltasnap
               base  == snaps[c].seq - delta.span
    <3>1. out[c].first = IF delta.span # 0 /\ ~ delta.explicit
                         THEN split[c].ring[SlotOf(base)].cmd + 1
                         ELSE v.serverAck[Filled(v.ackSlot, c)][c] + 1
      BY <1>7, <1>9, GiveAt
    <3>2. CASE delta.span = 0 \/ delta.explicit
      BY <1>7, <1>9, <3>1, <3>2
    <3>3. CASE delta.span # 0 /\ ~ delta.explicit
      <4>1. demos[c].ring[SlotOf(base)].cmd = snaps[c].serverAck
        BY <1>4, <3>3
      <4>2. split[c].ring = demos[c].ring
        BY <1>9 DEF FrameInv, DemosCorrespond
      <4> QED
        BY <3>1, <3>3, <4>1, <4>2
    <3> QED
      BY <3>2, <3>3
  <2> QED
    BY <1>9, <1>10, <1>12, <2>1, <2>2 DEF CountersExact
<1> QED
  BY <1>3, <1>8, <1>11, <1>13, <1>14, <1>15 DEF FrameInv, Exact

(* The invariant has what ContextsAgree says of the two tools. *)
LEMMA InvAgree == FrameInv => ContextsAgree
<1> SUFFICES ASSUME FrameInv PROVE ContextsAgree
  OBVIOUS
<1>1. EntitiesAgree(combiner, splitter)
  BY DEF FrameInv, ContextsCorrespond
<1>2. ASSUME NEW c \in Clients
      PROVE  /\ PlayerAgrees(combiner, splitter, c) /\ AcksAgree(combiner, splitter, c)
             /\ SeqAgrees(combiner, splitter, c)
  BY DEF FrameInv, ContextsCorrespond
<1> QED
  BY <1>1, <1>2 DEF ContextsAgree, EntitiesAgree, PlayerAgrees, AcksAgree, SeqAgrees, Known

-----------------------------------------------------------------------------
(* The two tools agree between frames, and the last frame was exact. *)
THEOREM FrameInvariant == Spec => []FrameInv
<1>1. FrameInv /\ UNCHANGED vars => FrameInv'
  BY DEF vars, FrameInv, ContextsCorrespond, DemosCorrespond, Exact, Given,
         EntitiesExact, PlayersExact, CountersExact
<1> QED
  BY <1>1, InitInv, NextInv, PTL DEF Spec

(* Combiner and splitter never disagree on what the next merged message is *)
(* a difference to, although they turn and trust their slots by different  *)
(* rules.                                                                  *)
THEOREM Agreement == Spec => []ContextsAgree
BY FrameInvariant, InvAgree, PTL

(* A client's split demo has the entities and the marks the client saw, no *)
(* one else's and none left over. *)
THEOREM ExactEntities == Spec => []EntitiesExact
<1>1. FrameInv => EntitiesExact
  BY DEF FrameInv, Exact
<1> QED
  BY <1>1, FrameInvariant, PTL

(* It has the client's own state and its vehicle's. *)
THEOREM ExactPlayers == Spec => []PlayersExact
<1>1. FrameInv => PlayersExact
  BY DEF FrameInv, Exact
<1> QED
  BY <1>1, FrameInvariant, PTL

(* Its messages have their numbers, their acknowledges and their first     *)
(* commands, named in the merged file or not. *)
THEOREM ExactCounters == Spec => []CountersExact
<1>1. FrameInv => CountersExact
  BY DEF FrameInv, Exact
<1> QED
  BY <1>1, FrameInvariant, PTL

-----------------------------------------------------------------------------
(* FieldCodec. *)

(* What the proofs use of remainders. *)
LEMMA Remainders ==
  ASSUME NEW s \in Nat, s > 0
  PROVE  /\ \A v \in Int : v % s \in 0 .. s - 1
         /\ \A r \in 0 .. s - 1 : r % s = r /\ (r - s) % s = r
         /\ s % s = 0
<1>1. \A v \in Int : v % s \in 0 .. s - 1
  BY SMT
<1>2. \A r \in 0 .. s - 1 : r % s = r
  BY SMT
<1>3. \A r \in 0 .. s - 1 : (r - s) % s = r
  BY SMT
<1>4. s % s = 0
  BY SMT
<1> QED
  BY <1>1, <1>2, <1>3, <1>4

-----------------------------------------------------------------------------
(* One field f, the values v it holds, and what a reader has of them. *)

IsField(f) ==
  /\ f.bits \in Int
  /\ f.bits # 0 => Size(f) \in Nat /\ Size(f) > 1
Holds(f, v) == f.bits # 0 => v \in Int
Back(f, v, zeroBit) == Kept(f, Code(f, v, zeroBit), zeroBit)

(* A value that was read is coded as the one that was sent. *)
LEMMA CodeTwice ==
  ASSUME NEW f, IsField(f), NEW v, Holds(f, v), NEW zb \in BOOLEAN
  PROVE  /\ Code(f, Back(f, v, zb), zb) = Code(f, v, zb)
         /\ Holds(f, Back(f, v, zb))
         /\ Code(f, v, zb) # NoChange
<1>1. CASE zb /\ IsZero(v)
  <2>1. Code(f, v, zb) = Zero
    BY <1>1 DEF Code
  <2>2. Back(f, v, zb) = 0
    BY <2>1 DEF Back, Kept, Got, Zero
  <2>3. Code(f, 0, zb) = Zero
    BY <1>1 DEF Code, IsZero
  <2>4. Zero # NoChange
    BY DEF Zero, NoChange
  <2> QED
    BY <2>1, <2>2, <2>3, <2>4 DEF Holds
<1>2. CASE ~ (zb /\ IsZero(v)) /\ f.bits # 0
  <2> DEFINE s == Size(f)
             r == v % s
  <2>1. s \in Nat /\ s > 1 /\ v \in Int
    BY <1>2 DEF IsField, Holds
  <2> HIDE DEF s
  <2>2. /\ r \in 0 .. s - 1
        /\ r % s = r /\ (r - s) % s = r /\ s % s = 0
    BY <2>1, Remainders
  <2>3. Code(f, v, zb) = <<"raw", r>>
    BY <1>2 DEF Code, s
  <2> HIDE DEF r
  <2>4. \A w \in Int : ~ (zb /\ IsZero(w)) => Code(f, w, zb) = <<"raw", w % s>>
    BY <1>2 DEF Code, s
  <2>5. NegZero \notin Int
    BY TruthAssumption
  <2>6. CASE zb /\ r = 0
    <3>1. Back(f, v, zb) = s
      BY <2>3, <2>6 DEF Back, Kept, s
    <3>2. ~ IsZero(s)
      BY <2>1, <2>5 DEF IsZero
    <3>3. Code(f, s, zb) = <<"raw", r>>
      <4>1. s \in Int /\ s % s = r
        BY <2>1, <2>2, <2>6
      <4>2. Code(f, s, zb) = <<"raw", s % s>>
        BY <2>4, <3>2, <4>1
      <4> QED
        BY <4>1, <4>2
    <3> QED
      BY <2>1, <2>3, <3>1, <3>3 DEF Holds, NoChange
  <2>7. CASE ~ (zb /\ r = 0) /\ ~ (f.bits < 0 /\ 2 * r >= s)
    <3>1. Back(f, v, zb) = r
      BY <2>3, <2>7 DEF Back, Kept, Got, s
    <3> QED
      BY <2>1, <2>2, <2>3, <2>4, <2>5, <2>7, <3>1 DEF IsZero, Holds, NoChange
  <2>8. CASE ~ (zb /\ r = 0) /\ f.bits < 0 /\ 2 * r >= s
    <3>1. Back(f, v, zb) = r - s
      BY <2>3, <2>8 DEF Back, Kept, Got, s
    <3> QED
      BY <2>1, <2>2, <2>3, <2>4, <2>5, <2>8, <3>1 DEF IsZero, Holds, NoChange
  <2> QED
    BY <2>6, <2>7, <2>8
<1>3. CASE ~ (zb /\ IsZero(v)) /\ f.bits = 0 /\ IsSmall(v)
  <2>1. Code(f, v, zb) = <<"small", Trunc(v)>>
    BY <1>3 DEF Code
  <2>2. Back(f, v, zb) = Trunc(v)
    BY <2>1 DEF Back, Kept, Got
  <2>3. CASE v = NegZero
    <3>1. Trunc(v) = 0 /\ IsZero(v) /\ IsZero(0)
      BY <2>3 DEF Trunc, IsZero
    <3>2. ~ zb
      BY <1>3, <3>1
    <3>3. Code(f, 0, zb) = <<"small", 0>>
      <4>1. IsSmall(0)
        BY TruthAssumption DEF IsSmall
      <4> QED
        BY <1>3, <3>2, <4>1 DEF Code, Trunc
    <3> QED
      BY <1>3, <2>1, <2>2, <3>1, <3>3 DEF NoChange, Holds
  <2>4. CASE v # NegZero
    BY <1>3, <2>1, <2>2, <2>4 DEF Trunc, NoChange, Holds
  <2> QED
    BY <2>3, <2>4
<1>4. CASE ~ (zb /\ IsZero(v)) /\ f.bits = 0 /\ ~ IsSmall(v)
  <2>1. Code(f, v, zb) = <<"full", v>>
    BY <1>4 DEF Code
  <2>2. Back(f, v, zb) = v
    BY <2>1 DEF Back, Kept, Got
  <2> QED
    BY <1>4, <2>1, <2>2 DEF NoChange, Holds
<1> QED
  BY <1>1, <1>2, <1>3, <1>4

(* Zero is read as zero, and one as something else: a set of marks comes   *)
(* through.                                                                *)
LEMMA FlagBack ==
  ASSUME NEW f, IsField(f), NEW zb \in BOOLEAN
  PROVE  Back(f, 0, zb) = 0 /\ Back(f, 1, zb) # 0
<1> DEFINE s == Size(f)
<1>1. CASE f.bits # 0
  <2>1. s \in Nat /\ s > 1 /\ f.bits \in Int
    BY <1>1 DEF IsField
  <2> HIDE DEF s
  <2>2. 0 % s = 0 /\ 1 % s = 1
    BY <2>1, Remainders
  <2>3. Back(f, 0, zb) = 0
    <3>1. CASE zb
      <4>1. Code(f, 0, zb) = Zero
        BY <3>1 DEF Code, IsZero
      <4> QED
        BY <4>1 DEF Back, Kept, Got, Zero
    <3>2. CASE ~ zb
      <4>1. Code(f, 0, zb) = <<"raw", 0>>
        BY <1>1, <2>2, <3>2 DEF Code, s
      <4>2. ~ (2 * 0 >= s)
        BY <2>1
      <4> QED
        BY <3>2, <4>1, <4>2 DEF Back, Kept, Got, s
    <3> QED
      BY <3>1, <3>2
  <2>4. Back(f, 1, zb) # 0
    <3>1. ~ IsZero(1)
      BY TruthAssumption DEF IsZero
    <3>2. Code(f, 1, zb) = <<"raw", 1>>
      BY <1>1, <2>2, <3>1 DEF Code, s
    <3>3. Back(f, 1, zb) \in {1, 1 - s}
      BY <3>2 DEF Back, Kept, Got, s
    <3> QED
      BY <2>1, <3>3
  <2> QED
    BY <2>3, <2>4
<1>2. CASE f.bits = 0
  <2>1. Back(f, 0, zb) = 0
    <3>1. Code(f, 0, zb) \in {Zero, <<"small", 0>>, <<"full", 0>>}
      BY <1>2 DEF Code, Trunc
    <3> QED
      BY <3>1 DEF Back, Kept, Got, Zero
  <2>2. Back(f, 1, zb) = 1
    <3>1. ~ IsZero(1) /\ Trunc(1) = 1
      BY TruthAssumption DEF IsZero, Trunc
    <3>2. Code(f, 1, zb) \in {<<"small", 1>>, <<"full", 1>>}
      BY <1>2, <3>1 DEF Code
    <3> QED
      BY <3>2 DEF Back, Kept, Got
  <2> QED
    BY <2>1, <2>2
<1> QED
  BY <1>1, <1>2

(* A field that was sent though the reader has the same value before and   *)
(* after is marked, except where none of the bits of two values were sent. *)
LEMMA SentMarked ==
  ASSUME NEW f, IsField(f), NEW zb \in BOOLEAN,
         NEW old, Holds(f, old), NEW new, Holds(f, new), new # old,
         Back(f, old, zb) = Back(f, new, zb)
  PROVE  \/ Forced(f, Code(f, new, zb), Back(f, old, zb), zb)
         \/ /\ zb /\ f.bits # 0
            /\ Code(f, old, zb) = <<"raw", 0>> /\ Code(f, new, zb) = <<"raw", 0>>
<1>1. Code(f, old, zb) = Code(f, new, zb)
  BY CodeTwice
<1>2. CASE zb /\ Code(f, new, zb) = <<"raw", 0>>
  <2>1. f.bits # 0
    BY <1>2 DEF Code, Zero
  <2> QED
    BY <1>1, <1>2, <2>1
<1>3. CASE ~ (zb /\ Code(f, new, zb) = <<"raw", 0>>)
  <2>1. Got(f, Code(f, new, zb)) = Back(f, new, zb)
    BY <1>3 DEF Back, Kept
  <2>2. ASSUME zb, f.bits = 0 PROVE Code(f, new, zb) = Zero
    <3>1. SUFFICES ASSUME ~ IsZero(new) PROVE FALSE
      BY <2>2 DEF Code
    <3>2. Code(f, new, zb) # Zero
      BY <2>2, <3>1 DEF Code, Zero
    <3>3. ~ IsZero(old)
      BY <1>1, <2>2, <3>2 DEF Code
    <3>4. Trunc(new) = new /\ Trunc(old) = old
      BY <3>1, <3>3 DEF Trunc, IsZero
    <3>5. /\ Code(f, new, zb) = IF IsSmall(new) THEN <<"small", new>> ELSE <<"full", new>>
          /\ Code(f, old, zb) = IF IsSmall(old) THEN <<"small", old>> ELSE <<"full", old>>
      BY <2>2, <3>1, <3>3, <3>4 DEF Code
    <3> QED
      BY <1>1, <3>5
  <2> QED
    BY <2>1, <2>2 DEF Forced
<1> QED
  BY <1>2, <1>3

(* Without a bit for zero, what is marked is what was read as it was. *)
LEMMA MarkedPlainly ==
  ASSUME NEW f, NEW v, NEW old
  PROVE  Forced(f, Code(f, v, FALSE), old, FALSE) <=> Back(f, v, FALSE) = old
BY DEF Forced, Back, Kept

-----------------------------------------------------------------------------
(* A table. *)

(* The items of these fields say what they are in state to. *)
Carries(table, items, C, to, zeroBit) ==
  /\ C \subseteq DOMAIN table
  /\ Sent(table, items) = C
  /\ \A i \in C : items[i] = Code(table[i], to[table[i].name], zeroBit)

(* State R is what a reader with state from makes of the fields S of to.  *)
Took(S, from, to, R, zeroBit) ==
  /\ R = [n \in DOMAIN from |-> R[n]]
  /\ \A f \in S : R[f.name] = Back(f, to[f.name], zeroBit)
  /\ \A n \in DOMAIN from : (\A f \in S : f.name # n) => R[n] = from[n]

Marked(S, from, to, zeroBit) ==
  {f.name : f \in {g \in S :
      Forced(g, Code(g, to[g.name], zeroBit), from[g.name], zeroBit)}}

ChangedOf(S, from, to, mk) ==
  {f \in S : from[f.name] # to[f.name] \/ f.name \in mk}

(* Fields with all their values in a state. *)
HasFields(S, to) ==
  \A f \in S : IsField(f) /\ f.name \in DOMAIN to /\ Holds(f, to[f.name])

OneName(S) == \A f, g \in S : f.name = g.name => f = g

(* S are the fields of table at C. *)
FieldsAt(table, C, S) == /\ \A i \in C : table[i] \in S
                         /\ \A f \in S : \E i \in C : f = table[i]

(* A table has one field of a name. *)
LEMMA TableNames ==
  ASSUME NEW T, IsTable(T)
  PROVE  OneName(FieldsIn(T))
BY DEF IsTable, OneName, FieldsIn

(* The places and the fields that changed are the same ones. *)
LEMMA ChangedFields ==
  ASSUME NEW T, NEW from, NEW to, NEW mk
  PROVE  /\ FieldsAt(T, ChangedIn(T, from, to, mk), ChangedOf(FieldsIn(T), from, to, mk))
         /\ ChangedIn(T, from, to, mk) \subseteq DOMAIN T
BY DEF ChangedIn, ChangedOf, FieldsIn, FieldsAt

(* A field that is sent is not taken for one that is not. *)
LEMMA CodeNoChange ==
  ASSUME NEW f, IsField(f), NEW v, Holds(f, v), NEW zb \in BOOLEAN
  PROVE  Code(f, v, zb) # NoChange
BY CodeTwice

(* The reader's table may be longer than the writer's. *)
LEMMA ItemsCarry ==
  ASSUME NEW W, NEW T, IsTable(W), IsTable(T),
         \A i \in DOMAIN T : i \in DOMAIN W /\ W[i] = T[i],
         NEW from, NEW to, NEW mk, NEW zb \in BOOLEAN, HasFields(FieldsIn(T), to)
  PROVE  Carries(W, Items(T, from, to, mk, zb), ChangedIn(T, from, to, mk), to, zb)
<1> DEFINE C == ChangedIn(T, from, to, mk)
           items == Items(T, from, to, mk, zb)
<1>1. C \subseteq DOMAIN T /\ C \subseteq DOMAIN W /\ DOMAIN T \subseteq Int
  BY DEF ChangedIn, IsTable
<1>2. \A i \in C : i \in DOMAIN items
  BY <1>1 DEF Items
<1>3. \A i \in DOMAIN items : i \in DOMAIN T /\ items[i] = Item(T, i, from, to, mk, zb)
  BY DEF Items
<1>4. \A i \in DOMAIN items : i \in C => items[i] = Code(T[i], to[T[i].name], zb)
  BY <1>3 DEF Item
<1>5. \A i \in DOMAIN items : i \notin C => items[i] = NoChange
  BY <1>3 DEF Item
<1>6. \A i \in C : Code(T[i], to[T[i].name], zb) # NoChange
  <2>1. TAKE i \in C
  <2>2. T[i] \in FieldsIn(T)
    BY <1>1 DEF FieldsIn
  <2> QED
    BY <2>2, CodeNoChange DEF HasFields
<1> HIDE DEF C, items
<1>7. Sent(W, items) = C
  BY <1>1, <1>2, <1>4, <1>5, <1>6 DEF Sent
<1> QED
  BY <1>1, <1>2, <1>4, <1>7 DEF Carries, C, items

(* The elements of the arrays that changed are sent, and no others. *)
LEMMA ArraysCarry ==
  ASSUME IsTable(ArrayFields), NEW from, NEW to, NEW mk, HasFields(FieldsIn(ArrayFields), to)
  PROVE  Carries(ArrayFields, WriteArrays(from, to, mk),
                 ChangedIn(ArrayFields, from, to, mk), to, FALSE)
<1> DEFINE T == ArrayFields
           C == ChangedIn(T, from, to, mk)
           items == WriteArrays(from, to, mk)
<1>1. C \subseteq DOMAIN T /\ DOMAIN items = DOMAIN T
  BY DEF ChangedIn, WriteArrays
<1>2. \A i \in DOMAIN T : items[i] = Item(T, i, from, to, mk, FALSE)
  BY DEF WriteArrays
<1>3. \A i \in C : items[i] = Code(T[i], to[T[i].name], FALSE)
  BY <1>1, <1>2 DEF Item
<1>4. \A i \in DOMAIN T : i \notin C => items[i] = NoChange
  BY <1>2 DEF Item
<1>5. \A i \in C : Code(T[i], to[T[i].name], FALSE) # NoChange
  <2>1. TAKE i \in C
  <2>2. T[i] \in FieldsIn(T)
    BY <1>1 DEF FieldsIn
  <2> QED
    BY <2>2, CodeNoChange DEF HasFields
<1> HIDE DEF C, items
<1>6. Sent(T, items) = C
  BY <1>1, <1>3, <1>4, <1>5 DEF Sent
<1> QED
  BY <1>1, <1>3, <1>6 DEF Carries, C, items

Delivers(table, items, C, S, from, to, zeroBit) ==
  /\ IsTable(table) /\ Carries(table, items, C, to, zeroBit)
  /\ FieldsAt(table, C, S) /\ \A f \in S : f.name \in DOMAIN from

MarksTold(table, items, S, from, to, zeroBit) ==
  ReadMarks(table, from, items, zeroBit) = Marked(S, from, to, zeroBit)

(* A reader takes the fields that were sent and marks those it had         *)
(* already.                                                                *)
LEMMA ItemsRead ==
  ASSUME NEW W, NEW items, NEW C, NEW S, NEW from, NEW to, NEW zb,
         Delivers(W, items, C, S, from, to, zb)
  PROVE  /\ Took(S, from, to, ReadItems(W, from, items, zb), zb)
         /\ MarksTold(W, items, S, from, to, zb)
<1> DEFINE R == ReadItems(W, from, items, zb)
<1>1. Sent(W, items) = C /\ C \subseteq DOMAIN W
  BY DEF Delivers, Carries
<1>2. R = [n \in DOMAIN from |-> R[n]]
  BY DEF ReadItems
<1>3. \A i \in C : R[W[i].name] = Back(W[i], to[W[i].name], zb)
  <2>1. TAKE i \in C
  <2> DEFINE n == W[i].name
             j == CHOOSE j \in Sent(W, items) : W[j].name = n
  <2>2. j \in C /\ W[j].name = n
    BY <1>1
  <2>3. j = i
    BY <1>1, <2>2 DEF IsTable, Delivers
  <2>4. n \in DOMAIN from
    BY DEF FieldsAt, Delivers
  <2>5. R[n] = Kept(W[j], items[j], zb)
    BY <1>1, <2>4 DEF ReadItems
  <2> QED
    BY <2>3, <2>5 DEF Back, Carries, Delivers
<1>4. \A n \in DOMAIN from : (\A i \in C : W[i].name # n) => R[n] = from[n]
  BY <1>1 DEF ReadItems
<1>5. MarksTold(W, items, S, from, to, zb)
  BY <1>1 DEF MarksTold, ReadMarks, Marked, Carries, FieldsAt, Delivers
<1> HIDE DEF R
<1> QED
  BY <1>2, <1>3, <1>4, <1>5 DEF Took, R, FieldsAt, Delivers

-----------------------------------------------------------------------------
(* A message. *)

EntityMarksTold(m, S, from, to) == EntityMarks(from, m) = Marked(S, from, to, TRUE)

(* MSG_ReadDeltaEntityWithFloats takes what MSG_WriteDeltaEntity sent of   *)
(* an entity, whichever state each of them starts from.                    *)
LEMMA EntityRead ==
  ASSUME NEW T, IsTable(T), NEW x, NEW to, NEW mk, NEW force, NEW from,
         HasFields(FieldsIn(T), to), \A f \in FieldsIn(T) : f.name \in DOMAIN from,
         from = [n \in DOMAIN from |-> from[n]]
  PROVE  LET m == WriteEntity(T, x, to, mk, force)
             S == ChangedOf(FieldsIn(T), x, to, mk)
         IN  /\ Took(S, from, to, ReadEntity(T, from, m), TRUE)
             /\ T = EntityFields => EntityMarksTold(m, S, from, to)
             /\ m = Nothing => S = {}
<1> DEFINE m == WriteEntity(T, x, to, mk, force)
           S == ChangedOf(FieldsIn(T), x, to, mk)
           C == ChangedIn(T, x, to, mk)
           items == Items(T, x, to, mk, TRUE)
<1>1. Carries(T, items, C, to, TRUE)
  BY ItemsCarry
<1>2. C \subseteq DOMAIN T /\ FieldsAt(T, C, S)
  BY ChangedFields
<1>3. \A f \in S : f.name \in DOMAIN from
  BY DEF ChangedOf
<1>4. /\ m = IF items # <<>> THEN [op |-> "delta", items |-> items]
             ELSE IF force THEN [op |-> "same"] ELSE Nothing
  BY DEF WriteEntity
<1> HIDE DEF items, C, S, m
<1>5. CASE items # <<>>
  <2>1. m = [op |-> "delta", items |-> items] /\ m.op = "delta" /\ m.items = items
    BY <1>4, <1>5
  <2>2. /\ ReadEntity(T, from, m) = ReadItems(T, from, items, TRUE)
        /\ EntityMarks(from, m) = ReadMarks(EntityFields, from, items, TRUE)
    BY <2>1 DEF ReadEntity, EntityMarks
  <2>3. m # Nothing
    BY <2>1 DEF Nothing
  <2>4. /\ Took(S, from, to, ReadItems(T, from, items, TRUE), TRUE)
        /\ MarksTold(T, items, S, from, to, TRUE)
    <3>1. Delivers(T, items, C, S, from, to, TRUE)
      BY <1>1, <1>2, <1>3 DEF Delivers
    <3> QED
      BY <3>1, ItemsRead
  <2> QED
    BY <2>2, <2>3, <2>4 DEF m, S, MarksTold, EntityMarksTold
<1>6. CASE items = <<>>
  <2>1. C = {}
    BY <1>1, <1>6 DEF Carries, Sent
  <2>2. S = {}
    BY <1>2, <2>1 DEF FieldsAt
  <2>3. m.op # "delta"
    BY <1>4, <1>6 DEF Nothing
  <2>4. ReadEntity(T, from, m) = from /\ EntityMarks(from, m) = {}
    BY <2>3 DEF ReadEntity, EntityMarks
  <2> QED
    <3>1. Took({}, from, to, from, TRUE) /\ Marked({}, from, to, TRUE) = {}
      BY DEF Took, Marked
    <3> QED
      BY <2>2, <2>4, <3>1 DEF m, S, EntityMarksTold
<1> QED
  BY <1>5, <1>6

(* The fields of a player of which the server, or a tool, sends those that *)
(* changed. *)
ServerSet(vehicle, pilot) == FieldsIn(ServerTable(vehicle, pilot)) \cup FieldsIn(ArrayFields)
ToolSet(vehicle, pilot) == FieldsIn(Table(vehicle, pilot)) \cup FieldsIn(ArrayFields)

(* The server's table is the reader's or its beginning. *)
LEMMA Tables ==
  ASSUME NEW vehicle \in BOOLEAN, NEW pilot \in BOOLEAN
  PROVE  /\ IsTable(Table(vehicle, pilot)) /\ IsTable(ServerTable(vehicle, pilot))
         /\ \A i \in DOMAIN ServerTable(vehicle, pilot) :
              /\ i \in DOMAIN Table(vehicle, pilot)
              /\ Table(vehicle, pilot)[i] = ServerTable(vehicle, pilot)[i]
         /\ FieldsIn(ServerTable(vehicle, pilot)) \subseteq FieldsIn(Table(vehicle, pilot))
         /\ Apart(Table(vehicle, pilot), ArrayFields)
         /\ IsTable(ArrayFields)
         /\ ~ vehicle /\ pilot => DOMAIN ServerTable(vehicle, pilot) = 1 .. ServerPilot
<1>1. CASE vehicle
  BY <1>1, TableAssumption DEF Table, ServerTable
<1>2. CASE ~ vehicle /\ ~ pilot
  <2>1. Table(vehicle, pilot) = PlayerFields /\ ServerTable(vehicle, pilot) = PlayerFields
    BY <1>2 DEF Table, ServerTable
  <2>2. Apart(PlayerFields, ArrayFields)
    BY TableAssumption DEF Apart
  <2> QED
    BY <1>2, <2>1, <2>2, TableAssumption
<1>3. CASE ~ vehicle /\ pilot
  <2> DEFINE P == PilotFields
             Q == SubSeq(P, 1, ServerPilot)
  <2>1. Table(vehicle, pilot) = P /\ ServerTable(vehicle, pilot) = Q
    BY <1>3 DEF Table, ServerTable
  <2>2. P \in Seq([name : STRING, bits : Int]) /\ ServerPilot \in 0 .. Len(P) /\ Len(P) \in Nat
    BY TableAssumption DEF IsTable
  <2>3. /\ Q \in Seq([name : STRING, bits : Int]) /\ Len(Q) = ServerPilot
        /\ \A i \in 1 .. ServerPilot : Q[i] = P[i]
    <3>1. /\ Q \in Seq([name : STRING, bits : Int])
          /\ Len(Q) = IF 1 <= ServerPilot THEN ServerPilot - 1 + 1 ELSE 0
          /\ \A i \in 1 .. ServerPilot - 1 + 1 : Q[i] = P[1 + i - 1]
      <4>1. ASSUME NEW i \in 1 .. ServerPilot PROVE P[i] \in [name : STRING, bits : Int]
        <5>1. i \in 1 .. Len(P)
          BY <2>2
        <5> HIDE DEF P
        <5> QED
          BY <2>2, <5>1, ElementOfSeq
      <4> QED
        BY <2>2, <4>1, SubSeqProperties
    <3> QED
      BY <2>2, <3>1
  <2>4. DOMAIN Q = 1 .. ServerPilot /\ DOMAIN P = 1 .. Len(P)
    BY <2>2, <2>3
  <2> HIDE DEF Q
  <2>5. \A i \in DOMAIN Q : i \in DOMAIN P /\ P[i] = Q[i]
    BY <2>2, <2>3, <2>4
  <2>6. IsTable(Q)
    BY <2>3, <2>5, TableAssumption DEF IsTable
  <2>7. FieldsIn(Q) \subseteq FieldsIn(P)
    BY <2>5 DEF FieldsIn
  <2> QED
    BY <2>1, <2>4, <2>5, <2>6, <2>7, TableAssumption
<1> QED
  BY <1>1, <1>2, <1>3

PlayerMarksTold(vehicle, m, S, from, to) ==
  PlayerMarks(vehicle, from, m) = Marked(S, from, to, FALSE)

(* The same of a player: MSG_ReadDeltaPlayerstate takes what was sent in   *)
(* the table and in the arrays.                                            *)
LEMMA PlayerRead ==
  ASSUME NEW vehicle \in BOOLEAN, NEW pilot \in BOOLEAN, NEW T, IsTable(T),
         \A i \in DOMAIN T : i \in DOMAIN Table(vehicle, pilot)
                             /\ Table(vehicle, pilot)[i] = T[i],
         NEW x, NEW to, NEW mk, NEW from,
         HasFields(FieldsIn(T) \cup FieldsIn(ArrayFields), to), DOMAIN from = DOMAIN to
  PROVE  LET m == WritePlayerstate(T, pilot, x, to, mk)
             S == ChangedOf(FieldsIn(T) \cup FieldsIn(ArrayFields), x, to, mk)
         IN  /\ Took(S, from, to, ReadPlayerstate(vehicle, from, m), FALSE)
             /\ PlayerMarksTold(vehicle, m, S, from, to)
<1> DEFINE W == Table(vehicle, pilot)
           A == ArrayFields
           m == WritePlayerstate(T, pilot, x, to, mk)
           C == ChangedIn(T, x, to, mk)
           D == ChangedIn(A, x, to, mk)
           S1 == ChangedOf(FieldsIn(T), x, to, mk)
           S2 == ChangedOf(FieldsIn(A), x, to, mk)
           S == ChangedOf(FieldsIn(T) \cup FieldsIn(A), x, to, mk)
           mid == ReadItems(W, from, m.items, FALSE)
           R == ReadPlayerstate(vehicle, from, m)
<1>1. /\ m.pilot = pilot /\ m.items = Items(T, x, to, mk, FALSE)
      /\ m.arrays = WriteArrays(x, to, mk)
  BY DEF WritePlayerstate
<1>2. IsTable(W) /\ IsTable(A) /\ Apart(W, A)
  BY Tables
<1>3. HasFields(FieldsIn(T), to) /\ HasFields(FieldsIn(A), to)
  BY DEF HasFields
<1>4. Carries(W, m.items, C, to, FALSE) /\ Carries(A, m.arrays, D, to, FALSE)
  BY <1>1, <1>2, <1>3, ItemsCarry, ArraysCarry
<1>5. FieldsAt(W, C, S1) /\ FieldsAt(A, D, S2)
  <2>1. FieldsAt(T, C, S1) /\ FieldsAt(A, D, S2) /\ C \subseteq DOMAIN T
    BY ChangedFields
  <2> HIDE DEF C, D, S1, S2
  <2> QED
    BY <2>1 DEF FieldsAt
<1>6. R = ReadItems(A, mid, m.arrays, FALSE)
  BY <1>1 DEF ReadPlayerstate
<1>7. PlayerMarks(vehicle, from, m)
        = ReadMarks(W, from, m.items, FALSE) \cup ReadMarks(A, from, m.arrays, FALSE)
  BY <1>1 DEF PlayerMarks
<1>8. S = S1 \cup S2
  BY DEF ChangedOf
<1>9. /\ \A f \in S1 : f.name \in DOMAIN from
      /\ \A f \in S2 : f.name \in DOMAIN from
  BY <1>3 DEF HasFields, ChangedOf
<1>10. \A f \in S1, g \in S2 : f.name # g.name
  <2>1. S1 \subseteq FieldsIn(W) /\ S2 \subseteq FieldsIn(A)
    BY DEF ChangedOf, FieldsIn
  <2> QED
    BY <1>2, <2>1 DEF Apart
<1> HIDE DEF W, m, C, D, R, S1, S2, S
<1>11. /\ Took(S1, from, to, mid, FALSE)
       /\ MarksTold(W, m.items, S1, from, to, FALSE)
  <2>1. Delivers(W, m.items, C, S1, from, to, FALSE)
    BY <1>2, <1>4, <1>5, <1>9 DEF Delivers
  <2> QED
    BY <2>1, ItemsRead DEF mid
<1> HIDE DEF mid
<1>12. DOMAIN mid = DOMAIN from
  BY <1>11 DEF Took
<1>13. /\ Took(S2, mid, to, R, FALSE)
       /\ MarksTold(A, m.arrays, S2, from, to, FALSE)
  <2>1. /\ Delivers(A, m.arrays, D, S2, from, to, FALSE)
        /\ Delivers(A, m.arrays, D, S2, mid, to, FALSE)
    BY <1>2, <1>4, <1>5, <1>9, <1>12 DEF Delivers
  <2>2. Took(S2, mid, to, ReadItems(A, mid, m.arrays, FALSE), FALSE)
    BY <2>1, ItemsRead
  <2>3. MarksTold(A, m.arrays, S2, from, to, FALSE)
    BY <2>1, ItemsRead
  <2> QED
    BY <1>6, <2>2, <2>3
<1>14. Took(S, from, to, R, FALSE)
  <2>1. R = [n \in DOMAIN from |-> R[n]]
    BY <1>12, <1>13 DEF Took
  <2>2. \A f \in S1 : R[f.name] = Back(f, to[f.name], FALSE)
    <3>1. TAKE f \in S1
    <3>2. R[f.name] = mid[f.name]
      BY <1>9, <1>10, <1>12, <1>13 DEF Took
    <3> QED
      BY <1>11, <3>2 DEF Took
  <2>3. \A f \in S2 : R[f.name] = Back(f, to[f.name], FALSE)
    BY <1>13 DEF Took
  <2>4. ASSUME NEW n \in DOMAIN from, \A f \in S : f.name # n PROVE R[n] = from[n]
    <3>1. (\A f \in S1 : f.name # n) /\ (\A f \in S2 : f.name # n)
      BY <1>8, <2>4
    <3> QED
      BY <1>11, <1>12, <1>13, <3>1 DEF Took
  <2> QED
    BY <1>8, <2>1, <2>2, <2>3, <2>4 DEF Took
<1>15. Marked(S, from, to, FALSE) = Marked(S1, from, to, FALSE) \cup Marked(S2, from, to, FALSE)
  BY <1>8 DEF Marked
<1> QED
  BY <1>7, <1>11, <1>13, <1>14, <1>15 DEF m, S, R, MarksTold, PlayerMarksTold

-----------------------------------------------------------------------------
(* One frame. *)

StateNames(k) == DOMAIN (CHOOSE t \in Truths[k] : TRUE)
ZeroBit(k) == k = "entity"

(* The fields that messages of the server may carry, and those that all of *)
(* its messages carry if they changed.                                     *)
SentFields(k) ==
  CASE k = "entity"  -> FieldsIn(EntityFields)
    [] k = "player"  -> FieldsIn(PlayerFields) \cup FieldsIn(ArrayFields)
    [] k = "vehicle" -> FieldsIn(VehicleFields) \cup FieldsIn(ArrayFields)
StepFields(k) == IF k = "entity" THEN FieldsIn(EntityFields)
                 ELSE ServerSet(k = "vehicle", k = "player")

(* What a reader has of state truth. *)
InFrame(k, truth, in) ==
  /\ in = [n \in StateNames(k) |-> in[n]]
  /\ \A f \in KindFields(k) :
       /\ Holds(f, in[f.name])
       /\ Back(f, in[f.name], ZeroBit(k)) = in[f.name]
  /\ \A f \in StepFields(k) : in[f.name] = Back(f, truth[f.name], ZeroBit(k))
  /\ \A n \in StateNames(k) : (\A f \in SentFields(k) : f.name # n) => in[n] = 0

TruthFrame(k, truth) ==
  /\ DOMAIN truth = StateNames(k)
  /\ \A f \in KindFields(k) : Holds(f, truth[f.name])

StateFrame(k, h) == /\ TruthFrame(k, h.truth)
                    /\ InFrame(k, h.truth, h.in)
                    /\ h.split = h.in

(* An object has one field of a name; what is always sent may be sent. *)
LEMMA KindTables ==
  ASSUME NEW k \in Kinds
  PROVE  /\ OneName(KindFields(k))
         /\ StepFields(k) \subseteq SentFields(k)
         /\ SentFields(k) \subseteq KindFields(k)
<1>0. /\ IsTable(EntityFields) /\ IsTable(PilotFields) /\ IsTable(VehicleFields)
      /\ IsTable(ArrayFields) /\ Apart(PilotFields, ArrayFields)
      /\ Apart(VehicleFields, ArrayFields)
      /\ FieldsIn(PlayerFields) \subseteq FieldsIn(PilotFields)
  BY TableAssumption
<1>1. CASE k = "entity"
  BY <1>0, <1>1, TableNames DEF KindFields, StepFields, SentFields
<1>2. CASE k = "player"
  <2>1. KindFields(k) = FieldsIn(PilotFields) \cup FieldsIn(ArrayFields)
    BY <1>2 DEF KindFields
  <2>2. OneName(FieldsIn(PilotFields)) /\ OneName(FieldsIn(ArrayFields))
    BY <1>0, TableNames
  <2>3. OneName(KindFields(k))
    BY <1>0, <2>1, <2>2 DEF OneName, Apart
  <2>4. SentFields(k) = FieldsIn(PlayerFields) \cup FieldsIn(ArrayFields)
    BY <1>2 DEF SentFields
  <2>5. StepFields(k) = FieldsIn(ServerTable(FALSE, TRUE)) \cup FieldsIn(ArrayFields)
    BY <1>2 DEF StepFields, ServerSet
  <2>6. FieldsIn(ServerTable(FALSE, TRUE)) \subseteq FieldsIn(PlayerFields)
    <3> DEFINE Q == ServerTable(FALSE, TRUE)
    <3>1. IsTable(Q) /\ \A i \in DOMAIN Q : Q[i] = PilotFields[i]
      BY Tables DEF Table
    <3>2. DOMAIN Q = 1 .. ServerPilot
      BY Tables
    <3> HIDE DEF Q
    <3>3. \A i \in DOMAIN Q : Q[i] \in FieldsIn(PlayerFields)
      BY <3>1, <3>2, TableAssumption
    <3> QED
      BY <3>3 DEF FieldsIn, Q
  <2> QED
    BY <1>0, <2>1, <2>3, <2>4, <2>5, <2>6
<1>3. CASE k = "vehicle"
  <2>1. KindFields(k) = FieldsIn(VehicleFields) \cup FieldsIn(ArrayFields)
    BY <1>3 DEF KindFields
  <2>2. OneName(FieldsIn(VehicleFields)) /\ OneName(FieldsIn(ArrayFields))
    BY <1>0, TableNames
  <2>3. OneName(KindFields(k))
    BY <1>0, <2>1, <2>2 DEF OneName, Apart
  <2>4. SentFields(k) = KindFields(k)
    BY <1>3, <2>1 DEF SentFields
  <2>5. StepFields(k) = KindFields(k)
    BY <1>3, <2>1 DEF StepFields, ServerSet, ServerTable, Table
  <2> QED
    BY <2>3, <2>4, <2>5
<1> QED
  BY <1>1, <1>2, <1>3 DEF Kinds

(* The fields of an object are fields of its states. *)
LEMMA KindIsField ==
  ASSUME NEW k \in Kinds, NEW f \in KindFields(k)
  PROVE  IsField(f) /\ f.name \in StateNames(k)
<1>1. \E table \in {EntityFields, PilotFields, VehicleFields, ArrayFields} : f \in FieldsIn(table)
  BY DEF KindFields, Kinds
<1>2. PICK table \in {EntityFields, PilotFields, VehicleFields, ArrayFields} : f \in FieldsIn(table)
  BY <1>1
<1>3. f \in AllFields
  BY <1>2 DEF AllFields
<1>4. f.bits \in Int
  <2>1. table \in Seq([name : STRING, bits : Int])
    BY <1>2, TableAssumption DEF IsTable
  <2>2. PICK i \in DOMAIN table : f = table[i]
    BY <1>2 DEF FieldsIn
  <2>3. i \in 1 .. Len(table)
    BY <2>1
  <2>4. f \in [name : STRING, bits : Int]
    BY <2>1, <2>2, <2>3, ElementOfSeq
  <2> QED
    BY <2>4
<1>5. f.name \in StateNames(k)
  <2>1. Truths[k] # {}
    BY TruthAssumption
  <2>2. (CHOOSE t \in Truths[k] : TRUE) \in Truths[k]
    BY <2>1
  <2> QED
    BY <2>2, TruthAssumption DEF StateNames
<1> QED
  BY <1>3, <1>4, <1>5, SizeAssumption DEF IsField

(* The server's states have integers in the fields that need them. *)
LEMMA TruthIsFrame ==
  ASSUME NEW k \in Kinds, NEW t \in Truths[k]
  PROVE  TruthFrame(k, t)
<1>1. (CHOOSE u \in Truths[k] : TRUE) \in Truths[k]
  OBVIOUS
<1>2. DOMAIN t = StateNames(k)
  BY <1>1, TruthAssumption DEF StateNames
<1> QED
  BY <1>2, TruthAssumption DEF TruthFrame, Holds

(* No state at all is read, and copied, as what it is. *)
LEMMA EmptyFrame ==
  ASSUME NEW k \in Kinds
  PROVE  LET none == [n \in StateNames(k) |-> 0]
         IN  StateFrame(k, [truth |-> none, in |-> none, split |-> none])
<1> DEFINE none == [n \in StateNames(k) |-> 0]
<1>1. \A f \in KindFields(k) : f.name \in StateNames(k) /\ none[f.name] = 0
  BY KindIsField
<1>2. \A f \in KindFields(k) : Holds(f, 0) /\ Back(f, 0, ZeroBit(k)) = 0
  <2> DEFINE zb == ZeroBit(k)
  <2>1. zb \in BOOLEAN
    BY DEF ZeroBit
  <2> HIDE DEF zb
  <2>2. \A f \in KindFields(k) : Holds(f, 0) /\ Back(f, 0, zb) = 0
    BY <2>1, KindIsField, FlagBack DEF Holds
  <2> QED
    BY <2>2 DEF zb
<1>3. StepFields(k) \subseteq KindFields(k)
  BY KindTables
<1>4. TruthFrame(k, none)
  BY <1>1, <1>2 DEF TruthFrame
<1>5. InFrame(k, none, none)
  BY <1>1, <1>2, <1>3 DEF InFrame
<1> HIDE DEF none
<1> QED
  BY <1>4, <1>5 DEF StateFrame, none

-----------------------------------------------------------------------------
(* A message of the server is read: S are the fields it carries. *)

Receives(k, h, t, fs, S, R) ==
  /\ k \in Kinds /\ StateFrame(k, h) /\ TruthFrame(k, t)
  /\ StepFields(k) \subseteq fs /\ fs \subseteq SentFields(k)
  /\ S = ChangedOf(fs, h.truth, t, {})
  /\ Took(S, h.in, t, R, ZeroBit(k))

(* A reader that was in step with the frame a message is coded against is  *)
(* in step with the one it carries.                                        *)
LEMMA ReceivesIn ==
  ASSUME NEW k, NEW h, NEW t, NEW fs, NEW S, NEW R, Receives(k, h, t, fs, S, R)
  PROVE  InFrame(k, t, R)
<1> DEFINE zb == ZeroBit(k)
<1>1. /\ k \in Kinds /\ InFrame(k, h.truth, h.in) /\ TruthFrame(k, h.truth)
      /\ TruthFrame(k, t)
  BY DEF Receives, StateFrame
<1>2. OneName(KindFields(k)) /\ S \subseteq SentFields(k) /\ S \subseteq KindFields(k)
      /\ StepFields(k) \subseteq fs /\ StepFields(k) \subseteq KindFields(k)
  BY <1>1, KindTables DEF Receives, ChangedOf
<1>3. zb \in BOOLEAN
  BY DEF ZeroBit
<1>4. DOMAIN h.in = StateNames(k) /\ R = [n \in StateNames(k) |-> R[n]]
  BY <1>1 DEF InFrame, Receives, Took
<1>5. \A f \in S : R[f.name] = Back(f, t[f.name], zb)
  BY DEF Receives, Took
<1>6. \A n \in StateNames(k) : (\A f \in S : f.name # n) => R[n] = h.in[n]
  BY <1>4 DEF Receives, Took
<1> HIDE DEF zb
<1>7. ASSUME NEW f \in KindFields(k)
      PROVE  Holds(f, R[f.name]) /\ Back(f, R[f.name], zb) = R[f.name]
  <2>1. f.name \in StateNames(k) /\ IsField(f)
    BY <1>1, KindIsField
  <2>2. CASE f \in S
    <3>1. Holds(f, t[f.name]) /\ R[f.name] = Back(f, t[f.name], zb)
      BY <1>1, <1>5, <2>2 DEF TruthFrame
    <3>2. /\ Code(f, R[f.name], zb) = Code(f, t[f.name], zb)
          /\ Holds(f, R[f.name])
      BY <1>3, <2>1, <3>1, CodeTwice
    <3> QED
      BY <3>1, <3>2 DEF Back
  <2>3. CASE f \notin S
    <3>1. R[f.name] = h.in[f.name]
      BY <1>2, <1>6, <2>1, <2>3 DEF OneName
    <3> QED
      BY <1>1, <3>1 DEF InFrame, zb
  <2> QED
    BY <2>2, <2>3
<1>8. ASSUME NEW f \in StepFields(k) PROVE R[f.name] = Back(f, t[f.name], zb)
  <2>1. f \in KindFields(k) /\ f \in fs /\ f.name \in StateNames(k)
    BY <1>1, <1>2, KindIsField
  <2>2. CASE f \in S
    BY <1>5, <2>2
  <2>3. CASE f \notin S
    <3>1. R[f.name] = h.in[f.name]
      BY <1>2, <1>6, <2>1, <2>3 DEF OneName
    <3>2. h.truth[f.name] = t[f.name]
      BY <2>1, <2>3 DEF Receives, ChangedOf
    <3> QED
      BY <1>1, <3>1, <3>2 DEF InFrame, zb
  <2> QED
    BY <2>2, <2>3
<1>9. ASSUME NEW n \in StateNames(k), \A f \in SentFields(k) : f.name # n PROVE R[n] = 0
  <2>1. R[n] = h.in[n]
    BY <1>2, <1>6, <1>9
  <2> QED
    BY <1>1, <1>9, <2>1 DEF InFrame
<1> QED
  BY <1>4, <1>7, <1>8, <1>9 DEF InFrame, zb

(* The next reader, which has the last frame as the first has it, is sent  *)
(* all fields in which the first reader's states differ.                   *)
LEMMA ForwardExact ==
  ASSUME NEW k \in Kinds, NEW h, NEW t, NEW in, NEW got, NEW fs,
         StateFrame(k, h), InFrame(k, t, in),
         SentFields(k) \subseteq fs, fs \subseteq KindFields(k),
         Took(ChangedOf(fs, h.in, in, {}), h.in, in, got, ZeroBit(k))
  PROVE  got = in
<1> DEFINE S == ChangedOf(fs, h.in, in, {})
<1>1. /\ h.in = [n \in StateNames(k) |-> h.in[n]]
      /\ in = [n \in StateNames(k) |-> in[n]]
  BY DEF StateFrame, InFrame
<1>2. got = [n \in StateNames(k) |-> got[n]]
  BY <1>1 DEF Took
<1>3. ASSUME NEW n \in StateNames(k) PROVE got[n] = in[n]
  <2>1. CASE \E f \in S : f.name = n
    <3>1. PICK f \in S : f.name = n
      BY <2>1
    <3>2. got[n] = Back(f, in[n], ZeroBit(k)) /\ f \in KindFields(k)
      BY <3>1 DEF Took, ChangedOf
    <3> QED
      BY <3>1, <3>2 DEF InFrame
  <2>2. CASE ~ \E f \in S : f.name = n
    <3>1. got[n] = h.in[n]
      BY <1>1, <2>2 DEF Took
    <3>2. CASE \E f \in SentFields(k) : f.name = n
      BY <2>2, <3>1, <3>2 DEF ChangedOf
    <3>3. CASE ~ \E f \in SentFields(k) : f.name = n
      <4>1. h.in[n] = 0 /\ in[n] = 0
        BY <3>3 DEF StateFrame, InFrame
      <4> QED
        BY <3>1, <4>1
    <3> QED
      BY <3>2, <3>3
  <2> QED
    BY <2>1, <2>2
<1> QED
  BY <1>1, <1>2, <1>3

(* Marks are read as they are. *)
MarksCarried(fs, names, old, new, R, zeroBit) ==
  /\ zeroBit \in BOOLEAN /\ old \subseteq names /\ new \subseteq names
  /\ \A n \in old \cup new : \E f \in fs : f.name = n
  /\ \A f \in fs : IsField(f)
  /\ Took(ChangedOf(fs, Flags(names, old), Flags(names, new), {}),
          Flags(names, old), Flags(names, new), R, zeroBit)

(* A set of marks that is coded as a state of ones and zeros comes         *)
(* through.                                                                *)
LEMMA MarksExact ==
  ASSUME NEW fs, NEW zb, NEW names, NEW old, NEW new, NEW R,
         MarksCarried(fs, names, old, new, R, zb)
  PROVE  Flagged(R) = new
<1> DEFINE F == Flags(names, old)
           G == Flags(names, new)
           S == ChangedOf(fs, F, G, {})
<1>1. /\ DOMAIN F = names /\ DOMAIN G = names
      /\ \A n \in names : /\ F[n] = IF n \in old THEN 1 ELSE 0
                          /\ G[n] = IF n \in new THEN 1 ELSE 0
  BY DEF Flags
<1> HIDE DEF F, G
<1>2. /\ DOMAIN R = names
      /\ \A f \in S : R[f.name] = Back(f, G[f.name], zb)
      /\ \A n \in names : (\A f \in S : f.name # n) => R[n] = F[n]
  BY <1>1 DEF MarksCarried, Took, F, G
<1>3. ASSUME NEW n \in names PROVE R[n] # 0 <=> n \in new
  <2>1. CASE \E f \in S : f.name = n
    <3>1. PICK f \in S : f.name = n
      BY <2>1
    <3>2. f \in fs /\ IsField(f) /\ zb \in BOOLEAN
      BY <3>1 DEF ChangedOf, MarksCarried
    <3>3. Back(f, 0, zb) = 0 /\ Back(f, 1, zb) # 0
      BY <3>2, FlagBack
    <3> QED
      BY <1>1, <1>2, <3>1, <3>3
  <2>2. CASE ~ \E f \in S : f.name = n
    <3>1. R[n] = F[n]
      BY <1>2, <2>2
    <3>2. F[n] = G[n]
      <4>1. SUFFICES ASSUME F[n] # G[n] PROVE FALSE
        OBVIOUS
      <4>2. n \in old \cup new
        BY <1>1, <4>1
      <4>3. PICK f \in fs : f.name = n
        BY <4>2 DEF MarksCarried
      <4> QED
        BY <2>2, <4>1, <4>3 DEF ChangedOf
    <3> QED
      BY <1>1, <3>1, <3>2
  <2> QED
    BY <2>1, <2>2
<1> QED
  BY <1>2, <1>3 DEF Flagged, MarksCarried

-----------------------------------------------------------------------------
(* The message is written again. *)

(* A field goes from one value without bits to another. *)
Unmarked(k, from, to) ==
  /\ k = "entity"
  /\ \E f \in FieldsIn(EntityFields) :
       /\ from[f.name] # to[f.name]
       /\ Code(f, from[f.name], TRUE) = <<"raw", 0>>
       /\ Code(f, to[f.name], TRUE) = <<"raw", 0>>

(* With the marks, the tools send the fields the server sent and no        *)
(* others, each with the code it had.                                      *)
LEMMA SameFields ==
  ASSUME NEW k, NEW h, NEW t, NEW fs, NEW S, NEW R, Receives(k, h, t, fs, S, R),
         NEW tools, fs \subseteq tools, tools \subseteq KindFields(k),
         ~ Unmarked(k, h.truth, t)
  PROVE  LET mk == Marked(S, h.in, t, ZeroBit(k))
         IN  /\ ChangedOf(tools, h.in, R, mk) = S
             /\ \A f \in S : Code(f, R[f.name], ZeroBit(k)) = Code(f, t[f.name], ZeroBit(k))
<1> DEFINE zb == ZeroBit(k)
           mk == Marked(S, h.in, t, zb)
<1>1. /\ k \in Kinds /\ InFrame(k, h.truth, h.in) /\ TruthFrame(k, h.truth)
      /\ TruthFrame(k, t) /\ zb \in BOOLEAN
  BY DEF Receives, StateFrame, ZeroBit
<1>2. OneName(KindFields(k)) /\ S \subseteq tools /\ S \subseteq KindFields(k)
  BY <1>1, KindTables DEF Receives, ChangedOf
<1>3. DOMAIN h.in = StateNames(k) /\ \A f \in tools : f.name \in StateNames(k) /\ IsField(f)
  BY <1>1, KindIsField DEF InFrame
<1>4. \A f \in S : R[f.name] = Back(f, t[f.name], zb)
  BY DEF Receives, Took
<1>5. \A n \in StateNames(k) : (\A f \in S : f.name # n) => R[n] = h.in[n]
  BY <1>3 DEF Receives, Took
<1>6. \A f \in S : Holds(f, t[f.name]) /\ Holds(f, h.truth[f.name]) /\ IsField(f)
  BY <1>1, <1>2, <1>3 DEF TruthFrame
<1>7. \A f \in S : h.truth[f.name] # t[f.name]
  BY DEF Receives, ChangedOf
<1>8. \A n : n \in mk => \E f \in S : f.name = n
  BY DEF Marked
<1>9. \A f \in S : Forced(f, Code(f, t[f.name], zb), h.in[f.name], zb) => f.name \in mk
  BY DEF Marked
<1>10. k = "entity" => \A f \in S : h.in[f.name] = Back(f, h.truth[f.name], TRUE)
  BY <1>1, <1>2 DEF InFrame, StepFields, KindFields, ZeroBit
<1> HIDE DEF mk
<1>11. ASSUME NEW f \in S, h.in[f.name] = R[f.name] PROVE f.name \in mk
  <2>1. CASE k = "entity"
    <3>1. zb = TRUE
      BY <2>1 DEF ZeroBit
    <3>2. f \in FieldsIn(EntityFields)
      BY <1>2, <2>1 DEF KindFields
    <3>3. Back(f, h.truth[f.name], TRUE) = Back(f, t[f.name], TRUE)
      BY <1>4, <1>10, <1>11, <2>1, <3>1
    <3>4. \/ Forced(f, Code(f, t[f.name], TRUE), Back(f, h.truth[f.name], TRUE), TRUE)
          \/ /\ Code(f, h.truth[f.name], TRUE) = <<"raw", 0>>
             /\ Code(f, t[f.name], TRUE) = <<"raw", 0>>
      BY <1>6, <1>7, <3>3, SentMarked
    <3>5. Forced(f, Code(f, t[f.name], TRUE), h.in[f.name], TRUE)
      BY <1>7, <1>10, <2>1, <3>2, <3>4 DEF Unmarked
    <3> QED
      BY <1>9, <3>1, <3>5
  <2>2. CASE k # "entity"
    <3>1. zb = FALSE
      BY <2>2 DEF ZeroBit
    <3>2. Back(f, t[f.name], FALSE) = h.in[f.name]
      BY <1>4, <1>11, <3>1
    <3>3. Forced(f, Code(f, t[f.name], FALSE), h.in[f.name], FALSE)
      BY <3>2, MarkedPlainly
    <3> QED
      BY <1>9, <3>1, <3>3
  <2> QED
    BY <2>1, <2>2
<1>12. ASSUME NEW f \in tools, h.in[f.name] # R[f.name] \/ f.name \in mk PROVE f \in S
  <2>1. \E g \in S : g.name = f.name
    BY <1>3, <1>5, <1>8, <1>12
  <2> QED
    BY <1>2, <2>1 DEF OneName
<1>13. ChangedOf(tools, h.in, R, mk) = S
  BY <1>2, <1>11, <1>12 DEF ChangedOf
<1> HIDE DEF zb
<1>14. \A f \in S : Code(f, R[f.name], zb) = Code(f, t[f.name], zb)
  BY <1>1, <1>4, <1>6, CodeTwice
<1> QED
  BY <1>13, <1>14 DEF zb, mk

(* Two tables of which the same fields are sent, with the same codes, give *)
(* the same message, be one of them longer.                                *)
LEMMA SameItems ==
  ASSUME NEW W, NEW T, IsTable(W), IsTable(T), NEW zb,
         \A i \in DOMAIN T : i \in DOMAIN W /\ W[i] = T[i],
         NEW a, NEW b, NEW mk, NEW x, NEW y,
         \A f \in FieldsIn(W) : f \in ChangedOf(FieldsIn(W), a, b, mk)
                                <=> f \in ChangedOf(FieldsIn(T), x, y, {}),
         \A f \in ChangedOf(FieldsIn(T), x, y, {}) :
           Code(f, b[f.name], zb) = Code(f, y[f.name], zb)
  PROVE  Items(W, a, b, mk, zb) = Items(T, x, y, {}, zb)
<1> DEFINE C == ChangedIn(W, a, b, mk)
           D == ChangedIn(T, x, y, {})
<1>1. \A i \in DOMAIN W : W[i] \in FieldsIn(W)
  BY DEF FieldsIn
<1>2. /\ \A i \in DOMAIN W : i \in C <=> W[i] \in ChangedOf(FieldsIn(W), a, b, mk)
      /\ \A i \in DOMAIN T : i \in D <=> T[i] \in ChangedOf(FieldsIn(T), x, y, {})
      /\ C \subseteq DOMAIN W /\ D \subseteq DOMAIN T
  BY DEF ChangedIn, ChangedOf, FieldsIn
<1>3. ASSUME NEW i \in DOMAIN W, NEW j \in DOMAIN W, W[i] = W[j] PROVE i = j
  <2>1. W[i].name = W[j].name
    BY <1>3
  <2> QED
    BY <2>1 DEF IsTable
<1>4. ASSUME NEW i \in C PROVE i \in D
  <2>2. W[i] \in ChangedOf(FieldsIn(T), x, y, {})
    BY <1>1, <1>2
  <2>3. PICK j \in DOMAIN T : T[j] = W[i]
    BY <2>2 DEF ChangedOf, FieldsIn
  <2> QED
    BY <1>2, <1>3, <2>2, <2>3
<1>5. D \subseteq C
  BY <1>1, <1>2
<1>6. C = D
  BY <1>4, <1>5
<1>7. \A i \in D : Item(W, i, a, b, mk, zb) = Item(T, i, x, y, {}, zb)
  <2>1. TAKE i \in D
  <2>2. W[i] = T[i] /\ T[i] \in ChangedOf(FieldsIn(T), x, y, {})
    BY <1>2
  <2>3. Item(W, i, a, b, mk, zb) = Code(W[i], b[W[i].name], zb)
    BY <1>6 DEF Item
  <2>4. Item(T, i, x, y, {}, zb) = Code(T[i], y[T[i].name], zb)
    BY DEF Item
  <2> QED
    BY <2>2, <2>3, <2>4
<1>8. \A i : i \notin D => /\ Item(W, i, a, b, mk, zb) = NoChange
                           /\ Item(T, i, x, y, {}, zb) = NoChange
  BY <1>6 DEF Item
<1>9. {j \in DOMAIN W : \E c \in C : j <= c} = {j \in DOMAIN T : \E c \in D : j <= c}
  <2>1. DOMAIN W = 1 .. Len(W) /\ DOMAIN T = 1 .. Len(T) /\ Len(W) \in Nat /\ Len(T) \in Nat
    BY DEF IsTable
  <2> HIDE DEF C, D
  <2> QED
    BY <1>2, <1>6, <2>1
<1>10. \A i : Item(W, i, a, b, mk, zb) = Item(T, i, x, y, {}, zb)
  BY <1>7, <1>8
<1> HIDE DEF C, D
<1> QED
  BY <1>9, <1>10 DEF Items, C, D

(* The flags that tell a pilot are read as they are. *)
LEMMA SamePilot ==
  ASSUME NEW t \in Truths["player"], NEW R, InFrame("player", t, R)
  PROVE  IsPilot(R) <=> IsPilot(t)
<1>1. ASSUME NEW n \in {"m_iVehicleNum", "eFlags"} PROVE R[n] = t[n]
  <2>1. PICK i \in 1 .. ServerPilot :
          /\ PilotFields[i].name = n /\ PilotFields[i].bits > 0
          /\ \A u \in Truths["player"] : u[n] \in 0 .. Size(PilotFields[i]) - 1
    BY PilotAssumption
  <2> DEFINE f == PilotFields[i]
  <2>2. f \in StepFields("player")
    <3> DEFINE Q == ServerTable(FALSE, TRUE)
    <3>1. DOMAIN Q = 1 .. ServerPilot /\ \A j \in DOMAIN Q : Q[j] = PilotFields[j]
      BY Tables DEF Table
    <3> HIDE DEF Q
    <3>2. f \in FieldsIn(Q)
      BY <3>1 DEF FieldsIn
    <3> QED
      BY <3>2 DEF StepFields, ServerSet, Q
  <2>3. "player" \in Kinds
    BY DEF Kinds
  <2>4. IsField(f)
    BY <2>2, <2>3, KindTables, KindIsField
  <2>5. f.bits \in Int /\ f.bits > 0 /\ t[n] \in 0 .. Size(f) - 1 /\ f.name = n
    BY <2>1, <2>4 DEF IsField
  <2>6. Size(f) \in Nat /\ Size(f) > 0
    BY <2>4, <2>5 DEF IsField
  <2>7. R[n] = Back(f, t[n], FALSE)
    <3>1. ZeroBit("player") = FALSE
      BY DEF ZeroBit
    <3>2. R[f.name] = Back(f, t[f.name], ZeroBit("player"))
      BY <2>2 DEF InFrame
    <3> QED
      BY <2>5, <3>1, <3>2
  <2> HIDE DEF f
  <2>8. t[n] % Size(f) = t[n]
    BY <2>5, <2>6, Remainders
  <2>9. Code(f, t[n], FALSE) = <<"raw", t[n]>>
    BY <2>5, <2>8 DEF Code
  <2>10. Got(f, <<"raw", t[n]>>) = t[n]
    BY <2>5 DEF Got
  <2>11. Back(f, t[n], FALSE) = t[n]
    BY <2>9, <2>10 DEF Back, Kept
  <2> QED
    BY <2>7, <2>11
<1> QED
  BY <1>1 DEF IsPilot

(* The same elements changed, to the same codes. *)
ArraysAgree(a, b, mk, x, y) ==
  /\ \A f \in FieldsIn(ArrayFields) :
       f \in ChangedOf(FieldsIn(ArrayFields), a, b, mk)
       <=> f \in ChangedOf(FieldsIn(ArrayFields), x, y, {})
  /\ \A f \in ChangedOf(FieldsIn(ArrayFields), x, y, {}) :
       Code(f, b[f.name], FALSE) = Code(f, y[f.name], FALSE)

ArraysRepeat(a, b, mk, x, y) == WriteArrays(a, b, mk) = WriteArrays(x, y, {})

(* Then the arrays are coded the same. *)
LEMMA SameArrays ==
  ASSUME NEW a, NEW b, NEW mk, NEW x, NEW y, ArraysAgree(a, b, mk, x, y)
  PROVE  ArraysRepeat(a, b, mk, x, y)
<1> DEFINE T == ArrayFields
<1> USE DEF ArraysAgree
<1>1. ASSUME NEW i \in DOMAIN T PROVE Item(T, i, a, b, mk, FALSE) = Item(T, i, x, y, {}, FALSE)
  <2>1. T[i] \in FieldsIn(T)
    BY DEF FieldsIn
  <2>2. /\ i \in ChangedIn(T, a, b, mk) <=> T[i] \in ChangedOf(FieldsIn(T), a, b, mk)
        /\ i \in ChangedIn(T, x, y, {}) <=> T[i] \in ChangedOf(FieldsIn(T), x, y, {})
    BY <2>1 DEF ChangedIn, ChangedOf
  <2>3. CASE T[i] \in ChangedOf(FieldsIn(T), x, y, {})
    <3>1. /\ Item(T, i, a, b, mk, FALSE) = Code(T[i], b[T[i].name], FALSE)
          /\ Item(T, i, x, y, {}, FALSE) = Code(T[i], y[T[i].name], FALSE)
      BY <2>1, <2>2, <2>3 DEF Item
    <3> QED
      BY <2>3, <3>1
  <2>4. CASE T[i] \notin ChangedOf(FieldsIn(T), x, y, {})
    BY <2>1, <2>2, <2>4 DEF Item
  <2> QED
    BY <2>3, <2>4
<1> QED
  BY <1>1 DEF WriteArrays, ArraysRepeat

(* The tools write with table W what the server wrote with T. *)
Rewrites(W, T, tools, fs) ==
  /\ IsTable(W) /\ IsTable(T)
  /\ \A i \in DOMAIN T : i \in DOMAIN W /\ W[i] = T[i]
  /\ FieldsIn(W) \subseteq tools
  /\ \A f \in FieldsIn(W) : f \in fs <=> f \in FieldsIn(T)

Repeats(k, W, T, h, t, R, mk) ==
  Items(W, h.in, R, mk, ZeroBit(k)) = Items(T, h.truth, t, {}, ZeroBit(k))

(* The fields of the tables are sent again as the server sent them. *)
LEMMA SameMessage ==
  ASSUME NEW k, NEW h, NEW t, NEW fs, NEW S, NEW R, Receives(k, h, t, fs, S, R),
         NEW mk, mk = Marked(S, h.in, t, ZeroBit(k)), ~ Unmarked(k, h.truth, t),
         NEW W, NEW T, NEW tools, fs \subseteq tools, tools \subseteq KindFields(k),
         Rewrites(W, T, tools, fs)
  PROVE  Repeats(k, W, T, h, t, R, mk)
<1> DEFINE zb == ZeroBit(k)
<1>1. /\ ChangedOf(tools, h.in, R, mk) = S
      /\ \A f \in S : Code(f, R[f.name], zb) = Code(f, t[f.name], zb)
  BY SameFields
<1>2. S = ChangedOf(fs, h.truth, t, {})
  BY DEF Receives
<1>3. FieldsIn(T) \subseteq FieldsIn(W)
  BY DEF FieldsIn, Rewrites
<1>4. \A f \in FieldsIn(W) : f \in ChangedOf(FieldsIn(W), h.in, R, mk) <=> f \in S
  BY <1>1 DEF ChangedOf, Rewrites
<1>5. \A f \in FieldsIn(W) : f \in S <=> f \in ChangedOf(FieldsIn(T), h.truth, t, {})
  BY <1>2 DEF ChangedOf, Rewrites
<1>6. ChangedOf(FieldsIn(T), h.truth, t, {}) \subseteq S
  BY <1>3, <1>5 DEF ChangedOf
<1> HIDE DEF zb
<1>7. Items(W, h.in, R, mk, zb) = Items(T, h.truth, t, {}, zb)
  BY <1>1, <1>4, <1>5, <1>6, SameItems DEF Rewrites
<1> QED
  BY <1>7 DEF zb, Repeats

-----------------------------------------------------------------------------
(* The invariant: every frame so far is one that was read in step with the *)
(* server and copied, so that any of them will do as the next one's base.  *)

FieldNames(k) == {f.name : f \in SentFields(k)}

CodecInv ==
  /\ kind \in Kinds
  /\ history \in Seq({history[i] : i \in DOMAIN history}) /\ Len(history) > 0
  /\ \A b \in DOMAIN history : StateFrame(kind, history[b])
  /\ against \in DOMAIN history
  /\ marks \subseteq FieldNames(kind) /\ splitMarks = marks
  /\ ReencodeExact

(* A sequence with one element more. *)
LEMMA AppendFacts ==
  ASSUME NEW h, h \in Seq({h[i] : i \in DOMAIN h}), NEW e
  PROVE  LET g == Append(h, e)
         IN  /\ g \in Seq({g[i] : i \in DOMAIN g})
             /\ Len(g) \in Nat /\ Len(g) > 0 /\ DOMAIN h \subseteq DOMAIN g
             /\ g[Len(g)] = e /\ Len(g) \in DOMAIN g
             /\ \A i \in DOMAIN h : g[i] = h[i]
             /\ \A i \in DOMAIN g : i \in DOMAIN h \/ g[i] = e
<1> DEFINE A == {h[i] : i \in DOMAIN h}
           B == A \cup {e}
           g == Append(h, e)
<1>1. h \in Seq(A) /\ DOMAIN h = 1 .. Len(h) /\ Len(h) \in Nat
  OBVIOUS
<1> HIDE DEF A
<1>2. h \in Seq(B) /\ e \in B
  BY <1>1
<1> HIDE DEF B
<1>3. /\ g \in Seq(B) /\ Len(g) = Len(h) + 1 /\ DOMAIN g = 1 .. Len(g)
      /\ g[Len(h) + 1] = e
      /\ \A i \in 1 .. Len(h) : g[i] = h[i]
  BY <1>2
<1> HIDE DEF g
<1>4. g \in Seq({g[i] : i \in DOMAIN g})
  BY <1>3
<1>5. Len(g) \in Nat /\ Len(g) > 0 /\ DOMAIN h \subseteq DOMAIN g /\ Len(g) \in DOMAIN g
  BY <1>1, <1>3
<1>6. g[Len(g)] = e /\ \A i \in DOMAIN h : g[i] = h[i]
  BY <1>1, <1>3
<1>7. \A i \in DOMAIN g : i \in DOMAIN h \/ g[i] = e
  BY <1>1, <1>3
<1> QED
  BY <1>4, <1>5, <1>6, <1>7 DEF g

(* Nothing was sent: everyone has the same empty frame. *)
LEMMA CodecInitInv == CodecInit => CodecInv
<1> SUFFICES ASSUME CodecInit PROVE CodecInv
  OBVIOUS
<1> DEFINE none == [n \in StateNames(kind) |-> 0]
           h == [truth |-> none, in |-> none, split |-> none]
<1>1. kind \in Kinds /\ history = <<h>> /\ marks = {} /\ splitMarks = {} /\ against = 1
      /\ sent = Nothing /\ again = Nothing
  BY DEF CodecInit, StateNames
<1>2. StateFrame(kind, h)
  BY <1>1, EmptyFrame
<1> HIDE DEF h
<1>3. Len(history) = 1 /\ DOMAIN history = {1} /\ history[1] = h
  BY <1>1
<1>4. history \in Seq({history[i] : i \in DOMAIN history})
  <2>1. history \in Seq({h})
    BY <1>1
  <2>2. {history[i] : i \in DOMAIN history} = {h}
    BY <1>3
  <2> QED
    BY <2>1, <2>2
<1> QED
  BY <1>1, <1>2, <1>3, <1>4 DEF CodecInv, ReencodeExact

(* A frame that was read and copied in step keeps the invariant. *)
LEMMA Extended ==
  ASSUME CodecInv, NEW t, TruthFrame(kind, t), NEW in, InFrame(kind, t, in),
         NEW b \in DOMAIN history, NEW new, new \subseteq FieldNames(kind),
         kind' = kind, history' = Append(history, [truth |-> t, in |-> in, split |-> in]),
         marks' = new, splitMarks' = new, against' = b,
         again' = sent' \/ Unmarked(kind, history[b].truth, t)
  PROVE  CodecInv'
<1> DEFINE e == [truth |-> t, in |-> in, split |-> in]
<1>1. StateFrame(kind, e)
  BY DEF StateFrame
<1>2. e.truth = t
  OBVIOUS
<1>3. history \in Seq({history[i] : i \in DOMAIN history})
  BY DEF CodecInv
<1>4. history' = Append(history, e)
  OBVIOUS
<1> HIDE DEF e
<1>5. /\ history' \in Seq({history'[i] : i \in DOMAIN history'})
      /\ Len(history') > 0 /\ DOMAIN history \subseteq DOMAIN history'
      /\ history'[Len(history')] = e
      /\ \A i \in DOMAIN history : history'[i] = history[i]
      /\ \A i \in DOMAIN history' : i \in DOMAIN history \/ history'[i] = e
  BY <1>3, <1>4, AppendFacts
<1>6. \A i \in DOMAIN history' : StateFrame(kind, history'[i])
  BY <1>1, <1>5 DEF CodecInv
<1>7. ReencodeExact'
  <2>1. CASE again' = sent'
    BY <2>1 DEF ReencodeExact
  <2>2. CASE Unmarked(kind, history[b].truth, t)
    <3>1. history'[against'] = history[b] /\ Last' = e
      BY <1>5 DEF Last
    <3>2. Unseen'
      BY <1>2, <2>2, <3>1 DEF Unseen, Unmarked
    <3> QED
      BY <3>2 DEF ReencodeExact
  <2> QED
    BY <2>1, <2>2
<1> QED
  BY <1>5, <1>6, <1>7 DEF CodecInv

(* The states of a run have the fields of its object. *)
LEMMA NamesFixed ==
  ASSUME CodecInv
  PROVE  /\ Names = StateNames(kind) /\ FieldNames(kind) \subseteq StateNames(kind)
         /\ StateFrame(kind, Last)
<1>1. 1 \in DOMAIN history /\ Len(history) \in DOMAIN history
  BY DEF CodecInv
<1>2. StateFrame(kind, history[1]) /\ StateFrame(kind, Last)
  BY <1>1 DEF CodecInv, Last
<1>3. Names = StateNames(kind)
  BY <1>2 DEF Names, StateFrame, TruthFrame
<1>4. FieldNames(kind) \subseteq StateNames(kind)
  BY KindTables, KindIsField DEF FieldNames, CodecInv
<1> QED
  BY <1>2, <1>3, <1>4

(* What was received marks only fields that were sent. *)
LEMMA MarkedSent ==
  ASSUME NEW k, NEW h, NEW t, NEW fs, NEW S, NEW R, Receives(k, h, t, fs, S, R),
         NEW zb
  PROVE  Marked(S, h.in, t, zb) \subseteq FieldNames(k)
BY DEF Receives, ChangedOf, Marked, FieldNames

(* A state that was read can be coded. *)
LEMMA InFilled ==
  ASSUME NEW k \in Kinds, NEW t, NEW R, InFrame(k, t, R), NEW fs, fs \subseteq KindFields(k)
  PROVE  HasFields(fs, R) /\ DOMAIN R = StateNames(k) /\ R = [n \in DOMAIN R |-> R[n]]
BY KindIsField DEF HasFields, InFrame

(* So can one of the server's. *)
LEMMA TruthFilled ==
  ASSUME NEW k \in Kinds, NEW t, TruthFrame(k, t), NEW fs, fs \subseteq KindFields(k)
  PROVE  HasFields(fs, t) /\ DOMAIN t = StateNames(k)
BY KindIsField DEF HasFields, TruthFrame

(* The marks of an entity have a table of their own. *)
LEMMA MarkTable ==
  /\ IsTable(EntityMarkFields)
  /\ \A f \in FieldsIn(EntityMarkFields) : IsField(f) /\ \E g \in FieldsIn(EntityFields) : g.name = f.name
  /\ \A g \in FieldsIn(EntityFields) : \E f \in FieldsIn(EntityMarkFields) : f.name = g.name
<1> DEFINE T == EntityFields
           U == EntityMarkFields
<1>1. T \in Seq([name : STRING, bits : Int]) /\ Len(T) \in Nat /\ DOMAIN T = 1 .. Len(T)
  BY TableAssumption DEF IsTable
<1>2. \A i \in 1 .. Len(T) : T[i] \in [name : STRING, bits : Int]
  BY <1>1, ElementOfSeq
<1>3. \A i \in 1 .. Len(T) : U[i] = [T[i] EXCEPT !.bits = MarkBits]
  BY <1>1 DEF EntityMarkFields
<1>4. \A i \in 1 .. Len(T) : /\ U[i] \in [name : STRING, bits : Int]
                             /\ U[i].name = T[i].name /\ U[i].bits = MarkBits
  <2>1. ASSUME NEW g \in [name : STRING, bits : Int], NEW n \in Int, NEW f,
               f = [g EXCEPT !.bits = n]
        PROVE  f \in [name : STRING, bits : Int] /\ f.name = g.name /\ f.bits = n
    BY <2>1
  <2>2. MarkBits \in Int
    BY DEF MarkBits
  <2>3. TAKE i \in 1 .. Len(T)
  <2>4. T[i] \in [name : STRING, bits : Int] /\ U[i] = [T[i] EXCEPT !.bits = MarkBits]
    BY <1>2, <1>3
  <2> HIDE DEF T, U
  <2> QED
    BY <2>1, <2>2, <2>4
<1>5. U = [i \in 1 .. Len(T) |-> U[i]]
  BY <1>1 DEF EntityMarkFields
<1> HIDE DEF U
<1>6. U \in Seq([name : STRING, bits : Int]) /\ DOMAIN U = 1 .. Len(T)
  BY <1>1, <1>4, <1>5
<1>7. IsTable(U)
  BY <1>1, <1>4, <1>6, TableAssumption DEF IsTable
<1>8. ASSUME NEW f \in FieldsIn(U) PROVE IsField(f) /\ \E g \in FieldsIn(T) : g.name = f.name
  <2>1. PICK i \in 1 .. Len(T) : f = U[i]
    BY <1>6 DEF FieldsIn
  <2>2. f \in AllFields
    BY <1>8 DEF AllFields, U
  <2>3. f.bits \in Int
    BY <1>4, <2>1
  <2>4. T[i] \in FieldsIn(T)
    BY <1>1, <2>1 DEF FieldsIn
  <2> QED
    BY <1>4, <2>1, <2>2, <2>3, <2>4, SizeAssumption DEF IsField
<1>9. ASSUME NEW g \in FieldsIn(T) PROVE \E f \in FieldsIn(U) : f.name = g.name
  <2>1. PICK i \in 1 .. Len(T) : g = T[i]
    BY <1>1 DEF FieldsIn
  <2>2. U[i] \in FieldsIn(U)
    BY <1>6, <2>1 DEF FieldsIn
  <2> QED
    BY <1>4, <2>1, <2>2
<1> QED
  BY <1>7, <1>8, <1>9 DEF U

(* The splitter has the combiner's marks of an entity if it had the last   *)
(* ones.                                                                   *)
LEMMA EntityMarksExact ==
  ASSUME NEW names, NEW old, NEW new, old \subseteq names, new \subseteq names,
         \A f \in FieldsIn(EntityFields) : f.name \in names,
         \A n \in old \cup new : \E f \in FieldsIn(EntityFields) : f.name = n
  PROVE  GetEntityMarks(names, old, SendEntityMarks(names, old, new)) = new
<1> DEFINE U == EntityMarkFields
           F == Flags(names, old)
           G == Flags(names, new)
           m == WriteEntity(U, F, G, {}, TRUE)
           R == ReadEntity(U, F, m)
<1>1. GetEntityMarks(names, old, SendEntityMarks(names, old, new)) = Flagged(R)
  BY DEF GetEntityMarks, SendEntityMarks
<1>2. /\ F = [n \in DOMAIN F |-> F[n]] /\ DOMAIN F = names
      /\ DOMAIN G = names /\ \A n \in names : G[n] \in Int
  BY DEF Flags
<1>3. IsTable(U) /\ \A f \in FieldsIn(U) : IsField(f) /\ f.name \in names
  BY MarkTable
<1>4. \A n \in old \cup new : \E f \in FieldsIn(U) : f.name = n
  BY MarkTable
<1> HIDE DEF U, F, G
<1>5. HasFields(FieldsIn(U), G)
  BY <1>2, <1>3 DEF HasFields, Holds
<1>6. Took(ChangedOf(FieldsIn(U), F, G, {}), F, G, R, TRUE)
  BY <1>2, <1>3, <1>5, EntityRead
<1>7. Flagged(R) = new
  <2> HIDE DEF R
  <2>1. MarksCarried(FieldsIn(U), names, old, new, R, TRUE)
    BY <1>3, <1>4, <1>6 DEF MarksCarried, F, G
  <2> QED
    BY <2>1, MarksExact
<1> QED
  BY <1>1, <1>7

(* A frame of an entity, from the server into the split demo, keeps the    *)
(* invariant.                                                              *)
LEMMA SendEntityInv ==
  ASSUME CodecInv, NEW t \in Truths[kind], NEW b \in DOMAIN history, SendEntity(t, b)
  PROVE  CodecInv'
<1> DEFINE E == EntityFields
           h == history[b]
           l == Last
           S == ChangedOf(FieldsIn(E), h.truth, t, {})
           m == WriteEntity(E, h.truth, t, {}, b = 1)
           in == ReadEntity(E, h.in, m)
           new == EntityMarks(h.in, m)
           merged == WriteEntity(E, l.in, in, {}, new # marks)
           got == ReadEntity(E, l.split, merged)
           mm == SendEntityMarks(Names, marks, new)
<1>1. /\ kind = "entity" /\ kind' = kind
      /\ history' = Append(history, [truth |-> t, in |-> in, split |-> got])
      /\ marks' = new /\ against' = b
      /\ splitMarks' = IF merged = Nothing THEN splitMarks
                       ELSE GetEntityMarks(Names, splitMarks, mm)
      /\ sent' = m
      /\ again' = WriteEntity(E, h.split, got, splitMarks', b = 1)
  BY DEF SendEntity, ServerWriteEntity
<1>2. /\ kind \in Kinds /\ StateFrame(kind, h) /\ StateFrame(kind, l) /\ TruthFrame(kind, t)
      /\ splitMarks = marks /\ marks \subseteq FieldNames(kind)
  BY NamesFixed, TruthIsFrame DEF CodecInv
<1>3. /\ KindFields(kind) = FieldsIn(E) /\ SentFields(kind) = FieldsIn(E)
      /\ StepFields(kind) = FieldsIn(E) /\ ZeroBit(kind) = TRUE
  BY <1>1 DEF KindFields, SentFields, StepFields, ZeroBit
<1>4. IsTable(E)
  BY TableAssumption
<1>6. /\ h.in = [n \in DOMAIN h.in |-> h.in[n]] /\ DOMAIN h.in = StateNames(kind)
      /\ l.in = [n \in DOMAIN l.in |-> l.in[n]] /\ DOMAIN l.in = StateNames(kind)
      /\ h.split = h.in /\ l.split = l.in
      /\ \A f \in FieldsIn(E) : f.name \in StateNames(kind)
  BY <1>2, <1>3, KindIsField DEF StateFrame, InFrame
<1> HIDE DEF h, l, E
<1>7. HasFields(FieldsIn(E), t)
  BY <1>2, <1>3, TruthFilled
<1>8. Took(S, h.in, t, in, TRUE) /\ new = Marked(S, h.in, t, TRUE)
  <2>1. Took(S, h.in, t, in, TRUE)
    BY <1>4, <1>6, <1>7, EntityRead
  <2>2. EntityMarks(h.in, m) = Marked(S, h.in, t, TRUE)
    <3>1. EntityMarksTold(m, S, h.in, t)
      BY <1>4, <1>6, <1>7, EntityRead DEF E
    <3> QED
      BY <3>1 DEF EntityMarksTold
  <2> QED
    BY <2>1, <2>2
<1> HIDE DEF in, new
<1>9. Receives(kind, h, t, FieldsIn(E), S, in)
  BY <1>2, <1>3, <1>8 DEF Receives
<1>10. InFrame(kind, t, in) /\ new \subseteq FieldNames(kind)
  BY <1>8, <1>9, ReceivesIn, MarkedSent
<1>11. HasFields(FieldsIn(E), in)
  BY <1>2, <1>3, <1>10, InFilled
<1>12. Took(ChangedOf(FieldsIn(E), l.in, in, {}), l.in, in, got, TRUE)
  BY <1>4, <1>6, <1>11, EntityRead
<1> HIDE DEF got
<1>13. got = in
  BY <1>2, <1>3, <1>10, <1>12, ForwardExact
<1>14. splitMarks' = new
  <2>1. CASE merged = Nothing
    <3>1. ~ (new # marks)
      BY <2>1 DEF WriteEntity, Nothing
    <3> QED
      BY <1>1, <1>2, <2>1, <3>1
  <2>2. CASE merged # Nothing
    <3>1. /\ Names = StateNames(kind) /\ FieldNames(kind) \subseteq StateNames(kind)
      BY NamesFixed
    <3>2. \A n \in marks \cup new : \E f \in FieldsIn(E) : f.name = n
      BY <1>2, <1>3, <1>10 DEF FieldNames
    <3>3. GetEntityMarks(Names, marks, mm) = new
      BY <1>2, <1>6, <1>10, <3>1, <3>2, EntityMarksExact DEF E
    <3> QED
      BY <1>1, <1>2, <2>2, <3>3
  <2> QED
    BY <2>1, <2>2
<1>15. again' = sent' \/ Unmarked(kind, h.truth, t)
  <2>1. SUFFICES ASSUME ~ Unmarked(kind, h.truth, t) PROVE again' = sent'
    OBVIOUS
  <2>2. Items(E, h.in, in, new, TRUE) = Items(E, h.truth, t, {}, TRUE)
    <3> DEFINE zb == ZeroBit(kind)
    <3>1. Items(E, h.in, in, new, zb) = Items(E, h.truth, t, {}, zb)
      <4>1. new = Marked(S, h.in, t, zb)
        BY <1>3, <1>8
      <4> QED
        <5>1. Rewrites(E, E, FieldsIn(E), FieldsIn(E))
          BY <1>4 DEF Rewrites
        <5>2. Repeats(kind, E, E, h, t, in, new)
          BY <1>3, <1>9, <2>1, <4>1, <5>1, SameMessage
        <5> QED
          BY <5>2 DEF Repeats
    <3> QED
      BY <1>3, <3>1
  <2>3. again' = WriteEntity(E, h.in, in, new, b = 1)
    BY <1>1, <1>6, <1>13, <1>14
  <2> QED
    BY <1>1, <2>2, <2>3 DEF WriteEntity
<1> QED
  BY <1>1, <1>2, <1>10, <1>13, <1>14, <1>15, Extended DEF h

(* Which fields of a player are written and read. *)
LEMMA PlayerTables ==
  ASSUME NEW k \in {"player", "vehicle"}, NEW v \in BOOLEAN, v <=> k = "vehicle",
         NEW pilot \in BOOLEAN, v => ~ pilot
  PROVE  /\ StepFields(k) \subseteq ServerSet(v, pilot)
         /\ ServerSet(v, pilot) \subseteq SentFields(k)
         /\ SentFields(k) \subseteq ToolSet(v, pilot)
         /\ ToolSet(v, pilot) \subseteq KindFields(k)
         /\ Rewrites(Table(v, pilot), ServerTable(v, pilot), ToolSet(v, pilot), ServerSet(v, pilot))
<1> DEFINE W == Table(v, pilot)
           T == ServerTable(v, pilot)
<1>1. /\ IsTable(W) /\ IsTable(T) /\ Apart(W, ArrayFields)
      /\ \A i \in DOMAIN T : i \in DOMAIN W /\ W[i] = T[i]
      /\ FieldsIn(T) \subseteq FieldsIn(W)
  BY Tables
<1>2. \A f \in FieldsIn(W) : f \in ServerSet(v, pilot) <=> f \in FieldsIn(T)
  BY <1>1 DEF ServerSet, Apart
<1>3. Rewrites(W, T, ToolSet(v, pilot), ServerSet(v, pilot))
  BY <1>1, <1>2 DEF Rewrites, ToolSet
<1>4. CASE k = "vehicle"
  <2>1. W = VehicleFields /\ T = VehicleFields
    BY <1>4 DEF Table, ServerTable
  <2>2. /\ StepFields(k) = FieldsIn(VehicleFields) \cup FieldsIn(ArrayFields)
        /\ SentFields(k) = FieldsIn(VehicleFields) \cup FieldsIn(ArrayFields)
        /\ KindFields(k) = FieldsIn(VehicleFields) \cup FieldsIn(ArrayFields)
    BY <1>4 DEF StepFields, SentFields, KindFields, ServerSet, ServerTable, Table
  <2> QED
    BY <1>3, <2>1, <2>2 DEF ServerSet, ToolSet
<1>5. CASE k = "player"
  <2>1. /\ StepFields(k) = FieldsIn(ServerTable(FALSE, TRUE)) \cup FieldsIn(ArrayFields)
        /\ SentFields(k) = FieldsIn(PlayerFields) \cup FieldsIn(ArrayFields)
        /\ KindFields(k) = FieldsIn(PilotFields) \cup FieldsIn(ArrayFields)
    BY <1>5 DEF StepFields, SentFields, KindFields, ServerSet
  <2>2. StepFields(k) \subseteq SentFields(k)
    BY <1>5, KindTables DEF Kinds
  <2>3. FieldsIn(PlayerFields) \subseteq FieldsIn(PilotFields)
    BY TableAssumption
  <2>4. CASE pilot
    <3>1. v = FALSE /\ pilot = TRUE
      BY <1>5, <2>4
    <3>2. W = PilotFields /\ T = ServerTable(FALSE, TRUE)
      BY <3>1 DEF Table
    <3> QED
      BY <1>3, <2>1, <2>2, <2>3, <3>2 DEF ServerSet, ToolSet
  <2>5. CASE ~ pilot
    <3>1. W = PlayerFields /\ T = PlayerFields
      BY <1>5, <2>5 DEF Table, ServerTable
    <3> QED
      BY <1>3, <2>1, <2>2, <2>3, <3>1 DEF ServerSet, ToolSet
  <2> QED
    BY <2>4, <2>5
<1> QED
  BY <1>4, <1>5

(* And those of a player or a vehicle. *)
LEMMA PlayerMarksExact ==
  ASSUME NEW k \in {"player", "vehicle"}, NEW v \in BOOLEAN, v <=> k = "vehicle",
         NEW names, NEW old, NEW new, old \subseteq names, new \subseteq names,
         \A f \in KindFields(k) : f.name \in names,
         old \cup new \subseteq FieldNames(k)
  PROVE  GetPlayerMarks(v, names, old, SendPlayerMarks(v, names, old, new)) = new
<1> DEFINE F == Flags(names, old)
           G == Flags(names, new)
           pilot == ~ v /\ IsPilot(G)
           fs == ToolSet(v, pilot)
           W == Table(v, pilot)
           m == WritePlayerstate(W, pilot, F, G, {})
           R == ReadPlayerstate(v, F, m)
<1>1. GetPlayerMarks(v, names, old, SendPlayerMarks(v, names, old, new)) = Flagged(R)
  BY DEF GetPlayerMarks, SendPlayerMarks, ToolWritePlayerstate
<1>2. DOMAIN F = names /\ DOMAIN G = names /\ \A n \in names : G[n] \in Int
  BY DEF Flags
<1>3. pilot \in BOOLEAN /\ (v => ~ pilot) /\ k \in Kinds
  BY DEF Kinds
<1> HIDE DEF F, G, pilot
<1>4. /\ SentFields(k) \subseteq fs /\ fs \subseteq KindFields(k) /\ IsTable(W)
  BY <1>3, PlayerTables DEF Rewrites
<1>5. \A f \in fs : IsField(f) /\ f.name \in names
  BY <1>3, <1>4, KindIsField
<1>6. HasFields(fs, G)
  BY <1>2, <1>5 DEF HasFields, Holds
<1>7. Took(ChangedOf(fs, F, G, {}), F, G, R, FALSE)
  BY <1>2, <1>3, <1>4, <1>6, PlayerRead DEF ToolSet
<1>8. \A n \in old \cup new : \E f \in fs : f.name = n
  BY <1>4 DEF FieldNames
<1>9. Flagged(R) = new
  <2>1. \A f \in fs : IsField(f)
    BY <1>5
  <2>2. Took(ChangedOf(fs, Flags(names, old), Flags(names, new), {}),
             Flags(names, old), Flags(names, new), R, FALSE)
    BY <1>7 DEF F, G
  <2> HIDE DEF R, fs
  <2>3. MarksCarried(fs, names, old, new, R, FALSE)
    BY <1>8, <2>1, <2>2 DEF MarksCarried
  <2> QED
    BY <2>3, MarksExact
<1> QED
  BY <1>1, <1>9

(* The arrays are sent again as the server sent them. *)
LEMMA SameArraysAgain ==
  ASSUME NEW k, NEW h, NEW t, NEW fs, NEW S, NEW R, Receives(k, h, t, fs, S, R),
         NEW mk, mk = Marked(S, h.in, t, ZeroBit(k)), ~ Unmarked(k, h.truth, t),
         NEW tools, fs \subseteq tools, tools \subseteq KindFields(k),
         FieldsIn(ArrayFields) \subseteq fs, ZeroBit(k) = FALSE
  PROVE  ArraysRepeat(h.in, R, mk, h.truth, t)
<1> DEFINE A == FieldsIn(ArrayFields)
<1>1. /\ ChangedOf(tools, h.in, R, mk) = S
      /\ \A f \in S : Code(f, R[f.name], ZeroBit(k)) = Code(f, t[f.name], ZeroBit(k))
  BY SameFields
<1>2. S = ChangedOf(fs, h.truth, t, {})
  BY DEF Receives
<1>3. \A f \in A : f \in ChangedOf(A, h.in, R, mk) <=> f \in S
  BY <1>1 DEF ChangedOf
<1>4. \A f \in A : f \in ChangedOf(A, h.truth, t, {}) <=> f \in S
  BY <1>2 DEF ChangedOf
<1>5. \A f \in ChangedOf(A, h.truth, t, {}) : f \in S
  BY <1>4 DEF ChangedOf
<1>6. \A f \in S : Code(f, R[f.name], FALSE) = Code(f, t[f.name], FALSE)
  BY <1>1
<1>7. ArraysAgree(h.in, R, mk, h.truth, t)
  BY <1>3, <1>4, <1>5, <1>6 DEF ArraysAgree
<1> QED
  BY <1>7, SameArrays

(* A frame of a player or a vehicle keeps the invariant. *)
LEMMA SendPlayerInv ==
  ASSUME CodecInv, NEW t \in Truths[kind], NEW b \in DOMAIN history, SendPlayer(t, b)
  PROVE  CodecInv'
<1> DEFINE v == IsVehicle
           h == history[b]
           l == Last
           pilot == ~ v /\ IsPilot(t)
           T == ServerTable(v, pilot)
           W == Table(v, pilot)
           fs == ServerSet(v, pilot)
           S == ChangedOf(fs, h.truth, t, {})
           m == WritePlayerstate(T, pilot, h.truth, t, {})
           in == ReadPlayerstate(v, h.in, m)
           new == PlayerMarks(v, h.in, m)
           pilot2 == ~ v /\ IsPilot(in)
           W2 == Table(v, pilot2)
           merged == WritePlayerstate(W2, pilot2, l.in, in, {})
           got == ReadPlayerstate(v, l.split, merged)
<1>1. /\ kind # "entity" /\ kind' = kind
      /\ history' = Append(history, [truth |-> t, in |-> in, split |-> got])
      /\ marks' = new /\ against' = b
      /\ splitMarks' = GetPlayerMarks(v, Names, splitMarks, SendPlayerMarks(v, Names, marks, new))
      /\ sent' = m
      /\ again' = ToolWritePlayerstate(v, h.split, got, splitMarks')
  BY DEF SendPlayer, ServerWritePlayerstate, ToolWritePlayerstate
<1>2. /\ kind \in Kinds /\ StateFrame(kind, h) /\ StateFrame(kind, l) /\ TruthFrame(kind, t)
      /\ splitMarks = marks /\ marks \subseteq FieldNames(kind)
  BY NamesFixed, TruthIsFrame DEF CodecInv
<1>3. /\ v \in BOOLEAN /\ (v <=> kind = "vehicle") /\ kind \in {"player", "vehicle"}
      /\ pilot \in BOOLEAN /\ (v => ~ pilot) /\ ZeroBit(kind) = FALSE
      /\ pilot2 \in BOOLEAN /\ (v => ~ pilot2)
  BY <1>1, <1>2 DEF Kinds, IsVehicle, ZeroBit
<1>4. /\ h.in = [n \in DOMAIN h.in |-> h.in[n]] /\ DOMAIN h.in = StateNames(kind)
      /\ l.in = [n \in DOMAIN l.in |-> l.in[n]] /\ DOMAIN l.in = StateNames(kind)
      /\ h.split = h.in /\ l.split = l.in
  BY <1>2 DEF StateFrame, InFrame
<1> HIDE DEF v, h, l, pilot, pilot2
<1>5. /\ StepFields(kind) \subseteq fs /\ fs \subseteq SentFields(kind)
      /\ SentFields(kind) \subseteq ToolSet(v, pilot)
      /\ ToolSet(v, pilot) \subseteq KindFields(kind)
      /\ Rewrites(W, T, ToolSet(v, pilot), fs)
  BY <1>3, PlayerTables
<1>6. HasFields(fs, t) /\ DOMAIN t = StateNames(kind)
  BY <1>2, <1>5, TruthFilled
<1>7. Took(S, h.in, t, in, FALSE) /\ new = Marked(S, h.in, t, FALSE)
  <2>1. /\ IsTable(T)
        /\ \A i \in DOMAIN T : i \in DOMAIN W /\ W[i] = T[i]
    BY <1>5 DEF Rewrites
  <2>2. Took(S, h.in, t, in, FALSE) /\ PlayerMarksTold(v, m, S, h.in, t)
    BY <1>3, <1>4, <1>6, <2>1, PlayerRead DEF ServerSet
  <2> QED
    BY <2>2 DEF PlayerMarksTold
<1> HIDE DEF in, new
<1>8. Receives(kind, h, t, fs, S, in)
  BY <1>2, <1>3, <1>5, <1>7 DEF Receives
<1>9. InFrame(kind, t, in) /\ new \subseteq FieldNames(kind)
  BY <1>7, <1>8, ReceivesIn, MarkedSent
<1>10. /\ SentFields(kind) \subseteq ToolSet(v, pilot2)
       /\ ToolSet(v, pilot2) \subseteq KindFields(kind)
       /\ IsTable(W2)
  BY <1>3, PlayerTables DEF Rewrites
<1>11. HasFields(ToolSet(v, pilot2), in) /\ DOMAIN in = StateNames(kind)
  BY <1>2, <1>9, <1>10, InFilled
<1>12. Took(ChangedOf(ToolSet(v, pilot2), l.in, in, {}), l.in, in, got, FALSE)
  BY <1>3, <1>4, <1>10, <1>11, PlayerRead DEF ToolSet
<1> HIDE DEF got
<1>13. got = in
  BY <1>2, <1>3, <1>9, <1>10, <1>12, ForwardExact
<1>14. splitMarks' = new
  <2>1. /\ Names = StateNames(kind) /\ FieldNames(kind) \subseteq StateNames(kind)
    BY NamesFixed
  <2>2. \A f \in KindFields(kind) : f.name \in Names
    BY <1>2, <2>1, KindIsField
  <2>3. GetPlayerMarks(v, Names, marks, SendPlayerMarks(v, Names, marks, new)) = new
    BY <1>2, <1>3, <1>9, <2>1, <2>2, PlayerMarksExact
  <2> QED
    BY <1>1, <1>2, <2>3
<1>15. again' = sent'
  <2>1. ~ Unmarked(kind, h.truth, t)
    BY <1>1 DEF Unmarked
  <2>2. new = Marked(S, h.in, t, ZeroBit(kind)) /\ fs \subseteq ToolSet(v, pilot)
    BY <1>3, <1>5, <1>7
  <2>3. Items(W, h.in, in, new, FALSE) = Items(T, h.truth, t, {}, FALSE)
    <3>1. Repeats(kind, W, T, h, t, in, new)
      BY <1>5, <1>8, <2>1, <2>2, SameMessage
    <3> QED
      BY <1>3, <3>1 DEF Repeats
  <2>4. WriteArrays(h.in, in, new) = WriteArrays(h.truth, t, {})
    <3>1. FieldsIn(ArrayFields) \subseteq fs
      BY DEF ServerSet
    <3>2. ArraysRepeat(h.in, in, new, h.truth, t)
      BY <1>3, <1>5, <1>8, <2>1, <2>2, <3>1, SameArraysAgain
    <3> QED
      BY <3>2 DEF ArraysRepeat
  <2>5. pilot2 = pilot
    <3>1. CASE kind = "player"
      <4>1. IsPilot(in) <=> IsPilot(t)
        BY <1>9, <3>1, SamePilot
      <4> QED
        BY <4>1 DEF pilot, pilot2
    <3>2. CASE kind = "vehicle"
      BY <1>3, <3>2
    <3> QED
      BY <1>3, <3>1, <3>2
  <2>6. again' = WritePlayerstate(W2, pilot2, h.in, in, new)
    BY <1>1, <1>4, <1>13, <1>14 DEF ToolWritePlayerstate, pilot2
  <2>7. again' = WritePlayerstate(W, pilot, h.in, in, new)
    BY <2>5, <2>6
  <2>8. sent' = WritePlayerstate(T, pilot, h.truth, t, {})
    BY <1>1
  <2> QED
    BY <2>3, <2>4, <2>7, <2>8 DEF WritePlayerstate
<1> QED
  BY <1>1, <1>2, <1>9, <1>13, <1>14, <1>15, Extended DEF h

(* CodecInv is inductive. *)
THEOREM CodecAlways == CodecSpec => []CodecInv
<1>1. CodecInit => CodecInv
  BY CodecInitInv
<1>2. CodecInv /\ [CodecNext]_codecVars => CodecInv'
  <2>1. ASSUME CodecInv, NEW t \in Truths[kind], NEW b \in DOMAIN history,
               SendEntity(t, b) \/ SendPlayer(t, b)
        PROVE  CodecInv'
    BY <2>1, SendEntityInv, SendPlayerInv
  <2>2. ASSUME CodecInv, UNCHANGED codecVars PROVE CodecInv'
    BY <2>2 DEF codecVars, CodecInv, ReencodeExact, Unseen, Last
  <2> QED
    BY <2>1, <2>2 DEF CodecNext
<1> QED
  BY <1>1, <1>2, PTL DEF CodecSpec

(* MSG_ReadDeltaEntityWithFloats and MSG_ReadDeltaPlayerstate keep up with *)
(* the server: in the fields that are always sent, what they have depends  *)
(* on the server's state alone, whatever frames the messages were coded    *)
(* against.                                                                *)
THEOREM InStepAlways == CodecSpec => []InStep
<1>1. CodecInv => InStep
  <2> SUFFICES ASSUME CodecInv PROVE InStep
    OBVIOUS
  <2>1. StateFrame(kind, Last) /\ kind \in Kinds
    BY NamesFixed DEF CodecInv
  <2>2. AlwaysSent = StepFields(kind)
    BY <2>1 DEF AlwaysSent, StepFields, ServerSet, IsVehicle
  <2>3. \A f \in StepFields(kind) :
          Last.in[f.name] = Back(f, Last.truth[f.name], ZeroBit(kind))
    BY <2>1 DEF StateFrame, InFrame
  <2> QED
    BY <2>2, <2>3 DEF InStep, Seen, Back, ZeroBit
<1> QED
  BY <1>1, CodecAlways, PTL

(* The merged file loses nothing: the splitter has the combiner's states   *)
(* and its marks.                                                          *)
THEOREM SplitSameAlways == CodecSpec => []SplitExact
<1>1. CodecInv => SplitExact
  BY NamesFixed DEF CodecInv, StateFrame, SplitExact
<1> QED
  BY <1>1, CodecAlways, PTL

(* The split demo has the server's messages again, except for an entity    *)
(* with a field that went from one value to another and none of whose bits *)
(* were sent.                                                              *)
THEOREM ReencodeAlways == CodecSpec => []ReencodeExact
<1>1. CodecInv => ReencodeExact
  BY DEF CodecInv
<1> QED
  BY <1>1, CodecAlways, PTL
=============================================================================
