----------------------------- MODULE RoundTrip -----------------------------
(***************************************************************************)
(* Demo files into one file and out of it again: RunMerge of               *)
(* demo_combiner.cpp reads every demo up to its next snapshot, merges the  *)
(* demos whose snapshots have the smallest server time and writes a        *)
(* message with all that a demo file has besides: when demos begin and     *)
(* end, their gamestates, the bytes behind their last snapshot.  RunSplit  *)
(* of demo_splitter.cpp makes the files again.                             *)
(*                                                                         *)
(* A gamestate is not written out.  The merged file says only that a demo  *)
(* has one and after which of its commands; the configstrings are the ones *)
(* the splitter has by then, which is those the merged file starts with    *)
(* and the commands of the frames since, or, where the combiner saw that   *)
(* these are wrong for a demo's first frame, an override.                  *)
(*                                                                         *)
(* The server and the recording clients (external) make the demos: the     *)
(* server's one configstring changes, clients join late, miss messages and *)
(* get the commands with the next one, get the gamestate again; a message  *)
(* of a file may be damaged, and a file may end anywhere.  A command is    *)
(* the value it gives the configstring; messages have only the commands    *)
(* that are new.  Server time does not go back.                            *)
(***************************************************************************)
EXTENDS Integers, Sequences, FiniteSets, SequencesExt

CONSTANTS
  Demos,      \* demo files, in the order of the command line
  Cfgs,       \* values of the configstring
  NoCfg,      \* none of them
  Renewed,    \* TRUE: a client that has no snapshot yet may get the gamestate
              \* again
  Endings,    \* what files may end with: sequences of "stop", which is -1 -1,
              \* and "torn", which is anything else that is not a message
  MaxTime     \* bound: server frames

ASSUME RoundTripAssumption ==
  /\ Demos \subseteq Nat /\ IsFiniteSet(Demos) /\ NoCfg \notin Cfgs
  /\ Renewed \in BOOLEAN /\ MaxTime \in Nat

VARIABLES
  phase,      \* "record", "parse", "merge", "open", "split",
              \* "close", "done"
  \* The server and the recording clients.
  now, cfg,   \* the server's time and configstring
  late,       \* demo -> commands its client has not got yet
  file,       \* demo -> what it has: gamestates, frames, other items
  \* The combiner.
  entry,      \* demo -> how far it is read, and what was found last
  first,      \* demo -> firstFrameTime
  order,      \* the demos by firstFrameTime
  joined,     \* numDemos: the first ones of them that are in the merged file
  gamestates, \* those committed and not yet written
  merged,     \* configstring of the merged context
  told,       \* the demos whose end was written
  output,     \* the merged file: a sequence of records
  \* The splitter.
  at,         \* records read
  context,    \* its context of the merged file: configstring, gamestates
  state,      \* demo -> its splitDemoState_t and metadata
  split       \* demo -> the new file
recorded == <<now, cfg, late, file>>
combined == <<entry, first, order, joined, gamestates, merged, told, output>>
splitting == <<at, context, state, split>>
vars == <<phase, recorded, combined, splitting>>

Gamestate(c, cs) == [kind |-> "gamestate", cfg |-> c, cs |-> cs]
Frame(t, cs) == [kind |-> "frame", time |-> t, cs |-> cs]
Other(k) == [kind |-> k]

Latest(c, cs) == IF cs = <<>> THEN c ELSE Last(cs)
HasKind(s, k) == \E i \in DOMAIN s : s[i].kind = k

-----------------------------------------------------------------------------
(* The server and the recording clients.                                   *)

(* What the client of d has heard of by the next message.                  *)
Heard(d, c) == IF c = cfg THEN late[d] ELSE Append(late[d], c)

(* What d records in a frame of the server's.                              *)
Recorded(d, c, event) ==
  LET gs == Gamestate(c, IF file[d] = <<>> THEN <<>> ELSE Heard(d, c))
  IN CASE event = "nothing" -> <<>>
       [] event = "gamestate" -> <<gs>>
       [] event = "frame" -> <<Frame(now + 1, Heard(d, c))>>
       [] event = "both" -> <<gs, Frame(now + 1, <<>>)>>
       [] event = "damaged" -> <<Other("damaged")>>

Possible(d, c, event) ==
  /\ file[d] = <<>> => event \in {"nothing", "gamestate", "both"}
  /\ event \in {"gamestate", "both"} /\ ~Renewed
       => file[d] = <<>> \/ HasKind(file[d], "frame")

RecordFrame ==
  /\ phase = "record" /\ now < MaxTime
  /\ \E c \in Cfgs :
     \E event \in [Demos -> {"nothing", "gamestate", "frame", "both", "damaged"}] :
       /\ \A d \in Demos : Possible(d, c, event[d])
       /\ file' = [d \in Demos |-> file[d] \o Recorded(d, c, event[d])]
       /\ late' = [d \in Demos |->
                     IF file[d] # <<>> /\ event[d] = "nothing"
                       THEN Heard(d, c) ELSE <<>>]
       /\ cfg' = c
  /\ now' = now + 1
  /\ UNCHANGED <<phase, combined, splitting>>

CloseFiles ==
  /\ phase = "record" /\ now = MaxTime
  /\ \E e \in [Demos -> Endings] :
       file' = [d \in Demos |-> file[d] \o [i \in DOMAIN e[d] |-> Other(e[d][i])]]
  /\ phase' = "parse"
  /\ UNCHANGED <<now, cfg, late, combined, splitting>>

-----------------------------------------------------------------------------
(* The combiner reads a demo.                                              *)

(* The first item from p on that is not a gamestate, or the end.           *)
Behind(d, p) ==
  CHOOSE k \in p .. Len(file[d]) + 1 :
    /\ \A i \in p .. k - 1 : file[d][i].kind = "gamestate"
    /\ k <= Len(file[d]) => file[d][k].kind # "gamestate"

AllCommands(items) == FlattenSeq([i \in DOMAIN items |-> items[i].cs])

(* gamestateMetadata_t: which commands of its frame came by then, and how  *)
(* many of them with it.                                                   *)
Metadata(d, items) ==
  [i \in DOMAIN items |->
    [demo |-> d, upto |-> Len(AllCommands(SubSeq(items, 1, i))),
     own |-> Len(items[i].cs), override |-> NoCfg]]

(* A mistake: the buffer starts again with every gamestate. *)
TailOfMessage(d, p) == SubSeq(file[d], Behind(d, p), Len(file[d]))

(* What was read of d since its last snapshot, when there is no other.     *)
RemainingTail(d, p) == SubSeq(file[d], p, Len(file[d]))

EndOfDemo(d, p) ==
  [pos |-> Len(file[d]) + 1, eos |-> TRUE, tail |-> RemainingTail(d, p), time |-> -1,
   cs |-> <<>>, gs |-> <<>>, cfg |-> NoCfg]

(* ReadNextMessage from item p on.  Gamestates are committed with a        *)
(* snapshot only: without one they are part of the tail.                   *)
ReadNextMessage(d, p) ==
  LET k == Behind(d, p)
      items == SubSeq(file[d], p, k - 1)
  IN IF k <= Len(file[d]) /\ file[d][k].kind = "frame"
       THEN [pos |-> k + 1, eos |-> FALSE, tail |-> <<>>, time |-> file[d][k].time,
             cs |-> AllCommands(items) \o file[d][k].cs, gs |-> Metadata(d, items),
             cfg |-> IF items = <<>> THEN NoCfg ELSE Last(items).cfg]
       ELSE EndOfDemo(d, p)

NotRead == [pos |-> 1, eos |-> TRUE, tail |-> <<>>, time |-> -1,
            cs |-> <<>>, gs |-> <<>>, cfg |-> NoCfg]

Before(times, d, e) == times[d] < times[e] \/ (times[d] = times[e] /\ d < e)

ByFirstFrame(times) ==
  CHOOSE s \in [1 .. Cardinality(Demos) -> Demos] :
    \A i, j \in DOMAIN s : i < j => Before(times, s[i], s[j])

(* The demo that the merged context starts as.                             *)
Base(es) ==
  CHOOSE d \in Demos : ~es[d].eos /\ \A e \in Demos \ {d} : ~es[e].eos =>
    Before([x \in Demos |-> es[x].time], d, e)

ParseDemoContexts ==
  /\ phase = "parse"
  /\ entry' = [d \in Demos |-> ReadNextMessage(d, 1)]
  /\ first' = [d \in Demos |-> entry'[d].time]
  /\ order' = ByFirstFrame(first')
  /\ IF \E d \in Demos : ~entry'[d].eos
       THEN /\ merged' = entry'[Base(entry')].cfg
            /\ phase' = "merge"
       ELSE \* the merged file has no demo, and there is nothing to split
            /\ phase' = "done"
            /\ UNCHANGED merged
  /\ UNCHANGED <<recorded, joined, gamestates, told, output, splitting>>

-----------------------------------------------------------------------------
(* The combiner writes a frame.                                            *)

Insert(s, i, x) == SubSeq(s, 1, i) \o <<x>> \o SubSeq(s, i + 1, Len(s))

(* The commands of one more demo: a command is found behind the last one   *)
(* of the same demo, or goes there.                                        *)
AddCommands(commands, d, cs) ==
  LET Add(m, c) ==
        LET same == {i \in m.cur + 1 .. Len(m.list) : m.list[i].cfg = c}
            i == CHOOSE i \in same : \A j \in same : i <= j
        IN IF same # {}
             THEN [list |-> [m.list EXCEPT ![i].to = @ \cup {d}], cur |-> i]
             ELSE [list |-> Insert(m.list, m.cur, [cfg |-> c, to |-> {d}]),
                   cur |-> m.cur + 1]
  IN FoldLeft(Add, [list |-> commands, cur |-> 0], cs).list

MergedCommands(matches) ==
  FoldLeft(LAMBDA m, d : AddCommands(m, d, entry[d].cs), <<>>, matches)

Values(commands) == [i \in DOMAIN commands |-> commands[i].cfg]

(* writeTailDataToMsg: the tails of demos that ended, but the usual one.   *)
Tails(ends) ==
  [d \in {e \in ends : entry[e].tail # <<Other("stop")>>} |-> entry[d].tail]

(* A mistake: the merged configstrings are right for everyone. *)
NoOverrides(matches, time) == [d \in {} |-> NoCfg]

(* The demos whose first frame this is, and whose gamestate has other      *)
(* configstrings than the merged context.                                  *)
Overrides(matches, time) ==
  [d \in {e \in ToSet(matches) : first[e] = time /\ entry[e].cfg # merged}
    |-> entry[d].cfg]

(* One pass of the main loop: the frame, and the next snapshot of every    *)
(* demo that has it.                                                       *)
MergeFrame ==
  LET live == {d \in Demos : ~entry[d].eos}
      time == entry[CHOOSE d \in live :
                      \A e \in live : entry[d].time <= entry[e].time].time
      n == Cardinality({d \in Demos : first[d] <= time})
      new == SubSeq(order, joined + 1, n)
      matches == SelectSeq(SubSeq(order, 1, n),
                           LAMBDA d : d \in live /\ entry[d].time = time)
      ends == {d \in ToSet(SubSeq(order, 1, n)) \ told : entry[d].eos}
      commands == MergedCommands(matches)
  IN /\ phase = "merge" /\ live # {}
     /\ output' = Append(output,
          [header |-> IF output = <<>> THEN merged ELSE NoCfg,
           metadata |-> [d \in ToSet(new) |-> first[d]],
           gamestates |-> gamestates \o
                          FlattenSeq([i \in DOMAIN new |-> entry[new[i]].gs]),
           tails |-> Tails(ends), overrides |-> Overrides(matches, time),
           ended |-> ends, time |-> time, matched |-> ToSet(matches),
           commands |-> commands])
     /\ joined' = n
     /\ told' = told \cup ends
     /\ merged' = Latest(merged, Values(commands))
     /\ entry' = [d \in Demos |-> IF d \in ToSet(matches)
                                    THEN ReadNextMessage(d, entry[d].pos)
                                    ELSE entry[d]]
     /\ gamestates' = FlattenSeq([i \in DOMAIN matches |-> entry'[matches[i]].gs])
     /\ UNCHANGED <<phase, recorded, first, order, splitting>>

(* writeTailData, at the end of the merged file.                           *)
WriteTailData ==
  /\ phase = "merge" /\ \A d \in Demos : entry[d].eos
  /\ LET tails == Tails(ToSet(SubSeq(order, 1, joined)) \ told)
     IN output' = IF DOMAIN tails = {} THEN output
                  ELSE Append(output, [tails |-> tails])
  /\ phase' = "open"
  /\ UNCHANGED <<recorded, entry, first, order, joined, gamestates, merged, told,
                 splitting>>

-----------------------------------------------------------------------------
(* The splitter.                                                           *)

NotKnown == [known |-> FALSE, first |-> -1, eos |-> FALSE, tailSent |-> FALSE,
             cfg |-> NoCfg, frames |-> 0, handled |-> 0, done |-> FALSE]

IsFrame(r) == "matched" \in DOMAIN r

(* CL_ParseMergedGamestate, CL_ParseDemoMetadata and CL_ParseDemoEnded.    *)
ReadStates(states, r) ==
  [d \in Demos |->
    LET new == IsFrame(r) /\ d \in DOMAIN r.metadata
        s == IF new THEN [NotKnown EXCEPT !.known = TRUE, !.first = r.metadata[d]]
             ELSE states[d]
    IN [s EXCEPT !.tailSent = @ \/ d \in DOMAIN r.tails,
                 !.eos = @ \/ (IsFrame(r) /\ d \in r.ended)]]

(* CL_ParseDemoGamestate and CL_ParseDemoGamestateOverrides: an override   *)
(* is for the last gamestate of its demo.                                  *)
ReadGamestates(c, r) ==
  LET all == c.gamestates \o r.gamestates
      lastOf(d) == CHOOSE i \in DOMAIN all :
                     /\ all[i].demo = d
                     /\ \A j \in i + 1 .. Len(all) : all[j].demo # d
      cfgs == [c EXCEPT !.cfg = IF r.header = NoCfg THEN @ ELSE r.header]
  IN [cfgs EXCEPT !.gamestates =
        [i \in DOMAIN all |->
          LET d == all[i].demo
          IN IF d \in DOMAIN r.overrides /\ i = lastOf(d)
               THEN [all[i] EXCEPT !.override = r.overrides[d]]
               ELSE all[i]]]

(* What a demo still open gets when record r was read, and which demos are *)
(* finished by then; over says that r is the last.                         *)
TailOf(d, r) ==
  IF state[d].done \/ d \notin DOMAIN r.tails THEN <<>> ELSE r.tails[d]
Finished(s, over) == s.done \/ (s.known /\ (over \/ s.eos \/ s.first = -1))

Close(states, over) ==
  [d \in Demos |-> [states[d] EXCEPT !.done = Finished(states[d], over)]]

(* RunSplit up to its loop.                                                *)
Open ==
  /\ phase = "open"
  /\ at' = 1
  /\ state' = Close(ReadStates(state, output[1]), FALSE)
  /\ context' = ReadGamestates(context, output[1])
  /\ split' = [d \in Demos |-> TailOf(d, output[1])]
  /\ phase' = "split"
  /\ UNCHANGED <<recorded, combined>>

(* The gamestates of d that it has not handled.                            *)
Waiting(d) ==
  SelectSeq(SubSeq(context.gamestates, state[d].handled + 1, Len(context.gamestates)),
            LAMBDA g : g.demo = d)

(* The gamestates of d, written with the configstrings of the demo; mine   *)
(* are its commands of this frame.  Those that came by then change the     *)
(* configstrings, but not before the first frame: there the configstrings  *)
(* are the override, where there is one.                                   *)
WriteHeaders(d, mine) ==
  LET Cfg(w, g) == CASE state[d].frames > 0 ->
                          Latest(w.cfg, SubSeq(mine, w.used + 1, g.upto))
                     [] state[d].frames = 0 /\ g.override # NoCfg -> g.override
                     [] OTHER -> w.cfg
      Write(w, g) == [cfg |-> Cfg(w, g), used |-> g.upto,
                      items |-> Append(w.items, Gamestate(Cfg(w, g),
                                  SubSeq(mine, g.upto - g.own + 1, g.upto)))]
  IN FoldLeft(Write, [cfg |-> IF state[d].frames = 0 THEN context.cfg ELSE state[d].cfg,
                      used |-> 0, items |-> <<>>], Waiting(d))

(* One pass of the main loop: frame r goes to the demos that have it, the  *)
(* commands of all of them to the merged configstrings, the next record is *)
(* read.                                                                   *)
SplitFrame ==
  LET r == output[at]
      given == {d \in r.matched : /\ state[d].known /\ ~state[d].done
                                  /\ r.time >= state[d].first}
      mine == [d \in Demos |->
                 Values(SelectSeq(r.commands, LAMBDA m : d \in m.to))]
      headers == [d \in given |-> WriteHeaders(d, mine[d])]
      rest(d) == SubSeq(mine[d], headers[d].used + 1, Len(mine[d]))
      written == [d \in Demos |-> IF d \in given
                    THEN headers[d].items \o <<Frame(r.time, rest(d))>> ELSE <<>>]
      states == [d \in Demos |-> IF d \in given
                   THEN [state[d] EXCEPT !.cfg = Latest(headers[d].cfg, rest(d)),
                                         !.frames = @ + 1,
                                         !.handled = Len(context.gamestates)]
                   ELSE state[d]]
      updated == [context EXCEPT !.cfg = Latest(@, Values(r.commands))]
      over == at = Len(output) \/ ~IsFrame(output[at + 1])
      next == IF at < Len(output) THEN output[at + 1] ELSE [tails |-> [d \in {} |-> <<>>]]
  IN /\ phase = "split"
     /\ split' = [d \in Demos |-> split[d] \o written[d] \o TailOf(d, next)]
     /\ state' = Close(ReadStates(states, next), over)
     /\ context' = IF over THEN updated ELSE ReadGamestates(updated, next)
     /\ at' = at + 1
     /\ phase' = IF over THEN "close" ELSE phase
     /\ UNCHANGED <<recorded, combined>>

(* A file that had no tail in the merged file ends with -1 -1.             *)
CloseSplit ==
  /\ phase = "close"
  /\ split' = [d \in Demos |-> IF state[d].known /\ ~state[d].tailSent
                                 THEN Append(split[d], Other("stop")) ELSE split[d]]
  /\ phase' = "done"
  /\ UNCHANGED <<recorded, combined, at, context, state>>

-----------------------------------------------------------------------------
Init ==
  /\ phase = "record" /\ now = 0 /\ cfg \in Cfgs
  /\ late = [d \in Demos |-> <<>>] /\ file = [d \in Demos |-> <<>>]
  /\ entry = [d \in Demos |-> NotRead] /\ first = [d \in Demos |-> -1]
  /\ order = <<>> /\ joined = 0 /\ gamestates = <<>> /\ merged = NoCfg
  /\ told = {} /\ output = <<>>
  /\ at = 0 /\ context = [cfg |-> NoCfg, gamestates |-> <<>>]
  /\ state = [d \in Demos |-> NotKnown] /\ split = [d \in Demos |-> <<>>]

Next ==
  \/ RecordFrame \/ CloseFiles
  \/ ParseDemoContexts \/ MergeFrame \/ WriteTailData
  \/ Open \/ SplitFrame \/ CloseSplit

Spec == Init /\ [][Next]_vars

-----------------------------------------------------------------------------
(* While it is written, a new file is a beginning of the file that was     *)
(* merged: nothing is left out, comes twice, is in another place, or has   *)
(* other configstrings or commands (what RunSplit writes between the       *)
(* gamestates, frames and tails that it is told of).                       *)
SplitIsPrefix ==
  phase \in {"open", "split", "close"} => \A d \in Demos : IsPrefix(split[d], file[d])

(* When the splitter is done, every demo is the file it was, with its last *)
(* bytes, if any demo had a frame.                                         *)
RoundTripExact ==
  phase = "done" /\ output # <<>> => split = file

(* The comment at demo_combiner.cpp:566: a demo's first frame makes sure   *)
(* that the configstrings match the demo's gamestate.  So every gamestate  *)
(* in front of the first frame has its own configstrings again.            *)
FirstGamestatesMatch ==
  phase = "done" /\ output # <<>> => \A d \in Demos : \A i \in DOMAIN split[d] :
    /\ i <= Len(file[d]) /\ split[d][i].kind = "gamestate"
    /\ ~HasKind(SubSeq(split[d], 1, i), "frame")
    => split[d][i].cfg = file[d][i].cfg

=============================================================================
