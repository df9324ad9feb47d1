# Verification of DemoTools

DemoTools reads, cuts, joins, combines and splits recorded games ("demos",
`.dm_26` files) of a Quake 3 family engine. A demo is the sequence of server
messages one client received. A message holds an acknowledgement, reliable
server commands and usually one snapshot of the world, which lists what changed
since an earlier snapshot. All tools share one message reader
(`src/JKDemoMetadata/cl_parse.cpp`). The combiner merges the demos that several
clients recorded of one game into one file, and the splitter gets the original
demos back out of it. The tools are sequential programs. What makes them hard is
that their input is the trace of a lossy protocol and that nearly everything is
kept in rings that are reused and coded as differences to earlier state: one
wrong base, slot or mask is not noticed where it happens and spoils what follows.

Paths below are relative to the repository's `src/`.

## Inventory

| Component | Source | State | Operations |
|---|---|---|---|
| Entity store | `JKDemoMetadata/cl_parse.cpp` `CL_DeltaEntity`, `demo_common.h` | ring of pointers, versions and forced fields; circular pool of states | share, copy forward, delta, remove |
| Snapshot reader | `JKDemoMetadata/cl_parse.cpp` | `snapshots[PACKET_BACKUP]`, `snap`, `newSnapshots` | parse a snapshot against a base, validate, store or dump |
| Message reader | same file | command ring, gamestate, baselines, sequence and acknowledge numbers | commands, gamestate, download, end of message |
| Demo file access | `JKDemoMetadata/deps.cpp` | file handles, bytes read, live mode | open, read (waits for a growing file), skip |
| Configstrings | `JKDemoMetadata/deps.cpp`, `cmd.cpp` | string table with offsets | replace a string, tokenize |
| Metadata extractor | `JKDemoMetadata/main.cpp`, `utils.cpp` | what each client does over time | update and finish client, corpse, map |
| Trimmer | `DemoTrimmer/` | reader context, `framesSaved` | cut by time, write header and deltas |
| Merger | `DemoMerger/demo_merger.cpp` | as the trimmer, and the list of cuts | join demos of one client |
| Combiner: frames | `DemoCombiner/demo_combiner.cpp` | one reader context per demo, end flags, gamestates, tails | pick frame time, match demos, advance, end |
| Combiner: commands | same, and `combined_demo_utils.cpp` | merged command ring with client masks, sync indices | search, share, insert, write |
| Combiner: entities | same | union of entities, owner masks of two frames | collect, carry over, write owner changes |
| Merged frame codec | `combined_demo_utils.cpp`, `DemoSplitter/demo_splitter.cpp` | sequence, acknowledge and player state slots and masks | write and read a merged frame |
| Command dictionary | same | the last 1024 commands | index, delta by tokens, append |
| Bit and field codec | `DemoCombiner/enhanced_msg.cpp` | bit position, Huffman tables | read and write bits, fields, entities, player states |
| Splitter | `DemoSplitter/demo_splitter.cpp` | merged context and one context per client | parse a merged frame, hand out commands and entities, write |
| Changer | `DemoChanger/demo_changer.cpp` | as the combiner, for one output | merge demos into one client's view |
| Sanitizer | `DemoSanitizer/` | an older reader and a bit position | rewrite messages |
| Bot | `DemoBot/` | connection handshake | connect, resend, receive |
| Engine code | `msg.cpp` | vendored | - |

Interactions. The reader's context (`demoContext_t`) is shared by everything
through the global `ctx`, which the tools repoint at the demo they work on. The
combiner's merged snapshot points straight into the entity pools of the demos'
readers, and the splitter's per-client snapshots into the pool of the merged
reader. The writers (`SV_EmitPacketEntities`) trust entity versions. The
combiner and the splitter meet only in the merged file, but keep a good deal of
state in lockstep: sequence numbers, acknowledge slots, player state slots, owner
masks, the command dictionary, the ring of snapshots.

What is hard, component by component, is in `PROJECT.json` under `hazards`, each
at its line. The properties that make each component right:

* *Entity store*: an entity never changes while it is listed; equal versions mean equal states.
* *Snapshot reader*: a valid snapshot is the world the server sent, whatever was lost; slots do not pass for other messages; nothing is dropped without need.
* *Command merging and splitting*: every client gets back exactly its commands, in order, eventually all; common commands are stored once.
* *Frames*: every frame of every demo appears in one merged frame and comes back out with its number, base, acknowledgements and player state; a demo file comes out as it went in, its gamestates and last bytes too.
* *Owners, dictionary, field and bit codec*: reading what was written gives back what was meant, from the same state on both sides.
* *Demo file access*: whole messages, each once, in order, while the file grows.
* *Trimmer, merger, changer*: the output's reader accepts the output, sees the worlds of the input and misses no command.

## Modules

| Module | Role |
|---|---|
| `EntityRing` | abstract: a ring holding the last `RingSize` entities by value |
| `EntityPool` | the entity store of `CL_DeltaEntity`; implements `EntityRing` |
| `EntityPoolProofs` | its theorems |
| `SnapshotReader` | `CL_ParseSnapshot` and `CL_ParsePacketEntities` over an instance of `EntityPool`, with a server and a lossy network |
| `SnapshotReaderProofs` | its theorems |
| `CommandRelay` | abstract: every client is handed its own commands in order, eventually all |
| `CommandMerge` | the command loops of combiner and splitter; implements `CommandRelay` |
| `CommandProofs` | the theorems about `CommandMerge` and `CommandDictionary` |
| `MergedFrame` | the data of a merged frame in combiner and splitter: entities and owners, player states, counters |
| `RoundTrip` | demo files merged and split: frames, gamestates, joins, ends, tails |
| `CommandDictionary` | the texts of commands in the merged file |
| `FieldCodec` | fields of entities and player states, with the marks of fields sent without a change |
| `FrameProofs` | the theorems about `MergedFrame` and `FieldCodec` |
| `BitBuffer` | bits, Huffman codes and strings in a message |
| `LiveReader` | a demo file read while it grows |
| `MessageProofs` | the theorems about `LiveReader` and `BitBuffer` |
| `WorldDelta` | worlds, and what is written and read of the difference of two |
| `SnapshotSlots` | `CL_ParseSnapshot` as a function on worlds, for modules with several readers |
| `SlotProofs` | what the proofs about trimmer and merger share: facts of these two modules |
| `Trimmer` | the trimmer with a reader of its output |
| `TrimmerProofs` | its theorems |
| `Merger` | the merger with a reader of its output |
| `MergerProofs` | its theorems |
| `MC...` | a small instance of each |

`SnapshotReader` uses `EntityPool`; `Trimmer` and `Merger` use the reader of
`SnapshotSlots`, which uses `WorldDelta`. The combiner and the splitter are looked at
through four modules, one for each kind of data of a merged file, since these do not
depend on each other: `CommandMerge` (which commands), `CommandDictionary` (their
texts), `MergedFrame` (snapshots) and `RoundTrip` (files). `FieldCodec` and
`BitBuffer` are what messages are made of below that.

### EntityPool

State: `parseEntitiesNum`, the ring (`parseEntityPtr`, `parseEntityVersion`,
`parseEntitiesFloatForced`), the pool (`entityPool`, `entityPoolSlotIdx`,
`entityPoolSlotVer`, `entityPoolIdx`) and `g_nextEntityVersion`, with the names
of the code; a pointer is a pool slot. `CL_DeltaEntity` has four outcomes, one
action each: `Share` (unchanged, the pointer is copied), `Refresh` (unchanged,
but the state is `RefreshAge` allocations old and is copied to a fresh slot),
`Changed` (a delta was read) and `Removed` (a delta remove: the next pool slot has
been written, and the version of the next ring slot is cleared, although that
slot still belongs to the oldest live entity).

`RefreshAge` is `ENTITY_POOL_SIZE - 32768` in the code. The model assumes only
`RefreshAge + RingSize <= PoolSize`, which 32768 + 2048 <= 65536 satisfies, and
`MCEntityPool` takes it with equality: the smallest pool for which the theorems
hold. Counters are unbounded in the model; the code's 32 bit counters are used
modulo powers of two and in differences only.

Properties: `PoolSlotHeld` (part of `IInv`) bounds the age of every live entity's
slot; `VersionsTraced` (the other part) says a version stands for one state;
`VersionSound` is what `SV_EmitPacketEntities` relies on; `LiveStable` says no
step changes a listed entity; `RingSpec` is the refinement of `EntityRing` under
the mapping `num <- parseEntitiesNum`, `entities <- [t \in Live |-> EntityAt(t)]`.

### SnapshotReader

One action begins a snapshot (`ParseFull`, `ParseDelta`: the header, choice and
validation of the base, `FirstUsable` being the forward search of the code), one
action parses an entity (`TakeUnchanged`, `TakeDelta`, `TakeBaseline`, each with
the prefetch of the next old entity, `Fetch`), one ends it (`Dump`, `Store` with the
clearing of skipped slots). The server is external: it sends every message,
as a delta to a base it chooses (`FromAcked`: only messages the client
acknowledged, which the client does once it stored their snapshot), and `Lose`
drops any of them. A dumped snapshot (`Dump`) leaves ring, pool and versions advanced,
whatever the comment on `CL_ParseSnapshot` says of "no changes". A world is a set of numbered entities with one value each;
the entity deltas of a message are a set too, read smallest number first (`First`), the order in which they are written.

The player state, area mask and ping are data and left out. Gamestates do not
reset the snapshot ring in the code either; `RoundTrip` has them.

### CommandMerge

The combiner's loop takes one command a step: `Share` sets the client's bit at
the first equal command between the demo's last one and the end, `Insert` puts
the command behind the demo's last one and moves up the rest of ring and masks
(`ShiftUp`, slot by slot from the end, as the code does it, so that a ring that
is too small wraps as it does in the code). `StartFrame` chooses the demos of a
frame, `NextMatch` goes on to the next of them, `WriteFrame` writes the commands
of the frame in order. `SplitFrame` is the splitter's `ReadNextMessage` and the loop of
`RunSplit` for one frame. The file between them is a queue, and both sides
run freely. `TextsFor` is the splitter's loop over a client's bit, `FrameCommands` what is written of a
frame, `Stored` the splitter's ring with it. The server issues a command to any of `Recipients`; a demo
that is not in a frame gets its commands with its next frame.

A command that another demo brought in an earlier frame is inserted once more: the
search never starts before the frame, although a comment says that it does. That
frame is written already, and `RelaySpec` holds.

Commands are non-empty texts (the combiner skips empty ones, which would
renumber what follows them in the split demo). The diagnostic for commands that
came with the gamestate changes no state and is left out.

### Trimmer

A message is read by `Read` (or `Lose`, when the demo misses it), and then one
action does what the rest of the loop body of `main` does: `Skip` before the first
snapshot, `Wait` before the cut, `Begin` (gamestate and a snapshot with no base),
`Rewrite` (the snapshot coded anew), `Copy` (the message as it came) and `Finish`.
All but `Skip` run through the new commands (`Turn`). `LastFrame` is the choice of the
base in `writeDeltaSnapshot`. `Put` writes a message and lets the output's reader,
`out`, read it, which is a function of the file and needs no step of its own. Both
readers are those of `SnapshotSlots`: a snapshot holds its world by value, and the
age limit of the entity ring is left out.

The server deltas from acknowledged messages and repeats commands from any point
the client may not have passed. Time is counted in messages: `startTime` and
`endTime` are arbitrary, and a clock that goes back on a map restart is not modelled.
A demo starts at the command number that its gamestate names (`GamestateCommand`), below which the slots
of the ring are empty until newer commands take them (`SlotUsed`), and no more commands are on their way than
the ring has slots (the bound in `Send` and `Read`, counted from `LastRun`). The command ring of the output is unbounded.

`firstServerCommand` is `FirstServerCommand`, the last command run through and not the first, as in the code. What
that costs is stated exactly by `LostOnlyInBulk`; without its last case the property fails (see the observations).

`outCommands` are the commands that the output's reader was given or that the
gamestate written by `Begin` accounts for: those the trimmer had run through.

`OutputExact` has one exception. `writeDeltaSnapshot` writes the last snapshot again for a message
without one, and keeps its distance to the base: if that is more than one message, the
distance leads to another message of the output. Such a snapshot says nothing wrong in what it
has, but it is read against another world.

### MergedFrame

One action, `Frame`, is a frame of the merged file from end to end: each demo that
has the frame reads its snapshot (`ReadDemo`), the combiner collects what they saw
(`Collect`: the union of entities, owners carried over for demos that do not have
the frame, the two slots of player states and acknowledges), writes it as a
difference to its last context (`WriteMerged`), the splitter reads that against its
own context (`ReadMerged`) and makes each client's snapshot (`Give`). Both contexts are
`combinedDemoContext_t`. That there is one action is no loss: the tools are sequential
and share nothing but the file.

The point is that the two sides change the same masks in different places of the
code. So data is sent as a difference that is worth nothing without the right base: a number
modulo `Mod`, a set as the members that changed. `Named` is whether the first command
of a message has to be named since the splitter could not work it out from the base.
Frames that do not fit what a client could have been sent (`Readable`) are excluded.

Clients are below 30. The masks are signed 32 bit integers and the loops over them
compare `1 << i` with the mask; for clients 30 and 31 what they do is not defined.

### RoundTrip

The recording side (`RecordFrame`, `CloseFiles`) makes demo files: a file is a sequence
of gamestates, frames and other items, with late joins, messages missed, damaged
messages and any ending. `ParseDemoContexts` reads each demo up to its first snapshot,
`MergeFrame` is one pass of the combiner's main loop and `WriteTailData` the end of the merged file.
`Open`, `SplitFrame` and `CloseSplit` are the same of the splitter. `ReadNextMessage` says when
a gamestate is committed to the context and when it is part of the tail.

A gamestate's configstrings are not written. The merged file has the commands and, for
a demo's first frame, an override where the combiner sees that the merged context is wrong
(`Overrides`). One configstring is enough to tell right from wrong; a command sets it.

### CommandDictionary

`WriteBuffered`, `WriteRaw` and `WriteDelta` are the three ways of
`writeMergedDeltaSnapshot` to write a text; `Read` is `CL_ParseMergedCommandString`. `Delta` is the
token code, with runs, jumps (`BestJump`, `JumpPays`), shared prefixes (`Common`) and new
tokens, `Rebuild` its inverse. Each is a loop that carries the place of the next token in the reference:
`Item` and `NextRef` are one round of the writer's, `Token` and `NextRef` of the reader's. The names
`DictionaryInit`, `DictionaryNext` and `DictionarySpec` are long so that `CommandProofs` can extend both command modules. The writer chooses the reference that takes the fewest bits; the model
lets it choose any, or none.

### FieldCodec

The server (`msg.cpp`) codes a state against any earlier frame; the combiner reads it
(`enhanced_msg.cpp`) and writes it to the merged file, the splitter reads it there and writes the message
again. Fields are unsigned, signed, or floats, which are coded as zero, as small
integers or in full (`Code`, `Got`). `Kept` is the trick by which a reader keeps a value that
is not zero though none of its bits are. `Forced` marks a field that was sent
though it did not change as far as the tools can see; the marks go through the merged
file (`SendEntityMarks`, `SendPlayerMarks`). Players have three tables of fields, and the
server's table for pilots is shorter than the tools'. `IsPilot` reads two fields of the state that is
coded, which is why it matters that a reader has these two as the server has them (`PilotAssumption`).

`history` has every frame so far with the server's state, the combiner's and the splitter's, since any of them may
be the base of the next one; `against` is the base of the last message. The assumptions are
those of the tables in `msg.cpp`: no name twice in a table, the players' fields all among the pilots', the part
of the pilots' that the server sends all among the players'. Sizes are powers of two; all that
is used of that is that they are greater than one. The names `CodecInit`, `CodecNext` and `CodecSpec` and the
like are long so that `FrameProofs` can extend this module and `MergedFrame`.

`ReencodeExact` has one exception, `Unseen`. A reader puts in a value that is not zero
for an integer of an entity of which only zero bits were sent, but compares before it does so
(`enhanced_msg.cpp:655`). If such a field goes to another value of that kind, say `powerups` from one
power-up above the lowest sixteen bits to another, it reads zero bits once more and neither sees nor marks a
change.

### BitBuffer

`WriteValue` and `WriteString` are `MSG_WriteBits` and what is built on it, in the engine's and in the
fast form; `Deliver` ends the message, with or without an extra byte, and puts it into the reader's
buffer, `Read` is `MSG_ReadBits` or a string. Bits are real here, in bytes of `Byte` bits.

Two assumptions describe the code's numbers. `CodeAssumption`: no code is the beginning of another, and none is
longer than `LongestCode` (11, `HUFF_DEC_BITS`). `BufferAssumption`: a value that is written with the reserve free (4 bytes) goes at most
two bytes over it, which is what `Capacity` has room for; 32 bits are at most 44 bits of code, and 4 + 2 bytes have 48. Signed values
have whole bytes: the tools write and read them with -8 and -16 bits only, and the reader looks for the sign after it
has counted the raw bits out.

### LiveReader

`Loop`, `Reopen`, `Waited` and `Fread` are the steps of `FS_Read`, between which the game may append to
the file (`Record`); `HeaderRead`, `Truncated` and `MessageRead` are `CL_ReadDemoMessage` under the loop of
the metadata extractor's `main`. Everything `main` does with a snapshot comes after an unconditional
`continue`.

### Merger

A cut begins with `ReadEarly` and `ParseDemoContext`, which read up to its start; the first one
writes a gamestate (`WriteHeader`). Then `Begin` writes its first message and `Write` the others, with
`ReadNextMessage` in between, until `EndOfCut` (`NextCut`). `Lose` and `NoMessage` are a lost message and the end of
the file. `BaseDistance` is the trimmer's choice of a base, `Introduction` the commands that are put
in front of a cut, `OffsetFor` the shift of its commands. Cuts of one demo share its reader.
`out` reads each message as it is written.

`RunCommands` is the loop over new commands. `Waiting` are the commands it finds, from the last executed one on; at the start these
are the empty slots up to the gamestate's number (`GamestateCommand`). If they are more than the ring has, all but the last ones are
passed over (`InReach`), and empty ones in front of these are not written (`ToRun`). `HasRoom` is a bound: the commands that are run through and
the ones that a cut may put in front of them fit into the ring.

`due` and `origin` are history variables: the number that comes after the commands written so
far, and whether the premises of `OutputExact` hold.

## Runs

All bounds are constants of the `.cfg`, named in the modules.

| Run | Instance | Shows |
|---|---|---|
| `entity_pool` | ring 3, pool 5, age 2, two values, 9 entities | type, inductive invariant, `VersionSound`, `LiveStable`, `RingSpec`. Nine entities take the ring round three times and the pool nearly twice, and a state can be copied forward repeatedly |
| `snapshot_acked` | 3 snapshots, ring 3, margin 1, pool 6, 6 messages, four worlds of two entities | a server that deltas from acknowledged messages: `ValidExact`, `DroppedForAge`, `SlotsFresh`, `PoolUsed`. Six messages wrap the slots and allow gaps longer than them; the ring wraps several times, and a base can lie exactly at, before and past the margin |
| `command_shared` | 2 demos, 2 texts that repeat, any recipients, ring 4, 4 commands, 2 frames | `MergedInOrder`, `BroadcastOnce`, and `RelaySpec` with its liveness part. Up to 8 commands are merged, so the ring wraps with stale texts in it |
| `trimmer` | 4 snapshots, ring of 4 commands, gamestate at command 6, bases up to 3 messages back, at most 3 new commands in a message, 4 messages, two worlds | `OutputExact`, `CopiedBaseKnown`, `LostOnlyInBulk`. Four messages leave room for a cut, a loss, a message without a snapshot, and copied messages after them. Three is the least number of new commands of which one is lost; the gamestate's number is beyond the ring, whose slots are empty until newer commands take them |
| `field_codec` | an entity of 3 fields, a player, a pilot and a vehicle of up to 5, 3 frames, any earlier frame as base | `InStep`, `SplitExact`, `ReencodeExact`. Fields of each kind, with values past their width, so that a change can be invisible to the tools, and two values can be zero in all of their bits |
| `bit_buffer` | bytes of 2 bits, codes of 1 to 3 bits, 9 bytes, 3 writes by either writer | `ReadBack`, `NoFalseEnd`, `SlackKept`. Codes end inside, at the end of and after a byte; three writes can fill the buffer |
| `merged_frame` | 2 clients, 2 entities, numbers modulo 2, 3 frames | `EntitiesExact`, `PlayersExact`, `CountersExact`, `ContextsAgree`. Three frames let a client have, miss and have one again, which turns its slots apart from the other's. A behaviour varies entities, players or counters |
| `round_trip` | 2 demos, 2 configstrings, 3 server frames, four endings | `SplitIsPrefix`, `RoundTripExact`. Demos join and end apart, miss messages, get a gamestate between frames |
| `live_reader` | messages of 1, 3 and 1 cells, any growth, live or not, with an end or none | `MessagesExact`, `EndedRightly`, and `ReadToEnd`. The file can end in every part of a header and of a message |
| `command_dictionary` | 5 texts, dictionary of 4, references up to 2 back, 6 commands | `ReadExact`, `DictionariesAgree`, `KeptOnce`. Six commands take the dictionary round; the texts move, repeat, drop and add tokens, and share more letters than the prefix allows |
| `merger` | 2 cuts of 2 demos with 2 and 4 messages, numbered apart, gamestates at command 0 and 9, ring of 6 commands, 4 snapshots, bases up to 2 back, two worlds, two team infos, map changes | `OutputExact`, `TeamInfoExact`, `CommandsFollow`. The second demo's ten empty commands are more than the ring has and are passed over; the first one's are not. With two team infos the one that the cut before left can be another |
| `merger_configstrings` | as `merger`, with a configstring of two values | violated: see findings |

Each passing run takes from seconds to about two minutes. Deadlock is not checked: a behaviour ends when its
bound of entities, messages, commands or frames is reached, as a tool does at the end of
its input.

A type invariant is a property of its own where it says something of the bookkeeping (`EntityPool`,
`SnapshotReader`, `CommandMerge`, `Trimmer`, `LiveReader`). Where the properties compare whole contexts, texts,
files or messages they fix their shape as well, and the types of `Merger` are part of the proved `NumberInv`.

The runs of trimmer and merger use a `VIEW`. What it leaves out of a state has no influence on what
comes after, nor on the properties. In the merger: of a demo that no cut needs any more everything but the
configstring and team info with which the next demo's are compared; commands that were run through and written; the exact count of frames of
a cut (only whether it is zero is ever asked), where the commands of cuts before the last one
began, and after the end everything. In the trimmer: worlds that the server cannot code from any more, a message that
is not going to be copied, the numbers of commands in one that the output's reader has already, and the start of a cut that was begun.

Fairness. In `CommandMerge` both tools are loops that take their next step whenever
there is input, so the combiner's steps within a frame and the splitter's step
are weakly fair. Issuing a command and the arrival of a frame are not. In `LiveReader` the reader's steps are
weakly fair, as one program that runs on; the recording game is not: it may stop for good,
so `ReadToEnd` is about a file that has its end.

### Findings

* *A configstring is not sent at a cut* (`merger_configstrings`). When a new cut begins, configstrings are
compared with those of the reader of the demo before. That reader has run the commands of one message more than was
written, the one that ended the cut. What changed in that message, and in the new demo, is taken for known.

Other disagreements that show with the modules, for which no run is kept. Each is a premise of
a property or a value of a constant; change it and TLC shows the trace.

* *A substituted base is accepted* (`JKDemoMetadata/cl_parse.cpp:390`; `ValidExact` with `FromAcked` FALSE in `snapshot_acked`). A comment at line 377 says a frame whose base is gone is read but not used. The forward search for "a more recent frame" changes `newSnap.deltaNum` as well, so the later check against it succeeds.
* *The margin is a guess* (`cl_parse.cpp:404`; worlds with two new entities before two old ones). A message may add more than 128 entities before one of the base is read; the ring slot is gone then, and the parse still counts as valid.
* *A frame's commands can overrun the command ring* (`DemoCombiner/demo_combiner.cpp:524`; `command_shared` with a ring of 3: `MergedInOrder` fails). The merged ring has the size of one client's, and nothing bounds what 32 demos bring in a frame.
* *Gamestates of a client that gets them again before its first snapshot* (`demo_combiner.cpp:574`; `FirstGamestatesMatch` with `Renewed` TRUE in `round_trip`). An override is made for the last of the gamestates only, though the comment at line 566 speaks of the demo's first frame.
* *A field of an entity is not sent again* (`DemoCombiner/enhanced_msg.cpp:655`; `ReencodeExact` without `Unseen`, with a field that takes 4 and 8 in two bits). The server sends a change between two values whose bits are all zero, and the split demo leaves it out. Its viewer has the same state either way.
* *The trimmed demo refers to messages it does not hold* (`DemoTrimmer/demo_utils.cpp:329`). Only the first snapshot after the cut is coded from nothing. The output's reader then takes another base. And a snapshot that is written again with a base two or more messages back finds another message there; that is the exception in `OutputExact`.
* *The trimmed demo misses commands* (`DemoTrimmer/demo_trimmer.cpp:100`; `LostOnlyInBulk` without its last case). Of the new commands in a message the loop keeps the last one it saw as the first to write, so of three the first is lost while messages are coded anew, a configstring change among them, although `demo_utils.cpp:311` is to "copy over any commands".
* *A cut that begins with the demo's first snapshot brings empty commands* (`demo_trimmer.cpp:93`; `FirstServerCommand` with no slot used). If the demo has no command of its own yet, the first to write is number 0, so the message has one command for each number up to the gamestate's.
* *The merger keeps distances of the input* (`DemoMerger/demo_merger.cpp:223`) while it numbers its messages consecutively: after a lost message, for a base that lies before the cut, and for a snapshot written again with a base two or more messages back, the output's reader finds another snapshot there. These are the premises of `OutputExact` (`origin`, `Misplaced`).
* *An empty cut* spoils the shift of commands (`demo_merger.cpp:253`): the premise of `CommandsFollow`. A demo that ends early drops all later cuts (line 264).
* *More of the merger, outside the model*: a configstring that the new demo does not have is not cleared (line 243), when the commands that wait and those put in front are more than the ring has, the latter overwrite the newest ones (line 249; excluded by `HasRoom`), baselines of later demos are never sent.
* *The metadata extractor stops before it starts* (`JKDemoMetadata/main.cpp:394`): an unconditional `continue` in front of all that is done with a snapshot. That is where the loop would learn of the intermission at which, by the usage text (line 276), it stops following a file.

## Theorems

`EntityPoolProofs` proves, for every ring, pool and age with
`RefreshAge + RingSize <= PoolSize`, any set of states and any bound:

* `TypeCorrect`, `PoolInvariant`: `Spec => []TypeOK`, `Spec => []IInv`.
* `VersionsSound`: `Spec => []VersionSound`.
* `LiveEntitiesStable`: `Spec => LiveStable`.
* `PoolImplementsRing`: `Spec => RingSpec`.

The argument. An allocation `i` is stored at slot `i % PoolSize` and overwritten
by allocation `i + PoolSize`. An entity is listed with a slot younger than
`RefreshAge`, and stays listed for `RingSize` further entities, each of which
allocates at most once. So the age of a slot stays below
`RefreshAge + RingSize - 1`, and neither the next allocation nor the scribble of a
removed entity can reach it. That is not inductive by itself: the bound has to
be stated for every live entity in terms of how many entities were listed after
it (`PoolSlotHeld`), and that the slot still holds its own allocation
(`p = PoolSlot(entityPoolSlotIdx[p])`) has to go with it. Versions are added by
`VersionsTraced`: a version is bound to one state, later entities that share it
force no field, and no version exceeds the last one handed out, so a new one is
fresh. The proof of the invariant has one lemma per action; stability and the
refinement follow from the invariant and the fact that the slots written are not
those of live entities.

`SnapshotReaderProofs` proves every property of `snapshot_acked`, for any sizes of the slots, the ring, the pool and the margin, any
worlds and any losses. Of the entity store it uses only what the lemmas of `EntityPoolProofs` say: an operation lists one
entity or none, and whatever stays in the ring stays the same (`Grows`).

* `TypeCorrect`: `Spec => []TypeOK`, whatever the server deltas from. The invariant `TypeInv` says that the range of each snapshot was
parsed, and that the pool slot looked up ahead holds its own allocation, even if the base is not valid.
* `FreshSlots`: `Spec => []SlotsFresh`. A slot that is not cleared and not in the gap of skipped messages is
young enough, because `PacketBackup` consecutive messages take every slot once (`SlotCleared`).
* `OnlyAgeDrops`: `Spec => []DroppedForAge` if the server deltas from acknowledged messages only (`FromAcked`). By
`SlotInv` each of these is in its slot, so the forward search is never needed.
* `ExactSnapshots` and `PoolUsedAsMeant`: `Spec => []ValidExact` and `Spec => PoolUsed`, if also no message
brings more entities that its base has not than the margin (`MarginEnough`; without it the property fails, see the
observations). The invariant is a merge of two sorted lists that is under way. There is a number `q` up to which all is handled
(`Handled`): the items left are those of the message after `q`, the entities of the base left are those after
`q`, and what was listed is the world up to `q`, in order, as long as it is in the ring. That the base is still in the ring
when it is reached is `RestAt`: the distance of its next entity from the end, with the entities still to come that the base has not
(`Coming`), is within `RingSize`. Taking an entity of the base moves both ends, reading a new one uses up one of those to come, and the margin
gives the bound at the start. Each of the three actions moves `q` to the next number, and `NoneBetween` says that nothing was passed over.
`MCSnapshotReader` asserts the two hypotheses of the instance TLC checks.

`FrameProofs` has the theorems of the two modules on what is in a frame. About `MergedFrame` these are `Agreement`, `ExactEntities`,
`ExactPlayers` and `ExactCounters`: every property of
`merged_frame`, for any number of clients, entities and frames and any choice of who has which frame. The invariant, `FrameInv`
(`FrameInvariant`), relates the two contexts before each frame. The combiner turns a client's slot and sets its valid bit in
another place than the splitter does, so `PlayerAgrees` compares the slot the combiner filled last (`Filled`) with the one the
splitter reads, and says that the splitter trusts a base one frame before the combiner's bit is set. `AcksAgree` and `SeqAgrees`
are the same for acknowledges and sequences. For entities `EntitiesAgree` says that owners are equal, that exactly the
entities with an owner are in the frame, and that a version gives the value away, which is why an unchanged
one need not be written. The proof takes one client and one kind of data at a time: what
`Collect` does (`CollectFacts`), what `ReadMerged` makes of what `WriteMerged` wrote (`ReadFacts`), and then for each
kind that agreement before implies agreement after and the exact snapshot. `FrameAssumption` says that clients are a finite set of numbers
and what a snapshot that a client can be sent looks like.

About `FieldCodec` it proves every property of `field_codec`, for any tables of fields, any states of the server, any number of frames and
any choice of bases:

* `CodecAlways`: `CodecSpec => []CodecInv`, the invariant.
* `InStepAlways`, `SplitSameAlways`, `ReencodeAlways`: `CodecSpec => []InStep`, `[]SplitExact`, `[]ReencodeExact`.

The argument. What a reader has of a value (`Back`) is coded as the value was (`CodeTwice`), by cases: zero, an integer with and without its
sign, a small float, any other. So a reader need not know what the server had, only what the server would send. `CodecInv` says for
every frame, since each may be a base, that what was read is in step with the server's state, is a value that reads back as itself, in every field,
and is zero in the fields that are never sent (`InFrame`), that the splitter has the same, and that the marks of both tools are equal and of
fields that are sent. A message is looked at as the set of fields it carries, wherever its table has them: a reader takes these
and keeps the others (`Took`, from `EntityRead` and `PlayerRead`, where the server's table may be a beginning of the
reader's). Then the next frame is in step (`ReceivesIn`), the splitter has it too (`ForwardExact`), and the marks, being states
of zeros and ones, come through the same code (`FlagBack`, `MarksExact`). That the message is written
again is the other direction: a field that was sent has either changed for the tools or was marked (`SentMarked`, with `Unseen` left over), a field that was not sent has
neither, so the same fields go out with the same codes (`SameFields`), in a table that is chosen by the same two flags (`SamePilot`).

`SlotProofs` has the lemmas on worlds and slots. `ApplyBack`: applying the difference of two worlds to the first gives the
second. `ApplyAgain`: so does applying it to the second. `SlotOnce`: no two of `PacketBackup` consecutive messages share a slot.
`ParseAt`, `ReadExact` and `StoreSound`: what a reader of `SnapshotSlots` has in its slots after a message, and that
a snapshot whose base it holds is read as it was meant; `KeepsBase`: that a reader with every acknowledged snapshot always has the base.

`TrimmerProofs` proves all properties of `trimmer`.

* `LostOnlyInBulkAlways`: `Spec => LostOnlyInBulk`, for any size of the ring but 0 and 1, any gamestate and any number of new commands in a message. Which
commands are missing follows from the invariant `CommandInv` (`CommandInvariant`), which says where the
output stands between reading a message and writing it: at the command the loop had run
through before, so that all newer ones are in the message if it is copied, and if it is coded anew the last two.
The loop passes over empty slots, but the command it keeps never is behind the one before the newest, if there is one (`FirstBound`). Copied and
rewritten messages and the first one meet in one lemma, `CommandPut`.
* `OutputExactAlways` and `CopiedBaseAlwaysKnown`, from `WorldInv`: the input's reader holds what the client acknowledged
(`InputInv`), the message at hand is a difference to one of these (`MessageInv`), and from the first message of the cut on the output's reader
has every snapshot that can still be a base, with its world unless one of its bases was gone
(`CutFrom`), and the last one again for messages without a snapshot (`Repeated`). That a message is copied only when its base lies in the cut
follows from counting: the trimmer saves at most one frame for each message (`framesSaved`).
* `TypeCorrect`: `Spec => []TypeOK`.

`MessageProofs` has the theorems of two modules. About `LiveReader` it proves `LiveTyped`, `LiveExact` and `LiveEnds`: `Spec => []TypeOK`, `Spec => []MessagesExact` and
`Spec => []EndedRightly`, for any number of messages of any length and any growth of the file. The
invariant ties three things together: what is in the caller's memory are the cells before the file's
position (`GotInv`), the position is that of the current message plus what was read of it (`CallerInv`), and in live
mode nothing returns short, since a wait ends only with the end-of-file mark cleared (`WaitInv`).
`LiveAssumption` describes the recording as a sequence of cells with the start of every message.

About `BitBuffer`, for any size of a byte, any prefix code, any size of the buffer and its reserve, any values and texts, the writers mixed in any
way, and whatever either buffer held before:

* `BufferAlways`: `BufferSpec => []BufferInv`, the invariant.
* `ReadBackAlways`, `NoFalseEndAlways`, `SlackAlways`: `BufferSpec => []ReadBack`, `[]NoFalseEnd`, `[]SlackKept`.

The argument. `BufferInv` is about places: there is a list `at` of where each thing written begins and ends
(`History`), such that all that fitted lies there, its raw bits and then the codes of its symbols (`Kept`, `Stored`), and after reading something that
fitted the reader stands where that ends (`ReaderAt`). Both writers clear what is left of the byte they end in (`Clean`), the slow one since it clears a
byte when it begins it, the fast one since it sets bytes as a whole (`PutBitsWrote`, `AppendRawWrote`), so a writer
may go on where the other stopped and changes nothing before that place (`SameBefore`). With the reserve free no
write leaves the buffer (`Room`); once something does not fit, nothing does after it (`FitsInv`), even a text of which the beginning was written. What is read at
a place where a code lies is its symbol, because no other code can lie there (`PrefixFree`, `SymbolHere`), and so symbol by symbol
(`SpelledRead`), up to the 0 of a text and not past it (`ReadTextRight`). That the digits make the value again, `SumDigits`, needs division
by products of powers of two (`DivisionTwice`, `PowerAdd`), and the sign is the top one of them (`TopBit`). `Slack` says that the bits left of the
last byte are zero, or the extra byte if it was not begun.

`MergerProofs` proves all properties of `merger`, for any list of cuts of any demos, any losses, map changes and
bounds. `CommandsInOrder` is `Spec => CommandsFollow`. The invariant `NumberInv` (`CommandNumbers`) says where the next
command belongs: while a cut is written, the number of its next command plus the offset is `due` (`InCut`); while
the next cut is looked for, the one after what the last cut has written is (`BetweenCuts`), whatever
its reader reads meanwhile. It needs that a demo's reader has exactly the commands that were not run
through (`Pending`), so that their number says where they start (`ToWrite`), also after some were passed over (`ToRunList`: never within a cut), and for the first cut, which has no offset, that
the gamestate's number is low enough (`FirstCut`). Then each of `Write` and `Begin` moves `due` by the
commands it brings, and nothing taken by the viewer lies at or behind it (`NothingAhead`).

`OutputExactAlways` rests on `WorldInv` (`OutputFollowsDemo`): the demos' readers miss no base (`DemosInv`), and since `origin`, the first message of
the cut, numbers of demo and output differ by a constant, `Shift`, by which each snapshot in the demo's reader is also in the
viewer's (`CutInv`). `TeamInfoAlways` rests on `TeamInv`: while a message waits to be written, the demo's team info is what the viewer's will be
after the commands of the message (`Said`, the last of a list of commands).

`CommandProofs` has the theorems of the two command modules. About `CommandMerge`, for any clients, texts and recipients, repeated
texts or not, any frames that demos miss and any size of the ring, if what the demos of one frame have new fits into it
(`FrameFits`; the run takes it with equality, and with a ring one shorter `MergedInOrder` fails, see the observations):

* `CombinerAlways`, `TypesAlways`, `MergedInOrderAlways`: `Spec => []CombinerInv`, `[]TypeOK`, `[]MergedInOrder`.
* `BroadcastOnceAlways`: `Spec => []BroadcastOnce`.
* `SplitExactAlways`: `Spec => []SplitExact`.
* `RelaySteps`: `Spec => Relay!Init /\ [][Relay!Next]_(Relay!vars)`, the safety part of `RelaySpec`.

The argument. What a client has behind its bit is a function of a piece of the two rings (`Told`), and what an action does to
a piece is worked out first, for any two arrays: a piece is the pieces before and from a number on (`ToldJoin`), sharing adds one text to one client
(`ShareEffect`), shifting a ring up moves its entries one by one as long as they do not catch up with the last one
(`ShiftEffect`), so that an insertion adds one text to one client and leaves every other client what it had (`InsertEffect`). `MergedInOrder` is not inductive
by itself. `CombinerInv` adds whose turn it is (`Turns`), that nothing behind `curCommand` is the current
client's and nothing at all those of the demos to come (`Ahead`), that a client's sync index is not behind what it has in the frame (`Synced`), and that
the entries of the frame and what is still to be merged fit into the ring (`Room`). For the splitter `SplitInv` keeps, as a
history, what each client's demo held at every frame: the commands written with frame `k` for a client are those issued between two of
these points. The splitter's ring has all of a frame's commands, so it never has to drop any.

`BroadcastOnce` needs to know why the search, which starts behind the last command of the demo and not at the start of the frame, finds a
broadcast that is there. `OnceInv` adds four things. The broadcasts of a frame are in the order they were issued in (`Ordered`). Those in front
of `curCommand` are older than all that the demo still has to come (`Behind`), so nothing that is searched for was passed.
If the frame has a broadcast from a demo that is merged already, it has every later one (`Finished`), for that demo got those too: so
a broadcast that is inserted, because it is not there, comes before none that is. And an entry of the frame is a new command of everyone it is for (`Owned`), and what
a client has new are the last of its commands (`Newest`). Each is kept by one lemma on a frame as a list (`ShareOrderly` and
its like), from which the steps on the ring follow.

About `CommandDictionary`, for any texts and sizes with `MaxDistance <= DictSize`:

* `RebuildExact`: `Rebuild(Delta(c, ref), ref) = c`. Both loops are at the same token of the reference all along (`SamePositions`), and each
item makes its token (`TokenExact`).
* `KeptOnceAlways`, `DictionariesAgreeAlways`, `ReadExactAlways`: `DictionarySpec => []KeptOnce`, `[]DictionariesAgree`, `[]ReadExact`. The invariant
is a history of dictionaries (`History`), one for every command written, of which the reader has one and the writer the last.

The prover has no rule of induction over numbers that it can use: those of the library take an operator, which its backends cannot instantiate.
What stands in for it is that every set of numbers that is not empty has a least member (`Least`, from
the well-foundedness of `<`): a claim about every `k` follows from having no least counterexample. That is how `Told`,
`ShiftUp`, `HowMany` and the token loops, and in `BitBuffer` powers, sums and the loops over bits and symbols, which are recursive functions, are shown to exist
and to be what they compute.

Assumptions are the named ASSUMEs of `EntityPool`, `SnapshotReader`, `SnapshotSlots`, `Trimmer`, `LiveReader`, `Merger`, `MergedFrame`, `FieldCodec`, `CommandMerge`,
`CommandDictionary` and `BitBuffer`, and the hypotheses that are named with a theorem; nothing else.

Model-checked only: `SplitIsPrefix` and `RoundTripExact` of `RoundTrip`, which computes with whole files put together of
parts, and liveness (of `RelaySpec`, and `ReadToEnd`), which is outside what the prover handles.

## Plan

The order in which the modules were written: the entity store and the reader first, since every tool
stands on them, then commands and the trimmer, then the rest of combiner and splitter, files and the merger.
What is worth doing next:

1. Theorems about `RoundTrip`, whose files would have to be recursive functions.
2. The splitter's per-client pointers over `EntityPool` (`DemoSplitter/demo_splitter.cpp:1474`).
3. Server time that goes back, in `RoundTrip` and `Trimmer`.
4. The configstring table of `deps.cpp` with its offsets.

## Not modelled

* *Changer*: an earlier combiner for one output. Its loop over demos, its search for commands and its union of entities are earlier copies of what is modelled; its own part rewrites client numbers in the data.
* *Sanitizer*: has an older copy of the reader and replaces texts in place; its only other state is a bit position.
* *Bot*: does not compile at this commit, and the order of its events can only be guessed.
* *Metadata extractor* but for its loop: not reachable; its output is formatting.
* *Engine code* that no tool calls: out-of-band messages, user commands, key deltas.
* The string table of configstrings, the tokenizer, compressed files, downloads, and wall clock time. Player states, area masks and the like are data everywhere but in `FieldCodec` and `MergedFrame`.
* Hazards without a property are in `PROJECT.json`, each with the reason.
