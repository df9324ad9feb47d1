------------------------- MODULE CommandDictionary -------------------------
(***************************************************************************)
(* The texts of server commands in a merged demo.  The writer              *)
(* (writeMergedDeltaSnapshot and WriteDeltaOrRawServerCommand in           *)
(* src/DemoCombiner/combined_demo_utils.cpp) and the reader                *)
(* (CL_ParseMergedCommandString in src/DemoSplitter/demo_splitter.cpp)     *)
(* each keep the last texts that were new.  A text that is in the writer's *)
(* dictionary is written as its distance from the end; a new one as it is, *)
(* or as what changed against one of the last few, token by token.         *)
(*                                                                         *)
(* The writer takes the reference that costs the fewest bits, if it saves  *)
(* any.  That depends on lengths that a small instance does not have: here *)
(* any reference it looks at may be the one, or none.                      *)
(***************************************************************************)
EXTENDS Integers, Sequences, SequencesExt, FiniteSetsExt

CONSTANTS
  Letters,      \* what tokens are made of
  Commands,     \* texts: sequences of tokens, which are sequences of letters
  DictSize,     \* 1024: texts kept
  MaxDistance,  \* 128: how far back a reference may lie
  MaxPrefix,    \* 7: letters taken over from a token
  MaxTokens,    \* 255: tokens of a text that has or is a reference
  MaxWritten    \* bound: commands in the demo

ASSUME DictionaryAssumption ==
  /\ \A c \in Commands : c \in Seq(Seq(Letters)) /\ Len(c) > 0
  /\ DictSize \in Nat \ {0} /\ MaxDistance \in 1 .. DictSize
  /\ {MaxPrefix, MaxTokens, MaxWritten} \subseteq Nat

VARIABLES
  writer,    \* serverCommandBuffer and serverCommandBufferCount of the writer
  reader,    \* and of the reader
  written,   \* the texts of the commands, in order
  stream,    \* how they were written
  got        \* the texts read
dictionaryVars == <<writer, reader, written, stream, got>>

EmptyText == <<<<>>>>  \* an empty text is one empty token
DictSlots == 0 .. DictSize - 1
NoDictionary == [buffer |-> [s \in DictSlots |-> EmptyText], count |-> 0]

TextBack(d, distance) == d.buffer[(d.count - distance) % DictSize]
Add(d, text) == [buffer |-> [d.buffer EXCEPT ![d.count % DictSize] = text],
                 count  |-> d.count + 1]

Distances(d, far) == 1 .. Min({far, d.count})

-----------------------------------------------------------------------------
(* A text against a reference.                                             *)

(* How many tokens of c from i on are those of ref from j on. *)
TokenRunLen(c, i, ref, j) ==
  Max({k \in 0 .. Len(c) :
         /\ k = 0 \/ (i + k - 1 <= Len(c) /\ j + k - 1 <= Len(ref))
         /\ \A m \in 0 .. k - 1 : c[i + m] = ref[j + m]})

(* The first of the tokens of ref that begin the longest run. *)
BestJump(c, i, ref) ==
  LET same == {j \in DOMAIN ref : ref[j] = c[i]}
      run(j) == TokenRunLen(c, i + 1, ref, j + 1)
  IN  Min({j \in same : \A k \in same : run(k) <= run(j)})

(* Going there keeps as many of the next tokens as going on does, and is   *)
(* worth its bits. *)
JumpPays(c, i, ref, r) ==
  /\ \E j \in DOMAIN ref : ref[j] = c[i]
  /\ LET run == TokenRunLen(c, i + 1, ref, BestJump(c, i, ref) + 1)
     IN  /\ run >= TokenRunLen(c, i + 1, ref, r + 1)
         /\ run >= 1 \/ Len(c[i]) >= 2

(* Letters that a token has in common with another. *)
Common(token, other) ==
  Max({k \in 0 .. Len(token) :
         k <= Len(other) /\ k <= MaxPrefix /\ SubSeq(token, 1, k) = SubSeq(other, 1, k)})

(* Token i of c as it is written when token r of the reference is next:    *)
(* that one, another one, or a prefix of the next and the rest.            *)
Item(c, i, ref, r) ==
  IF r <= Len(ref) /\ c[i] = ref[r] THEN [how |-> "same"]
  ELSE IF JumpPays(c, i, ref, r) THEN [how |-> "jump", to |-> BestJump(c, i, ref)]
  ELSE LET n == IF r <= Len(ref) THEN Common(c[i], ref[r]) ELSE 0
       IN  [how |-> "changed", prefix |-> n, rest |-> SubSeq(c[i], n + 1, Len(c[i]))]

(* The token of the reference that is next after an item. *)
NextRef(item, r) == IF item.how = "jump" THEN item.to + 1 ELSE r + 1

(* All tokens of c. *)
Delta(c, ref) ==
  LET at[i \in 1 .. Len(c) + 1] ==
        IF i = 1 THEN 1
        ELSE LET r == at[i - 1] IN NextRef(Item(c, i - 1, ref, r), r)
  IN  [i \in 1 .. Len(c) |-> Item(c, i, ref, at[i])]

(* The token that an item makes when token r of the reference is next. *)
Token(item, ref, r) ==
  CASE item.how = "same" -> ref[r]
    [] item.how = "jump" -> ref[item.to]
    [] OTHER -> (IF r <= Len(ref) THEN SubSeq(ref[r], 1, item.prefix) ELSE <<>>)
                  \o item.rest

(* A mistake: after a jump the reader goes on where it was. *)
RebuildStaying(items, ref) ==
  [i \in 1 .. Len(items) |->
     IF items[i].how = "same" /\ i > Len(ref) THEN <<>> ELSE Token(items[i], ref, i)]

(* The text that the items make of the reference. *)
Rebuild(items, ref) ==
  LET at[i \in 1 .. Len(items) + 1] ==
        IF i = 1 THEN 1 ELSE LET r == at[i - 1] IN NextRef(items[i - 1], r)
  IN  [i \in 1 .. Len(items) |-> Token(items[i], ref, at[i])]

-----------------------------------------------------------------------------
(* Writing.                                                                *)

(* A mistake: only the texts that can be references are looked through.    *)
OccurrencesNear(text) ==
  {n \in Distances(writer, MaxDistance) : TextBack(writer, n) = text}

(* Where the text is in the dictionary: the oldest place is taken. *)
Occurrences(text) ==
  {n \in Distances(writer, DictSize) : TextBack(writer, n) = text}

Put(text, item, d) ==
  /\ Len(written) < MaxWritten
  /\ written' = Append(written, text)
  /\ stream' = Append(stream, item)
  /\ writer' = d
  /\ UNCHANGED <<reader, got>>

WriteBuffered(text) ==
  /\ Occurrences(text) # {}
  /\ Put(text, [how |-> "buffered", distance |-> Max(Occurrences(text))], writer)

WriteRaw(text) ==
  /\ Occurrences(text) = {}
  /\ Put(text, [how |-> "raw", text |-> text], Add(writer, text))

(* A mistake: a text that was written as a change is not kept. *)
DeltaNotKept(text, n) ==
  /\ Occurrences(text) = {}
  /\ Len(text) <= MaxTokens /\ Len(TextBack(writer, n)) <= MaxTokens
  /\ Put(text, [how |-> "delta", distance |-> n,
                items |-> Delta(text, TextBack(writer, n))], writer)

WriteDelta(text, n) ==
  LET ref == TextBack(writer, n)
  IN  /\ Occurrences(text) = {}
      /\ Len(text) <= MaxTokens /\ Len(ref) <= MaxTokens
      /\ Put(text, [how |-> "delta", distance |-> n, items |-> Delta(text, ref)],
             Add(writer, text))

-----------------------------------------------------------------------------
(* Reading.                                                                *)

Kept(x, text) == IF x.how = "buffered" THEN reader ELSE Add(reader, text)

Read ==
  LET x == stream[Len(got) + 1]
      text == CASE x.how = "buffered" -> TextBack(reader, x.distance)
                [] x.how = "raw" -> x.text
                [] OTHER -> Rebuild(x.items, TextBack(reader, x.distance))
  IN  /\ Len(got) < Len(stream)
      /\ got' = Append(got, text)
      /\ reader' = Kept(x, text)
      /\ UNCHANGED <<writer, written, stream>>

DictionaryInit ==
  /\ writer = NoDictionary /\ reader = NoDictionary
  /\ written = <<>> /\ stream = <<>> /\ got = <<>>

DictionaryNext ==
  \/ \E text \in Commands : WriteBuffered(text) \/ WriteRaw(text)
  \/ \E text \in Commands, n \in Distances(writer, MaxDistance) : WriteDelta(text, n)
  \/ Read

DictionarySpec == DictionaryInit /\ [][DictionaryNext]_dictionaryVars

-----------------------------------------------------------------------------
(* Every command comes out of a merged demo as it went in, through any     *)
(* chain of references, however long ago their texts were written.         *)
ReadExact == IsPrefix(got, written)

(* Both programs keep the same texts in the same places whenever the       *)
(* reader has caught up: a distance means the same to both.                *)
DictionariesAgree == Len(got) = Len(stream) => reader = writer

(* "this command already exists in the buffer": no text is kept twice, so  *)
(* that the last 1024 texts are as many commands.                          *)
KeptOnce == \A m, n \in Distances(writer, DictSize) :
              TextBack(writer, m) = TextBack(writer, n) => m = n
=============================================================================
