----------------------------- MODULE BitBuffer -----------------------------
(***************************************************************************)
(* The message buffer: MSG_WriteBits and MSG_ReadBits of src/msg.cpp and   *)
(* their fast forms in src/DemoCombiner/enhanced_msg.cpp, and what is      *)
(* built on them.  A value of n bits is n % 8 raw bits, least significant  *)
(* first, and then chunks of 8 bits, each as its Huffman code.             *)
(*                                                                         *)
(* A writer fills a buffer that holds something already, mixing both       *)
(* forms; the bytes it made are read elsewhere, in the order they were     *)
(* written.  A byte has Byte bits, so that an instance is small, and the   *)
(* Huffman code is any complete prefix code.                               *)
(***************************************************************************)
EXTENDS Integers, Sequences, SequencesExt

CONSTANTS
  Byte,             \* 8: bits of a byte, and of what a code stands for
  Huffman,          \* symbol -> its code, a sequence of bits
  LongestCode,      \* HUFF_DEC_BITS
  MaxSize,          \* msg_t.maxsize
  Reserve,          \* 4: bytes that must be free before a write
  Values,           \* what is written: records [bits, value]
  Texts,            \* and texts: sequences of symbols, without the 0
  MaxText,          \* MAX_STRING_CHARS
  Percent, Dot,     \* '%' and '.'
  MaxWrites         \* bound: writes into one buffer

Power[n \in Nat] == IF n = 0 THEN 1 ELSE 2 * Power[n - 1]
Symbols == 0 .. Power[Byte] - 1
Bits == {0, 1}

(* A prefix code.                                                          *)
ASSUME CodeAssumption ==
  /\ Byte \in Nat \ {0}
  /\ Huffman \in [Symbols -> Seq(Bits)]
  /\ \A s, t \in Symbols : s # t => ~ IsPrefix(Huffman[s], Huffman[t])
  /\ LongestCode \in Nat /\ \A s \in Symbols : Len(Huffman[s]) <= LongestCode
  /\ {Percent, Dot} \subseteq Symbols \ {0}

(* A value of so many bits takes a part of a byte and a symbol for every   *)
(* further one; negative bits are a signed value.                          *)
Width(bits) == IF bits < 0 THEN -bits ELSE bits
Raw(bits) == Width(bits) % Byte
Coded(bits) == Width(bits) \div Byte

(* Signed values have whole bytes.  No value takes more than the reserve   *)
(* and two bytes.                                                          *)
ASSUME BufferAssumption ==
  /\ MaxSize \in Nat /\ Reserve \in 0 .. MaxSize - 1
  /\ MaxText \in Nat \ {0} /\ MaxWrites \in Nat
  /\ Texts \subseteq Seq(Symbols \ {0})
  /\ LongestCode <= Byte * (Reserve + 2)
  /\ \A w \in Values :
       /\ w.bits \in Int \ {0} /\ w.value \in Int
       /\ w.bits < 0 => Raw(w.bits) = 0
       /\ Raw(w.bits) + LongestCode * Coded(w.bits) <= Byte * (Reserve + 2)

VARIABLES
  writer,   \* msg_t of the writer: data, bit, cursize, overflowed
  writes,   \* what it was asked to write, in order, and if it fitted
  message,  \* the bytes that were written out, as bits
  extra,    \* what the writer put into a byte it did not fill
  reader,   \* msg_t of the reader: data, bit, readcount
  reads     \* what it read, in order
bufferVars == <<writer, writes, message, extra, reader, reads>>

ByteOf(pos) == pos \div Byte
SizeAt(pos) == ByteOf(pos) + 1            \* cursize and readcount
Capacity == Byte * (MaxSize + 2)          \* and room for what goes over

NoMessage == <<>>
NotExtra == -1

-----------------------------------------------------------------------------
(* Numbers.                                                                *)

(* The n lowest digits of so many bits, the lowest first, and their value. *)
Digits(n, bits, value) ==
  [i \in 1 .. n |-> (value \div Power[bits * (i - 1)]) % Power[bits]]

Sum(digits, bits) ==
  LET sum[i \in 0 .. Len(digits)] ==
        IF i = 0 THEN 0 ELSE sum[i - 1] + Power[bits * (i - 1)] * digits[i]
  IN  sum[Len(digits)]

(* The bits and the symbols of a value. *)
Low(bits, value) == Digits(Raw(bits), 1, value)
High(bits, value) ==
  Digits(Coded(bits), Byte, (value % Power[Width(bits)]) \div Power[Raw(bits)])

-----------------------------------------------------------------------------
(* Writing bits.                                                           *)

(* A mistake: the bit is put into whatever the byte holds. *)
PutBitDirty(d, pos, b) ==
  [k \in DOMAIN d |-> IF k = pos /\ b = 1 THEN 1 ELSE d[k]]

(* Huff_putBit: a bit at the start of a byte clears the byte. *)
PutBit(d, pos, b) ==
  [k \in DOMAIN d |-> IF k = pos THEN IF pos % Byte = 0 \/ b = 1 THEN b ELSE d[k]
                      ELSE IF pos % Byte = 0 /\ ByteOf(k) = ByteOf(pos) THEN 0
                      ELSE d[k]]

PutBits(d, pos, code) ==
  LET put[i \in 0 .. Len(code)] ==
        IF i = 0 THEN d ELSE PutBit(put[i - 1], pos + (i - 1), code[i])
  IN  put[Len(code)]

(* A mistake: the rest of the last byte is left as it was. *)
AppendBitsOnly(d, pos, code) ==
  [k \in DOMAIN d |-> IF k < pos \/ k >= pos + Len(code) THEN d[k]
                      ELSE code[k - pos + 1]]

(* AppendRawBits: the bytes that are touched are set as a whole. *)
AppendRawBits(d, pos, code) ==
  LET end == pos + Len(code)
  IN  [k \in DOMAIN d |-> IF k < pos THEN d[k]
                          ELSE IF k < end THEN code[k - pos + 1]
                          ELSE IF ByteOf(k) = ByteOf(end - 1) THEN 0
                          ELSE d[k]]

Put(d, pos, code, fast) ==
  IF fast THEN AppendRawBits(d, pos, code) ELSE PutBits(d, pos, code)

(* The codes of some symbols, one behind the other. *)
PutSymbols(d, pos, syms, fast) ==
  LET put[i \in 0 .. Len(syms)] ==
        IF i = 0 THEN [data |-> d, bit |-> pos]
        ELSE [data |-> Put(put[i - 1].data, put[i - 1].bit, Huffman[syms[i]], fast),
              bit  |-> put[i - 1].bit + Len(Huffman[syms[i]])]
  IN  put[Len(syms)]

(* A value; the fast form of a flag is like the slow one. *)
PutValue(m, bits, value, fast) ==
  LET low == Low(bits, value)
      d == IF low = <<>> THEN m.data ELSE Put(m.data, m.bit, low, fast /\ bits # 1)
  IN  PutSymbols(d, m.bit + Len(low), High(bits, value), fast)

(* A mistake: the size does not count the byte that comes next. *)
WriteBitsTight(m, bits, value, fast) ==
  LET put == PutValue(m, bits, value, fast)
  IN  IF MaxSize - m.cursize < Reserve THEN [m EXCEPT !.overflowed = TRUE]
      ELSE [m EXCEPT !.data = put.data, !.bit = put.bit,
                     !.cursize = (put.bit + Byte - 1) \div Byte]

(* MSG_WriteBits: nothing is written without the reserve. *)
WriteBits(m, bits, value, fast) ==
  LET put == PutValue(m, bits, value, fast)
  IN  IF MaxSize - m.cursize < Reserve THEN [m EXCEPT !.overflowed = TRUE]
      ELSE [m EXCEPT !.data = put.data, !.bit = put.bit, !.cursize = SizeAt(put.bit)]

(* MSG_WriteData, by bytes; the fast form looks after the reserve itself.  *)
FastWriteByte(m, s) ==
  LET put == PutSymbols(m.data, m.bit, <<s>>, TRUE)
  IN  IF MaxSize - SizeAt(m.bit) < Reserve
      THEN [m EXCEPT !.cursize = SizeAt(m.bit), !.overflowed = TRUE]
      ELSE [m EXCEPT !.data = put.data, !.bit = put.bit, !.cursize = SizeAt(put.bit)]

(* A text ends with a 0; one that is too long becomes an empty one.        *)
Said(text) == IF Len(text) >= MaxText THEN <<0>> ELSE Append(text, 0)

WriteText(m, text, fast) ==
  LET put[i \in 0 .. Len(Said(text))] ==
        IF i = 0 THEN m
        ELSE IF fast THEN FastWriteByte(put[i - 1], Said(text)[i])
        ELSE WriteBits(put[i - 1], Byte, Said(text)[i], FALSE)
  IN  put[Len(Said(text))]

-----------------------------------------------------------------------------
(* Reading bits.                                                           *)

BitAt(d, pos) == IF pos \in DOMAIN d THEN d[pos] ELSE 0

SymbolAt(d, pos) ==
  CHOOSE s \in Symbols :
    \A i \in DOMAIN Huffman[s] : BitAt(d, pos + (i - 1)) = Huffman[s][i]

(* Symbols in a row: where they begin, the first at pos, and what they are.*)
Places(d, pos, n) ==
  LET at[i \in 0 .. n] ==
        IF i = 0 THEN pos ELSE at[i - 1] + Len(Huffman[SymbolAt(d, at[i - 1])])
  IN  at
SymbolsAt(d, pos, n) == [i \in 1 .. n |-> SymbolAt(d, Places(d, pos, n)[i - 1])]

(* MSG_ReadBits.  A negative value is told by the top bit of the chunks:   *)
(* the code counts the raw bits out before it looks.                       *)
ReadBits(m, bits) ==
  LET low == [i \in 1 .. Raw(bits) |-> BitAt(m.data, m.bit + (i - 1))]
      start == m.bit + Raw(bits)
      high == SymbolsAt(m.data, start, Coded(bits))
      end == Places(m.data, start, Coded(bits))[Coded(bits)]
      top == Byte * Coded(bits)
      value == Sum(low, 1) + Power[Raw(bits)] * Sum(high, Byte)
  IN  [msg   |-> [m EXCEPT !.bit = end, !.readcount = SizeAt(end)],
       value |-> IF bits < 0 /\ top > 0 /\ (value \div Power[top - 1]) % 2 = 1
                 THEN value - Power[top] ELSE value]

(* '%' becomes '.'. *)
Shown(text) == [i \in DOMAIN text |-> IF text[i] = Percent THEN Dot ELSE text[i]]

(* MSG_ReadString: up to a 0 or the end of the message.                    *)
ReadText(m, cursize) ==
  LET all == SymbolsAt(m.data, m.bit, MaxText)
      after == Places(m.data, m.bit, MaxText)
      ends(n) == all[n] = 0 \/ SizeAt(after[n]) > cursize
      n == CHOOSE n \in 1 .. MaxText :
             /\ ends(n) \/ n = MaxText
             /\ \A k \in 1 .. n - 1 : ~ ends(k)
  IN  [msg   |-> [m EXCEPT !.bit = after[n], !.readcount = SizeAt(after[n])],
       value |-> Shown(SubSeq(all, 1, IF ends(n) THEN n - 1 ELSE MaxText - 1))]

-----------------------------------------------------------------------------
(* A writer and a reader.                                                  *)

Writing == message = NoMessage

WriteValue(w, fast) ==
  /\ Writing /\ Len(writes) < MaxWrites
  /\ writer' = WriteBits(writer, w.bits, w.value, fast)
  /\ writes' = Append(writes, [bits |-> w.bits, what |-> w.value,
                               fits |-> ~ writer'.overflowed])
  /\ UNCHANGED <<message, extra, reader, reads>>

WriteString(text, fast) ==
  /\ Writing /\ Len(writes) < MaxWrites
  /\ writer' = WriteText(writer, text, fast)
  /\ writes' = Append(writes, [bits |-> 0, what |-> text,
                               fits |-> ~ writer'.overflowed])
  /\ UNCHANGED <<message, extra, reader, reads>>

(* The message is written out: cursize bytes.  If the last one was not     *)
(* begun, the tools put messageExtraByte into it.  The reader has a buffer *)
(* of its own with something in it.                                        *)
Filled(x) ==
  [k \in DOMAIN writer.data |->
     IF writer.bit % Byte = 0 /\ ByteOf(k) = writer.cursize - 1
     THEN (x \div Power[k % Byte]) % 2 ELSE writer.data[k]]

Deliver(x, garbage) ==
  /\ Writing /\ writes # <<>>
  /\ message' = [k \in 1 .. Byte * writer.cursize |-> Filled(x)[k - 1]]
  /\ extra' = IF writer.bit % Byte = 0 THEN x ELSE NotExtra
  /\ reader' = [reader EXCEPT !.data =
                  [k \in DOMAIN writer.data |->
                     IF k < Byte * writer.cursize THEN Filled(x)[k] ELSE garbage]]
  /\ UNCHANGED <<writer, writes, reads>>

Read ==
  LET bits == writes[Len(reads) + 1].bits
      r == IF bits # 0 THEN ReadBits(reader, bits)
           ELSE ReadText(reader, writer.cursize)
  IN  /\ ~ Writing /\ Len(reads) < Len(writes)
      /\ reader.readcount <= writer.cursize
      /\ reader' = r.msg /\ reads' = Append(reads, r.value)
      /\ UNCHANGED <<writer, writes, message, extra>>

BufferInit ==
  /\ \E b \in Bits :
       writer = [data |-> [k \in 0 .. Capacity - 1 |-> b], bit |-> 0,
                 cursize |-> 0, overflowed |-> FALSE]
  /\ writes = <<>> /\ message = NoMessage /\ extra = NotExtra
  /\ reader = [data |-> <<>>, bit |-> 0, readcount |-> 0]
  /\ reads = <<>>

BufferNext ==
  \/ \E w \in Values, fast \in BOOLEAN : WriteValue(w, fast)
  \/ \E text \in Texts, fast \in BOOLEAN : WriteString(text, fast)
  \/ \E x \in Symbols, garbage \in Bits : Deliver(x, garbage)
  \/ Read

BufferSpec == BufferInit /\ [][BufferNext]_bufferVars

-----------------------------------------------------------------------------
(* Properties.                                                             *)

(* What comes back of something that was written. *)
Signed(v, n) == IF 2 * v >= Power[n] THEN v - Power[n] ELSE v

Returned(w) ==
  IF w.bits < 0 THEN Signed(w.what % Power[-w.bits], -w.bits)
  ELSE IF w.bits > 0 THEN w.what % Power[w.bits]
  ELSE IF Len(w.what) >= MaxText THEN <<>>
  ELSE Shown(w.what)

(* Whatever was in the two buffers, whichever writers made the message and *)
(* whatever was lost at its end, what fitted comes back as it was.         *)
ReadBack == \A i \in DOMAIN reads : writes[i].fits => reads[i] = Returned(writes[i])

(* CL_ParseServerMessage gives up at readcount > cursize: it must not      *)
(* while there is something left that fitted, and a lost end must not      *)
(* bring anything else out of order.                                       *)
NoFalseEnd == /\ \A i, j \in DOMAIN writes :
                   i < j /\ writes[j].fits => writes[i].fits
              /\ \A i \in DOMAIN reads :
                   writes[i].fits => reader.readcount <= writer.cursize
                                      \/ Len(reads) > i

(* At the end of a message the reader looks at the bits that are left of   *)
(* the last byte (messageExtraByte).  It finds what the writer put there,  *)
(* and zeros where the writer puts nothing, so that the tools copy files   *)
(* bit for bit.                                                            *)
ExtraByte == LET last == reader.readcount - 1
             IN  Sum([i \in 1 .. Byte |->
                        IF i - 1 >= reader.bit % Byte
                        THEN BitAt(reader.data, Byte * last + (i - 1)) ELSE 0], 1)

SlackKept ==
  ~ Writing /\ Len(reads) = Len(writes) /\ ~ writer.overflowed
    => ExtraByte = IF extra = NotExtra THEN 0 ELSE extra
=============================================================================
