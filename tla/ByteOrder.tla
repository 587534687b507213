----------------------------- MODULE ByteOrder -----------------------------
(***************************************************************************)
(* Byte order and the record format (endianness.rs).  A byte has Radix     *)
(* values, 256 in the code; a number is a 16-bit or 32-bit one, of two or  *)
(* four bytes.  A reader that has only some of the bytes gets None.        *)
(***************************************************************************)
EXTENDS Integers, Sequences, SequencesExt

CONSTANT Radix

ASSUME RadixConstant == Radix \in Nat \ {0, 1}

\* 1 << 8 * k.
Weight(k) == LET weight[i \in 0 .. k] == IF i = 0 THEN 1 ELSE weight[i - 1] * Radix
             IN  weight[k]

Bytes == 0 .. (Radix - 1)
U16   == 0 .. (Weight(2) - 1)
U32   == 0 .. (Weight(4) - 1)

NoValue == -1

\* (value >> 8 * k) & 0xff.
Digit(v, k) == (v \div Weight(k)) % Radix

\* to_le_bytes, to_be_bytes of a number of n bytes.
ToLe(v, n) == [i \in 1 .. n |-> Digit(v, i - 1)]
ToBe(v, n) == [i \in 1 .. n |-> Digit(v, n - i)]

\* The number of the bytes bs, the most significant first: each moves what is before
\* it one byte up.
Number(bs) == LET value[i \in 0 .. Len(bs)] == IF i = 0 THEN 0 ELSE value[i - 1] * Radix + bs[i]
              IN  value[Len(bs)]

\* from_le_bytes, from_be_bytes: the first n bytes, or None.
FromBe(bs, n) == IF Len(bs) < n THEN NoValue ELSE Number(SubSeq(bs, 1, n))
FromLe(bs, n) == IF Len(bs) < n THEN NoValue ELSE Number([i \in 1 .. n |-> bs[n - i + 1]])

Record   == [id : U32, flags : U16, kind : Bytes]
NoRecord == [id |-> NoValue, flags |-> NoValue, kind |-> NoValue]

Serialize(r) == ToLe(r.id, 4) \o ToLe(r.flags, 2) \o <<r.kind>>

\* Mutant: a record without its last byte is accepted.
DeserializeShort(bs) == IF Len(bs) < 6 THEN NoRecord
                        ELSE [id    |-> FromLe(SubSeq(bs, 1, 4), 4),
                              flags |-> FromLe(SubSeq(bs, 5, 6), 2),
                              kind  |-> IF Len(bs) < 7 THEN 0 ELSE bs[7]]
Deserialize(bs) == IF Len(bs) < 7 THEN NoRecord
                   ELSE [id    |-> FromLe(SubSeq(bs, 1, 4), 4),
                         flags |-> FromLe(SubSeq(bs, 5, 6), 2),
                         kind  |-> bs[7]]

-----------------------------------------------------------------------------
\* A record's bytes reach a reader one by one, and those of a next one follow.

VARIABLES sent,  \* the record
          wire   \* the bytes that arrived

byteVars == <<sent, wire>>

ByteTypeOK == sent \in Record /\ wire \in Seq(Bytes)

ByteInit == sent \in Record /\ wire = <<>>

Arrive ==
  /\ Len(wire) < 9
  /\ wire' = Append(wire, (Serialize(sent) \o Serialize(sent))[Len(wire) + 1])
  /\ UNCHANGED sent

ByteSpec == ByteInit /\ [][Arrive]_byteVars

-----------------------------------------------------------------------------
\* A reader gets the record once all seven bytes are there, whatever follows them,
\* and nothing before (deserialize_record, 84-94).  Both byte orders are read back
\* in the order they were written, from the head of a longer slice too, and the one
\* is the reverse of the other.
ReadBack ==
  /\ Deserialize(wire) = IF Len(wire) < 7 THEN NoRecord ELSE sent
  /\ FromBe(ToBe(sent.id, 4) \o wire, 4) = sent.id
  /\ FromBe(ToBe(sent.flags, 2) \o wire, 2) = sent.flags
  /\ ToBe(sent.id, 4) = Reverse(ToLe(sent.id, 4))
  /\ ToBe(sent.flags, 2) = Reverse(ToLe(sent.flags, 2))
=============================================================================
