------------------------------ MODULE TrieFile ------------------------------
(***************************************************************************)
(* The file of a trie: BinaryWriter and BinaryReader of immutable_trie.cpp *)
(* and what ImmutableTrie writes and reads with them.                      *)
(*                                                                         *)
(* A file is a sequence of half cells (nibbles).  Every number is written  *)
(* in groups of three bits, the last of which is marked; in front of every *)
(* item stands its tag, which the reader compares (the build defines       *)
(* VALIDATE_TAGS).  How the nibbles travel through buffers of 256 bytes    *)
(* is left out.                                                            *)
(***************************************************************************)
EXTENDS TrieImage

(* The tags are distinct constants no length in a file comes near to.      *)
Tag == [MCHV |-> 60001, CBPL |-> 60002, TLTB |-> 60003, TSTL |-> 60004,
        TLSF |-> 60005, TREL |-> 60006, TREN |-> 60007, TLSL |-> 60008]

TopGroup == (4 * CellBits - 1) \div 3

(* Mutant: a number whose leading group is not zero loses it.              *)
EncodeNumberShort(x) ==
  LET n == Max({0} \cup {k \in 0 .. TopGroup : x \div 8 ^ (k + 1) # 0})
  IN  [i \in 1 .. n + 1 |-> ((x \div 8 ^ (n + 1 - i)) % 8) + (IF i = n + 1 THEN 8 ELSE 0)]

EncodeNumber(x) ==
  LET n == Max({0} \cup {k \in 0 .. TopGroup : x \div 8 ^ k # 0})
  IN  [i \in 1 .. n + 1 |-> ((x \div 8 ^ (n + 1 - i)) % 8) + (IF i = n + 1 THEN 8 ELSE 0)]

WriteTagged(tag, x) == EncodeNumber(tag) \o EncodeNumber(x)

(* Four cells make a number, the remaining ones the last.                  *)
Words(size) == (size + 3) \div 4

WordOf(cells, k) ==
  LET cell(i) == IF i <= Len(cells) THEN cells[i] ELSE 0
  IN  cell(4 * k - 3) + Radix * cell(4 * k - 2) + Radix ^ 2 * cell(4 * k - 1)
        + Radix ^ 3 * cell(4 * k)

WriteBuffer(tag, cells) ==
  WriteTagged(tag, Len(cells))
    \o FlattenSeq([k \in 1 .. Words(Len(cells)) |-> EncodeNumber(WordOf(cells, k))])

(* An int16_t of two cells, widened with its sign.                         *)
WriteInt16(tag, x) ==
  WriteTagged(tag, IF x < Radix ^ 2 \div 2 THEN x ELSE Radix ^ 4 - Radix ^ 2 + x)

WriteToFile(c) ==
  WriteTagged(Tag.MCHV, c.max) \o WriteTagged(Tag.CBPL, c.payload)
    \o WriteBuffer(Tag.TLTB, [i \in 1 .. Radix |-> c.translate[i - 1]])
    \o (IF c.table THEN WriteTagged(Tag.TSTL, Len(c.dec))
                          \o FlattenSeq([k \in 1 .. Len(c.dec) |->
                                           WriteInt16(Tag.TLSF, c.dec[k])])
        ELSE <<>>)
    \o WriteTagged(Tag.TREL, Len(c.image)) \o WriteBuffer(Tag.TREN, c.image)

(* ImmutableTrie::Save writes the same of a trie in memory.                *)
SaveTrie(trie) == WriteToFile(trie)

-----------------------------------------------------------------------------
(***************************************************************************)
(* DecodeUInt32, all the way: the numbers in a file.  A reader stands in   *)
(* front of one of them; reading returns where it stands then.             *)
(***************************************************************************)
Decoded(s) ==
  LET ends == SelectSeq([j \in 1 .. Len(s) |-> j], LAMBDA j : s[j] >= 8)
      start(k) == IF k = 1 THEN 1 ELSE ends[k - 1] + 1
  IN  [k \in 1 .. Len(ends) |->
         FoldLeft(LAMBDA x, nibble : (8 * x + (nibble % 8)) % (Radix ^ 4), 0,
                  SubSeq(s, start(k), ends[k]))]

(* On a wrong tag the tag is consumed, its value is not, and 0 is returned. *)
ReadTagged(n, i, tag) ==
  IF i <= Len(n) /\ n[i] = tag
  THEN [at |-> i + 2, ok |-> i < Len(n), value |-> IF i < Len(n) THEN n[i + 1] ELSE 0]
  ELSE [at |-> i + 1, ok |-> FALSE, value |-> 0]

(* A buffer that is not as long as asked for is left alone; the file may   *)
(* end within one.                                                         *)
ReadBuffer(n, i, tag, old) ==
  LET len == ReadTagged(n, i, tag)
      word(k) == len.at + (k - 1) \div 4
  IN  IF ~len.ok \/ len.value # Len(old) THEN [at |-> len.at, value |-> old]
      ELSE [at |-> len.at + Words(Len(old)),
            value |-> [k \in 1 .. Len(old) |->
                         IF word(k) > Len(n) THEN old[k]
                         ELSE (n[word(k)] \div (Radix ^ ((k - 1) % 4))) % Radix]]

(* The reader of a stream s whose buffer holds start.                      *)
ReaderOf(start, s) == start \o s

(* ImmutableTrie::Initialize: no error stops it.                           *)
Initialize(s) ==
  LET n == Decoded(s)
      max == ReadTagged(n, 1, Tag.MCHV)
      payload == ReadTagged(n, max.at, Tag.CBPL)
      tl == ReadBuffer(n, payload.at, Tag.TLTB, [i \in 1 .. Radix |-> 0])
      table == NeedsTable(max.value)
      size == IF table THEN ReadTagged(n, tl.at, Tag.TLSL) ELSE [at |-> tl.at, value |-> 0]
      entries == FoldLeft(LAMBDA r, k : LET e == ReadTagged(n, r.at, Tag.TLSF)
                                        IN  [at |-> e.at,
                                             dec |-> Append(r.dec, IF e.ok THEN e.value % (Radix ^ 2)
                                                                   ELSE Junk)],
                          [at |-> size.at, dec |-> <<>>], [k \in 1 .. size.value |-> k])
      len == ReadTagged(n, entries.at, Tag.TREL)
      image == ReadBuffer(n, len.at, Tag.TREN, [i \in 1 .. len.value |-> Junk])
  IN  [max |-> max.value, payload |-> payload.value,
       translate |-> [b \in Byte |-> tl.value[b + 1]], table |-> table,
       dec |-> entries.dec, image |-> image.value]
=============================================================================
