------------------------------ MODULE RLPCodec ------------------------------
(***************************************************************************)
(* RLPWriter and RLPReader: what the contracts write when they rebuild a   *)
(* trie node, and how they take proofs, headers and accounts apart.  A     *)
(* caller of the writer encodes items and then a list of them; a caller    *)
(* of the reader iterates over the list.  Memory is a sequence of bytes,   *)
(* zero behind the end of what was written.                                *)
(***************************************************************************)
EXTENDS Integers, Sequences, SequencesExt

CONSTANTS
  ByteStrings,  \* the items that are written
  Words,        \* the storage words that are written as trie leaves
  WordBytes,    \* bytes of a word
  MaxItems      \* bound: items of the list

Byte == 0..255

-----------------------------------------------------------------------------
(***************************************************************************)
(* RLPWriter.                                                              *)
(***************************************************************************)
\* x shifted right by i bytes.
Shifted(x) == LET shifted[i \in Nat] == IF i = 0 THEN x ELSE shifted[i - 1] \div 256 IN shifted

\* The number of bytes x needs: the loop that multiplies i by 256.
LengthOf(x) == CHOOSE n \in 0..x : Shifted(x)[n] = 0 /\ \A i \in 0..(n - 1) : Shifted(x)[i] # 0

\* x in that many bytes, big endian.
ToBinary(x) == [i \in 1..LengthOf(x) |-> Shifted(x)[LengthOf(x) - i] % 256]

\* A transaction pays for the memory of no byte string of 2^24 bytes, and of no
\* list of 2^16 items.
ASSUME CodecAssumption ==
  /\ ByteStrings \subseteq Seq(Byte)
  /\ \A s \in ByteStrings : Len(s) < 16777216
  /\ Words \subseteq Nat \ {0}
  /\ WordBytes \in 1..32
  /\ \A x \in Words : LengthOf(x) <= WordBytes
  /\ MaxItems \in 0..65535

\* Mutant: a length of 56 in the short form.
EncodeLengthTo56(len, offset) ==
  IF len <= 56 THEN <<len + offset>>
  ELSE <<LengthOf(len) + offset + 55>> \o ToBinary(len)

EncodeLength(len, offset) ==
  IF len < 56 THEN <<len + offset>>
  ELSE <<LengthOf(len) + offset + 55>> \o ToBinary(len)

\* A single byte up to 128 stands for itself.
EncodeBytes(item) ==
  IF Len(item) = 1 /\ item[1] <= 128 THEN item ELSE EncodeLength(Len(item), 128) \o item

EncodeList(list) == LET flat == FlattenSeq(list) IN EncodeLength(Len(flat), 192) \o flat

EncodeUint(x) == EncodeBytes(ToBinary(x))

\* restoreOldValueState: the value part of a leaf for the slot's current word.
LeafValue(x) == IF x > 127 THEN EncodeBytes(EncodeUint(x)) ELSE EncodeUint(x)

-----------------------------------------------------------------------------
(***************************************************************************)
(* RLPReader, at a place ptr of the memory m.                              *)
(***************************************************************************)
At(m, ptr) == IF ptr \in 1..Len(m) THEN m[ptr] ELSE 0

\* mload shifted right to its first n bytes
Load(m, ptr) ==
  LET load[n \in Nat] == IF n = 0 THEN 0 ELSE 256 * load[n - 1] + At(m, ptr + n - 1) IN load

ItemLength(m, ptr) ==
  LET byte0 == At(m, ptr)
  IN  CASE byte0 < 128 -> 1
        [] byte0 \in 128..183 -> byte0 - 128 + 1
        [] byte0 \in 184..191 -> Load(m, ptr + 1)[byte0 - 183] + (byte0 - 183) + 1
        [] byte0 \in 192..247 -> byte0 - 192 + 1
        [] OTHER -> Load(m, ptr + 1)[byte0 - 247] + (byte0 - 247) + 1

PayloadOffset(m, ptr) ==
  LET byte0 == At(m, ptr)
  IN  CASE byte0 < 128 -> 0
        [] byte0 \in 128..183 \cup 192..247 -> 1
        [] byte0 \in 184..191 -> byte0 - 183 + 1
        [] OTHER -> byte0 - 247 + 1

IsList(m, ptr) == At(m, ptr) >= 192

\* An item is its place and its length; toBytes copies its payload.
ToBytes(m, ptr, len) ==
  LET offset == PayloadOffset(m, ptr)
  IN  [i \in 1..(len - offset) |-> At(m, ptr + offset + i - 1)]

ToUint(m, ptr, len) ==
  LET offset == PayloadOffset(m, ptr) IN Load(m, ptr + offset)[len - offset]

\* Mutant: the inner prefix of a word above 127 is taken for a byte of it.
UpdateWithoutInnerPrefix(m, ptr, len) ==
  IF At(m, ptr) > 127 THEN ToUint(m, ptr, len) ELSE At(m, ptr)

\* updateStorageValue: the word in the value part of a leaf, which is encoded
\* twice above 127.
UpdateStorageValue(m, ptr, len) ==
  IF At(m, ptr) > 127 THEN ToUint(m, ptr + 1, len - 1) ELSE At(m, ptr)

\* Where the items of the list at the beginning of m are.
Pointers(m) ==
  LET pointer[i \in Nat] ==
        IF i = 0 THEN 1 + PayloadOffset(m, 1)
        ELSE LET ptr == pointer[i - 1] IN ptr + ItemLength(m, ptr)
  IN  pointer

\* numItems: the loop over them.
NumItems(m) ==
  CHOOSE n \in 0..Len(m) : Pointers(m)[n] > Len(m) /\ \A i \in 0..(n - 1) : Pointers(m)[i] <= Len(m)

-----------------------------------------------------------------------------
VARIABLES
  items,    \* what the caller of the writer means: byte strings
  words,    \* and the storage words they stand for, 0 for none
  encoded,  \* what the writer made of them
  wire,     \* the encoded list, <<>> before there is one
  nextPtr,  \* Iterator.nextPtr, 0 before there is an iterator
  read      \* the items read so far

codecVars == <<items, words, encoded, wire, nextPtr, read>>

CodecInit ==
  /\ items = <<>> /\ words = <<>> /\ encoded = <<>> /\ wire = <<>>
  /\ nextPtr = 0
  /\ read = <<>>

Write(bytes, word, code) ==
  /\ wire = <<>> /\ Len(items) < MaxItems
  /\ items' = Append(items, bytes)
  /\ words' = Append(words, word)
  /\ encoded' = Append(encoded, code)
  /\ UNCHANGED <<wire, nextPtr, read>>

WriteBytes == \E x \in ByteStrings : Write(x, 0, EncodeBytes(x))

\* The leaf of the trie holds the word's encoding, by the definition of RLP.
WriteLeaf ==
  \E x \in Words :
    LET binary == ToBinary(x)
    IN  Write(IF x < 128 THEN binary ELSE <<128 + Len(binary)>> \o binary, x, LeafValue(x))

WriteList ==
  /\ wire = <<>>
  /\ wire' = EncodeList(encoded)
  /\ UNCHANGED <<items, words, encoded, nextPtr, read>>

\* iterator()
Iterator ==
  /\ wire # <<>> /\ nextPtr = 0
  /\ IsList(wire, 1)
  /\ nextPtr' = 1 + PayloadOffset(wire, 1)
  /\ UNCHANGED <<items, words, encoded, wire, read>>

\* hasNext(), next() and toBytes()
ReadNext ==
  /\ nextPtr > 0 /\ nextPtr <= Len(wire)
  /\ LET len == ItemLength(wire, nextPtr)
     IN  /\ read' = Append(read, ToBytes(wire, nextPtr, len))
         /\ nextPtr' = nextPtr + len
  /\ UNCHANGED <<items, words, encoded, wire>>

CodecNext == WriteBytes \/ WriteLeaf \/ WriteList \/ Iterator \/ ReadNext

CodecSpec == CodecInit /\ [][CodecNext]_codecVars

-----------------------------------------------------------------------------
(***************************************************************************)
(* Properties.                                                             *)
(***************************************************************************)
\* The reader gets back the items the writer encoded, in number, order and
\* content, across the boundaries between the short and the long forms.
ReadsWhatWasWritten ==
  /\ wire # <<>> => NumItems(wire) = Len(items)
  /\ nextPtr > Len(wire) /\ wire # <<>> => read = items

\* A word put back into a leaf to rebuild the old trie is the word an update
\* takes out of that leaf, whatever surrounds the leaf in the list.
LeafHoldsItsWord ==
  nextPtr > 0 /\ nextPtr <= Len(wire) /\ Len(read) < Len(words) =>
    LET word == words[Len(read) + 1]
    IN  word # 0 => UpdateStorageValue(wire, nextPtr, ItemLength(wire, nextPtr)) = word

=============================================================================
