-------------------------------- MODULE Lzh ---------------------------------
(***************************************************************************)
(* The compression of the entries of a PBO (pbom/io/lzh): which block      *)
(* compress makes of the next bytes of a file, the bytes a block takes in  *)
(* the stream, and what decompress makes of a block.  The two are operators*)
(* on sequences of bytes; PboFormat runs them, block by block.             *)
(*                                                                         *)
(* The sizes the code writes as literals are constants: 4095 bytes of      *)
(* dictionary, pointers to 3..18 bytes, 8 blocks to a format byte, 12 bits *)
(* of offset (256 * 16) beside 4 bits of length.                           *)
(***************************************************************************)
EXTENDS Integers, Sequences

CONSTANTS
  BufferSize,   \* CompressionBuffer::defaultSize
  MinPack,      \* minBytesToPack_
  MaxChunk,     \* maxChunkSize_
  ChunkBlocks,  \* chunks_: blocks that share a format byte
  LowRange,     \* values of the low byte of a pointer
  HighRange     \* values of the rest of the offset

ASSUME SizesAssumption ==
  /\ BufferSize \in Nat /\ MinPack \in Nat \ {0} /\ MaxChunk \in Nat
  /\ ChunkBlocks \in Nat \ {0}
  /\ LowRange \in Nat \ {0} /\ HighRange \in Nat \ {0}
  /\ MinPack <= MaxChunk /\ MaxChunk < BufferSize
  /\ BufferSize < LowRange * HighRange

Byte  == 0 .. 255
Space == 32

\* maxOffsetToUseWhitespaces_; the values of the length in a pointer.
MaxSpaceOffset == BufferSize - MaxChunk
LengthRange    == MaxChunk - MinPack + 1

Longest(S)     == CHOOSE n \in S : \A m \in S : m <= n
First(S)       == CHOOSE n \in S : \A m \in S : n <= m
LastBytes(s, n) == SubSeq(s, Len(s) - n + 1, Len(s))

\* The bytes of s over and over, n of them.
Cycle(s, n) == [k \in 1 .. n |-> s[((k - 1) % Len(s)) + 1]]
Spaces(n)   == [k \in 1 .. n |-> Space]

\* How many bytes a and b have in common at their beginnings.
Agreeing(a, b) == {n \in 0 .. Len(a) : /\ n <= Len(b)
                                       /\ \A k \in 1 .. n : a[k] = b[k]}
Common(a, b)   == Longest(Agreeing(a, b))

-----------------------------------------------------------------------------
(* The dictionary: the bytes the next ones may be like. *)

\* Wrong: a full dictionary keeps its oldest bytes.
AddToOldest(dict, bytes) ==
  IF Len(dict) + Len(bytes) > BufferSize
  THEN SubSeq(dict, 1, BufferSize - Len(bytes)) \o bytes
  ELSE dict \o bytes

Add(dict, bytes) ==
  IF Len(dict) + Len(bytes) > BufferSize
  THEN LastBytes(dict, BufferSize - Len(bytes)) \o bytes
  ELSE dict \o bytes

MatchAt(dict, next, position) ==
  Common(next, SubSeq(dict, position + 1, Len(dict)))

\* The longest match, the first of several; no position: length 0.
Intersect(dict, next) ==
  LET positions == 0 .. Len(dict) - 1
      length    == Longest({MatchAt(dict, next, p) : p \in positions} \cup {0})
  IN  IF length = 0
      THEN [position |-> -1, length |-> 0]
      ELSE [position |-> First({p \in positions : MatchAt(dict, next, p) = length}),
            length   |-> length]

CheckWhitespace(next) == Common(next, Spaces(Len(next)))

\* The last bytes of the dictionary, repeated: the fewest that serve the longest.
SequenceOf(dict, next, bytes) ==
  Common(next, Cycle(LastBytes(dict, bytes), Len(next)))
CheckSequence(dict, next) ==
  LET most   == IF Len(dict) < Len(next) THEN Len(dict) ELSE Len(next)
      counts == 1 .. most - 1
      length == Longest({SequenceOf(dict, next, b) : b \in counts} \cup {0})
  IN  IF length = 0
      THEN [sequenceBytes |-> 0, sourceBytes |-> 0]
      ELSE [sequenceBytes |-> First({b \in counts : SequenceOf(dict, next, b) = length}),
            sourceBytes   |-> length]

-----------------------------------------------------------------------------
(* A block is a byte as it is (offset 0) or a pointer into what is already *)
(* unpacked; length is what it stands for.                                 *)

Uncompressed == [offset |-> 0, length |-> 1]

\* pos: bytes of the source before next.
Compose(dict, next, pos) ==
  LET inter == Intersect(dict, next)
      space == IF pos < MaxSpaceOffset THEN CheckWhitespace(next) ELSE 0
      seq   == CheckSequence(dict, next)
      best  == Longest({inter.length, space, seq.sourceBytes})
  IN  IF Len(next) < MinPack \/ best < MinPack
      THEN Uncompressed
      ELSE IF inter.length = best
      THEN [offset |-> Len(dict) - inter.position, length |-> inter.length]
      ELSE IF space = best
      THEN [offset |-> pos + space, length |-> space]
      ELSE [offset |-> seq.sequenceBytes, length |-> seq.sourceBytes]

PointerBytes(block) ==
  << block.offset % LowRange,
     ((block.offset \div LowRange) % HighRange) * LengthRange
        + (block.length - MinPack) >>

OffsetIn(low, high) == low + (high \div LengthRange) * LowRange
LengthIn(high)      == (high % LengthRange) + MinPack

-----------------------------------------------------------------------------
(* What decompress makes of a block, given what it has unpacked so far.    *)

\* An offset of 0, which no compressed file has, repeats what the buffer of the
\* context happens to hold.
Unknown == 256

WritePointer(target, offset, length) ==
  LET rpos   == Len(target) - offset
      lead   == IF rpos >= 0 THEN 0 ELSE IF rpos + length < 0 THEN length ELSE -rpos
      filled == target \o Spaces(lead)
      from   == IF rpos < 0 THEN 0 ELSE rpos
      rest   == length - lead
      chunk  == IF from + rest > Len(filled) THEN Len(filled) - from ELSE rest
  IN  IF rest <= 0 THEN filled
      ELSE IF chunk = 0 THEN filled \o [k \in 1 .. rest |-> Unknown]
      ELSE filled \o Cycle(SubSeq(filled, from + 1, from + chunk), rest)

=============================================================================
