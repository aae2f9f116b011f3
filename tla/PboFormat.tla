----------------------------- MODULE PboFormat ------------------------------
(***************************************************************************)
(* The bytes of a PBO: how DocumentWriter lays a document out, what        *)
(* DocumentReader makes of a file, and how an entry is compressed on the   *)
(* way in and unpacked on the way out, block by block.  Steps that may     *)
(* fail, cancels and the files around the PBO are DocumentWriter's.        *)
(*                                                                         *)
(* A file is its headers, its entries, and the bytes behind them.  The     *)
(* bytes of the head are not told apart (each is Unknown), a header or an  *)
(* entry takes one, and so does the signature.  Sizes in the head have     *)
(* SizeBits bits, signed: 32 in the code.                                  *)
(***************************************************************************)
EXTENDS Lzh, FiniteSets, SequencesExt

CONSTANTS
  Names,       \* the titles of the entries, numbered in the order of the tree
  Contents,    \* Contents[n]: the files on the disk that may become entry n
  Foreign,     \* PBOs made by another program
  NoPbo,       \* there is no file yet
  SizeBits,    \* width of a size in the head
  MaxSaves     \* bound on the number of saves

ASSUME NamesAssumption == Names \subseteq Nat \ {0}
ASSUME BitsAssumption  == SizeBits \in Nat \ {0}

Boundary  == 0      \* an empty name
Signature == 257    \* the 20 bytes of the hash

VARIABLES
  pbo,      \* the file at the path
  doc,      \* doc[n]: the binary source of entry n
  pc,
  \* DocumentWriter::writeNode
  name,     \* the entry being written, or unpacked
  body,     \* the bytes in the .b file
  entries,
  infos,    \* binarySources_
  \* Lzh: compress, then decompress
  source, pos, dict, chunk,     \* compress
  target, crc, left, format,    \* decompress
  \* history
  saves,
  added,    \* the entries that were added once
  truth,    \* truth[n]: the bytes entry n stands for
  stored,   \* the same of the entries in the file
  asRead,   \* the document is as it was read, with (1) or without (2) the filter
  harmed    \* a size did not fit, or the data of a skipped entry stayed in the way

fileVars  == <<pbo, saves, added>>
writeVars == <<body, entries, infos>>
packVars  == <<source, pos, dict, chunk>>
unpackVars == <<target, crc, left, format>>
history   == <<truth, stored, asRead, harmed>>
vars == <<fileVars, doc, pc, name, writeVars, packVars, unpackVars, history>>

Size(n) == LET m == 2 ^ SizeBits
               r == n % m
           IN  IF r >= m \div 2 THEN r - m ELSE r

Sum(s) == FoldLeft(LAMBDA a, b : a + b, 0, s)

Entry(n, method, original, size) ==
  [name |-> n, method |-> method, original |-> original, size |-> size]
MakeSignature == Entry(Boundary, "Product", 0, 0)
MakeBoundary  == Entry(Boundary, "Uncompressed", 0, 0)

IsBoundary(e) == e.name = Boundary
IsContent(e)  == (~IsBoundary(e) /\ e.method = "Uncompressed") \/ e.method = "Packed"

-----------------------------------------------------------------------------
(* PboFile *)

HeadLength(f) == Len(f.headers) + Len(f.entries)
FileSize(f)   == HeadLength(f) + Len(f.data)

\* The byte at a position, counted from 0.
ByteAt(f, p) == IF p < HeadLength(f) \/ p >= FileSize(f) THEN Unknown
                ELSE f.data[p - HeadLength(f) + 1]
BytesAt(f, p, n) == [k \in 1 .. n |-> ByteAt(f, p + k - 1)]

\* A seek to a negative position leaves the position as it is.
Seek(p, from) == IF p < 0 THEN from ELSE p

-----------------------------------------------------------------------------
(* PboHeaderReader and DocumentReader *)

BoundaryAfter(f) == {i \in 2 .. Len(f.entries) : IsBoundary(f.entries[i])}

IsPbo(f) ==
  /\ Len(f.entries) > 0
  /\ IF f.entries[1].method = "Product"
     THEN Boundary \in Range(f.headers)
     ELSE IsContent(f.entries[1])
  /\ BoundaryAfter(f) # {}

EntriesOf(f) ==
  SubSeq(f.entries, IF f.entries[1].method = "Product" THEN 2 ELSE 1,
         First(BoundaryAfter(f)) - 1)

\* ZeroSizeFilter, or DummyFilter when the setting is off.
IsJunk(e, filter) ==
  /\ filter
  /\ e.size <= 0 \/ (e.method = "Packed" /\ e.original <= 0)

\* Wrong: the sizes of the entries once unpacked.
OffsetOfUnpacked(f, kept, i) ==
  HeadLength(f) + Sum([k \in 1 .. i - 1 |->
                        IF kept[k].method = "Packed" THEN kept[k].original ELSE kept[k].size])

\* The offset of an entry's data counts the entries that were not skipped.
OffsetOf(f, kept, i) == HeadLength(f) + Sum([k \in 1 .. i - 1 |-> kept[k].size])

Kept(f, filter) == SelectSeq(EntriesOf(f), LAMBDA e : ~IsJunk(e, filter))

\* An entry of a path that was there before takes its node over.
ReadNodes(f, filter) ==
  LET kept   == Kept(f, filter)
      last(n) == CHOOSE i \in DOMAIN kept :
                    /\ kept[i].name = n
                    /\ \A j \in DOMAIN kept : kept[j].name = n => j <= i
  IN  [n \in {kept[i].name : i \in DOMAIN kept} |->
        [kind |-> "pbo", packed |-> kept[last(n)].method = "Packed",
         original |-> kept[last(n)].original, size |-> kept[last(n)].size,
         offset |-> OffsetOf(f, kept, last(n))]]

\* What is read as the signature, one byte behind the end of the data.
ReadSignature(f) ==
  LET end == Seek(HeadLength(f) + Sum([k \in DOMAIN EntriesOf(f) |-> EntriesOf(f)[k].size]) + 1,
                   HeadLength(f))
  IN  IF end >= FileSize(f) THEN "none"
      ELSE IF ByteAt(f, end) = Signature THEN "hash" ELSE "other"

-----------------------------------------------------------------------------
(* Binary sources *)

FsSource(bytes, packed) == [kind |-> "fs", bytes |-> bytes, packed |-> packed]

\* writeRaw of a PboBinarySource gives nothing for a negative size, and throws
\* at the end of the file.
RawFails(s) == s.size > 0 /\ Seek(s.offset, 0) + s.size > FileSize(pbo)
RawBytes(s) == IF s.kind = "fs" THEN s.bytes ELSE BytesAt(pbo, Seek(s.offset, 0), s.size)

OriginalSize(s) == IF s.kind = "fs" THEN Size(Len(s.bytes)) ELSE s.original

-----------------------------------------------------------------------------
(* The document is edited. *)

\* The entries of a file made elsewhere: the bytes that lie where its head says,
\* and of packed ones the empty ones only.
Laid(f) ==
  LET e == EntriesOf(f)
      last(n) == CHOOSE i \in DOMAIN e :
                   e[i].name = n /\ \A j \in DOMAIN e : e[j].name = n => j <= i
  IN  [n \in {e[i].name : i \in DOMAIN e} |->
        BytesAt(f, OffsetOf(f, e, last(n)), e[last(n)].size)]

None  == [n \in {} |-> {}]

NoChunk == [n |-> 0, format |-> 0, data |-> << >>]

Init ==
  /\ \/ pbo = NoPbo
     \/ pbo \in Foreign
  /\ doc = None /\ truth = None /\ asRead = 0 /\ harmed = FALSE
  /\ stored = IF pbo \in Foreign /\ IsPbo(pbo) THEN Laid(pbo) ELSE None
  /\ pc = "edit" /\ name = Boundary /\ saves = 0 /\ added = {}
  /\ body = << >> /\ entries = << >> /\ infos = None
  /\ source = << >> /\ pos = 0 /\ dict = << >> /\ chunk = NoChunk
  /\ target = << >> /\ crc = 0 /\ left = 0 /\ format = <<0, 0>>

\* Bounds: each entry is added once, and to a document of the program's own.
AddFile(n, bytes, packed) ==
  /\ pc = "edit" /\ n \notin DOMAIN doc /\ saves < MaxSaves
  /\ n \notin added /\ pbo \notin Foreign
  /\ added' = added \cup {n}
  /\ doc' = (n :> FsSource(bytes, packed)) @@ doc
  /\ truth' = (n :> bytes) @@ truth
  /\ asRead' = 0
  /\ UNCHANGED <<pbo, saves, pc, name, writeVars, packVars, unpackVars, stored, harmed>>

RemoveFile(n) ==
  /\ pc = "edit" /\ n \in DOMAIN doc /\ saves < MaxSaves
  /\ doc' = [m \in DOMAIN doc \ {n} |-> doc[m]]
  /\ truth' = [m \in DOMAIN truth \ {n} |-> truth[m]]
  /\ asRead' = 0
  /\ UNCHANGED <<fileVars, pc, name, writeVars, packVars, unpackVars, stored, harmed>>

-----------------------------------------------------------------------------
(* DocumentWriter::writeInternal *)

Todo == {n \in DOMAIN doc : n > name}
Current == First(Todo)

Save ==
  /\ pc = "edit" /\ saves < MaxSaves
  /\ pc' = "write" /\ name' = Boundary
  /\ body' = << >> /\ entries' = << >> /\ infos' = None
  /\ UNCHANGED <<fileVars, doc, packVars, unpackVars, history>>

\* The entry is written: what its node will read from, and what the head says.
Written(n, bytes) ==
  LET s    == doc[n]
      size == Size(Len(bytes))
  IN  /\ body' = body \o bytes
      /\ entries' = Append(entries, Entry(n, IF s.packed THEN "Packed" ELSE "Uncompressed",
                                          OriginalSize(s), size))
      /\ infos' = (n :> [kind |-> "pbo", packed |-> s.packed, original |-> OriginalSize(s),
                         size |-> size, offset |-> Len(body)]) @@ infos
      /\ harmed' = (harmed \/ size # Len(bytes)
                         \/ (s.kind = "fs" /\ OriginalSize(s) # Len(s.bytes)))
      /\ name' = n

WriteRaw ==
  /\ pc = "write" /\ Todo # {}
  /\ doc[Current].kind = "fs" => ~doc[Current].packed
  /\ doc[Current].kind = "pbo" => ~RawFails(doc[Current])
  /\ Written(Current, RawBytes(doc[Current]))
  /\ UNCHANGED <<fileVars, doc, pc, packVars, unpackVars, truth, stored, asRead>>

\* DiskAccessException: the save ends, and the document stays as it was.
RawThrows ==
  /\ pc = "write" /\ Todo # {}
  /\ doc[Current].kind = "pbo" /\ RawFails(doc[Current])
  /\ pc' = "edit" /\ name' = Boundary
  /\ body' = << >> /\ entries' = << >> /\ infos' = None
  /\ UNCHANGED <<fileVars, doc, packVars, unpackVars, history>>

\* The .t file is put together and moved to the path; the nodes get sources
\* whose offsets count from its beginning (writeHeader, assignBinarySources).
FinishSave ==
  /\ pc = "write" /\ Todo = {}
  /\ pbo' = [headers |-> <<Boundary>>,
             entries |-> <<MakeSignature>> \o entries \o <<MakeBoundary>>,
             data    |-> body \o <<0, Signature>>]
  /\ doc' = [n \in DOMAIN infos |-> [infos[n] EXCEPT !.offset = @ + HeadLength(pbo')]]
  /\ truth' = [n \in DOMAIN doc |-> truth[n]] /\ stored' = truth'
  /\ pc' = "edit" /\ name' = Boundary /\ asRead' = 0
  /\ body' = << >> /\ entries' = << >> /\ infos' = None
  /\ saves' = saves + 1 /\ UNCHANGED added
  /\ UNCHANGED <<packVars, unpackVars, harmed>>

-----------------------------------------------------------------------------
(* Lzh::compress *)

StartPack ==
  /\ pc = "write" /\ Todo # {}
  /\ doc[Current].kind = "fs" /\ doc[Current].packed
  /\ pc' = "pack" /\ source' = doc[Current].bytes
  /\ pos' = 0 /\ dict' = << >> /\ chunk' = NoChunk /\ target' = << >>
  /\ UNCHANGED <<fileVars, doc, name, writeVars, crc, left, format, history>>

AtEnd == pos = Len(source)

PackBlock ==
  /\ pc = "pack" /\ ~AtEnd /\ chunk.n < ChunkBlocks
  /\ LET size  == IF Len(source) - pos < MaxChunk THEN Len(source) - pos ELSE MaxChunk
         next  == SubSeq(source, pos + 1, pos + size)
         block == Compose(dict, next, pos)
         bytes == SubSeq(next, 1, block.length)
     IN  /\ dict' = Add(dict, bytes)
         /\ pos' = pos + block.length
         /\ chunk' = [n      |-> chunk.n + 1,
                      format |-> chunk.format + IF block.offset = 0 THEN 2 ^ chunk.n ELSE 0,
                      data   |-> chunk.data \o IF block.offset = 0 THEN bytes
                                               ELSE PointerBytes(block)]
  /\ UNCHANGED <<fileVars, doc, pc, name, writeVars, source, unpackVars, history>>

\* target: the bytes packed so far.
FlushChunk ==
  /\ pc = "pack" /\ chunk.n > 0 /\ (chunk.n = ChunkBlocks \/ AtEnd)
  /\ target' = target \o <<chunk.format>> \o chunk.data
  /\ chunk' = NoChunk
  /\ UNCHANGED <<fileVars, doc, pc, name, writeVars, source, pos, dict,
                 crc, left, format, history>>

CrcBytes(c) == [k \in 1 .. 4 |-> (c \div 256 ^ (k - 1)) % 256]

PackEnds ==
  /\ pc = "pack" /\ AtEnd /\ chunk.n = 0
  /\ Written(Current, target \o CrcBytes(Sum(source)))
  /\ pc' = "write"
  /\ source' = << >> /\ pos' = 0 /\ dict' = << >> /\ target' = << >>
  /\ UNCHANGED <<fileVars, doc, chunk, crc, left, format, truth, stored, asRead>>

-----------------------------------------------------------------------------
(* DocumentReader::read *)

\* An entry is skipped that has data, and one behind it is not.
Shifted(f, filter) ==
  LET e == EntriesOf(f)
  IN  \E i, j \in DOMAIN e :
        i < j /\ IsJunk(e[i], filter) /\ e[i].size # 0 /\ ~IsJunk(e[j], filter)

Open(filter) ==
  /\ pc = "edit" /\ pbo # NoPbo /\ IsPbo(pbo)
  /\ doc' = ReadNodes(pbo, filter)
  /\ truth' = stored
  /\ asRead' = IF filter THEN 1 ELSE 2
  /\ harmed' = (harmed \/ Shifted(pbo, filter))
  /\ UNCHANGED <<fileVars, pc, name, writeVars, packVars, unpackVars, stored>>

\* PboFileFormatException: the document is gone, and none comes in its place.
OpenRefused ==
  /\ pc = "edit" /\ pbo # NoPbo /\ ~IsPbo(pbo)
  /\ doc' = None /\ truth' = None /\ asRead' = 0
  /\ UNCHANGED <<fileVars, pc, name, writeVars, packVars, unpackVars, stored, harmed>>

-----------------------------------------------------------------------------
(* PboBinarySource::writeToFs and Lzh::decompress; pos is the position in the *)
(* PBO, and left the number of bytes still to come.                          *)

ExtractRaw(n) ==
  /\ pc = "edit" /\ n \in DOMAIN doc /\ doc[n].kind = "pbo" /\ ~doc[n].packed
  /\ ~RawFails(doc[n])
  /\ pc' = "extracted" /\ name' = n /\ target' = RawBytes(doc[n])
  /\ UNCHANGED <<fileVars, doc, writeVars, packVars, crc, left, format, history>>

StartUnpack(n) ==
  /\ pc = "edit" /\ n \in DOMAIN doc /\ doc[n].kind = "pbo" /\ doc[n].packed
  /\ pc' = "unpack" /\ name' = n
  /\ pos' = Seek(doc[n].offset, 0)
  /\ target' = << >> /\ crc' = 0 /\ left' = doc[n].original /\ format' = <<0, 0>>
  /\ UNCHANGED <<fileVars, doc, writeVars, source, dict, chunk, history>>

\* format: the format byte, and how many of its bits are still to be used.
Blocked == left <= 0 \/ pos >= FileSize(pbo) - 2 \/ format[2] = 0

ReadFormat ==
  /\ pc = "unpack" /\ Blocked /\ left > 0 /\ pos < FileSize(pbo)
  /\ format' = <<ByteAt(pbo, pos), ChunkBlocks>>
  /\ pos' = pos + 1
  /\ UNCHANGED <<fileVars, doc, pc, name, writeVars, source, dict, chunk,
                 target, crc, left, history>>

UnpackBlock ==
  /\ pc = "unpack" /\ ~Blocked
  /\ LET literal == format[1] % 2 = 1
         one     == ByteAt(pbo, pos)
         two     == ByteAt(pbo, pos + 1)
     IN  /\ pos' = pos + IF literal THEN 1 ELSE 2
         /\ target' = IF literal THEN Append(target, one)
                      ELSE WritePointer(target, OffsetIn(one, two), LengthIn(two))
  /\ crc' = crc + Sum(SubSeq(target', Len(target) + 1, Len(target')))
  /\ left' = left - (Len(target') - Len(target))
  /\ format' = <<format[1] \div 2, format[2] - 1>>
  /\ UNCHANGED <<fileVars, doc, pc, name, writeVars, source, dict, chunk, history>>

\* A sum that differs makes writeToFs begin again with the bytes as they are.
IsValid == /\ FileSize(pbo) - pos >= 4
           /\ BytesAt(pbo, pos, 4) = CrcBytes(crc)

UnpackEnds ==
  /\ pc = "unpack" /\ (left <= 0 \/ pos >= FileSize(pbo))
  /\ pc' = IF IsValid \/ ~RawFails(doc[name]) THEN "extracted" ELSE "edit"
  /\ name' = IF pc' = "edit" THEN Boundary ELSE name
  /\ target' = IF IsValid THEN target
               ELSE IF RawFails(doc[name]) THEN << >> ELSE RawBytes(doc[name])
  /\ pos' = 0 /\ crc' = 0 /\ left' = 0 /\ format' = <<0, 0>>
  /\ UNCHANGED <<fileVars, doc, writeVars, source, dict, chunk, history>>

Extracted ==
  /\ pc = "extracted"
  /\ pc' = "edit" /\ name' = Boundary /\ target' = << >>
  /\ UNCHANGED <<fileVars, doc, writeVars, packVars, crc, left, format, history>>

Next ==
  \/ \E n \in Names : \E c \in Contents[n], packed \in BOOLEAN : AddFile(n, c, packed)
  \/ \E n \in Names : RemoveFile(n) \/ ExtractRaw(n) \/ StartUnpack(n)
  \/ Save \/ WriteRaw \/ RawThrows \/ FinishSave
  \/ StartPack \/ PackBlock \/ FlushChunk \/ PackEnds
  \/ \E filter \in BOOLEAN : Open(filter)
  \/ OpenRefused
  \/ ReadFormat \/ UnpackBlock \/ UnpackEnds \/ Extracted

Spec == Init /\ [][Next]_vars

-----------------------------------------------------------------------------
(* Properties.  A size that does not fit in the head, and an entry that the   *)
(* filter skips although it has data, are left out (harmed): what the code    *)
(* makes of them is wrong, and the run reaches them.                          *)

\* A file that was read gives every entry that was saved, but for those the
\* filter takes for junk, with the bytes of its own and none of a neighbour,
\* and the signature where the reader looks for it: what DocumentWriter and
\* DocumentReader each compute from sums of sizes agrees.
ReadsWhatWasWritten ==
  asRead # 0 /\ ~harmed =>
    /\ saves > 0 => ReadSignature(pbo) = "hash"
    /\ DOMAIN doc = {n \in DOMAIN truth : asRead = 1 => truth[n] # << >>}
    /\ \A n \in DOMAIN doc :
         /\ doc[n].packed => doc[n].original = Len(truth[n])
         /\ ~doc[n].packed => RawBytes(doc[n]) = truth[n]

\* An entry that was extracted has the bytes of the file it was made from:
\* through compress and decompress, through saves of a packed entry that only
\* move it, by the sources the writer assigned and by those the reader made.
ExtractedIsOriginal ==
  pc = "extracted" /\ ~harmed /\ name \in DOMAIN truth => target = truth[name]

=============================================================================
