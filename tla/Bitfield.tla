-------------------------------- MODULE Bitfield --------------------------------
(***************************************************************************)
(* A tr_bitfield (bitfield.c): the blocks of a torrent, and the pieces of  *)
(* a peer.  It keeps an array of bytes that is as long as the highest bit  *)
(* needed, no array at all when it has all or none, the count of its bits, *)
(* and, when it was made before the metadata came and does not know how    *)
(* many bits it has, a hint that it has all or none.                       *)
(*                                                                         *)
(* `owner' says whose it is.  What is done to it is what peer-msgs.c does  *)
(* with the pieces of a peer, and completion.c and resume.c with blocks.   *)
(***************************************************************************)
EXTENDS Integers, FiniteSets, FiniteSetsExt

CONSTANTS
  Width,        \* bits in a byte, 8 in the code
  Bits,         \* the pieces or blocks of the torrent
  BitsPerPiece, \* the blocks of a piece
  MaxHaves      \* bound: the count of bits grows no further

BitfieldAssumption ==
  /\ Width \in Nat \ {0} /\ Bits \in Nat \ {0} /\ BitsPerPiece \in Nat \ {0}
  /\ MaxHaves \in Nat

VARIABLES
  owner,     \* "torrent" or "peer"
  field,     \* the tr_bitfield
  metadata,  \* tr_torrentHasMetadata
  isSeed,    \* tr_peerUpdateProgress has called atomSetSeed
  told       \* history: the bits that were given, whether they were all once, and what is
             \* `said': nothing, something, or something that is lost

bitVars == <<owner, field, metadata, isSeed, told>>

All == 0 .. Bits - 1
Byte(n) == n \div Width
get_bytes_needed(count) == (count + Width - 1) \div Width

HasAll(b) == IF b.bit_count > 0 THEN b.true_count = b.bit_count ELSE b.have_all_hint
HasNone(b) == IF b.bit_count > 0 THEN b.true_count = 0 ELSE b.have_none_hint
Has(b, n) == HasAll(b) \/ (~HasNone(b) /\ n \in b.bits)

Construct(count) == [bits |-> {}, alloc_count |-> 0, bit_count |-> count, true_count |-> 0,
                     have_all_hint |-> FALSE, have_none_hint |-> FALSE]

FreeArray(b) == [b EXCEPT !.bits = {}, !.alloc_count = 0]

SetHasNone(b) == [FreeArray(b) EXCEPT !.true_count = 0, !.have_all_hint = FALSE,
                                      !.have_none_hint = TRUE]
SetHasAll(b) == [FreeArray(b) EXCEPT !.true_count = b.bit_count, !.have_all_hint = TRUE,
                                     !.have_none_hint = FALSE]

SetTrueCount(b, n) ==
  LET counted == [b EXCEPT !.true_count = n]
  IN IF HasAll(counted) \/ HasNone(counted) THEN FreeArray(counted) ELSE counted

\* countRange looks at the first byte, at those between, and at the last one, as far as the
\* array goes.
In(b, bytes, range) == Cardinality({n \in b.bits : Byte(n) \in bytes /\ n \in range})
countRange(b, begin, end) ==
  LET first == Byte(begin)
      last == Byte(end - 1)
      walkEnd == Min({b.alloc_count, last})
  IN IF b.bit_count = 0 \/ first >= b.alloc_count THEN 0
     ELSE IF first = last THEN In(b, {first}, begin .. end - 1)
     ELSE In(b, {first}, begin .. (first + 1) * Width - 1)
          + In(b, first + 1 .. walkEnd - 1, b.bits)
          + IF last < b.alloc_count THEN In(b, {last}, last * Width .. end - 1) ELSE 0

CountRange(b, begin, end) ==
  IF HasAll(b) THEN end - begin
  ELSE IF HasNone(b) THEN 0
  ELSE countRange(b, begin, end)

\* The array that is made for a bitfield that has all is filled.
EnsureBitsAlloced(b, n) ==
  LET needed == get_bytes_needed(IF HasAll(b) THEN Max({n, b.true_count}) ELSE n)
  IN IF b.alloc_count >= needed THEN b
     ELSE [b EXCEPT !.alloc_count = needed,
                    !.bits = IF HasAll(b) THEN 0 .. b.true_count - 1 ELSE @]
EnsureNthBitAlloced(b, nth) == EnsureBitsAlloced(b, nth + 1)

Add(b, nth) ==
  IF Has(b, nth) THEN b
  ELSE LET room == EnsureNthBitAlloced(b, nth)
       IN SetTrueCount([room EXCEPT !.bits = @ \union {nth}], b.true_count + 1)

AddRange(b, begin, end) ==
  LET diff == (end - begin) - CountRange(b, begin, end)
      room == EnsureNthBitAlloced(b, end - 1)
  IN IF diff = 0 \/ end > b.bit_count \/ begin >= end THEN b
     ELSE SetTrueCount([room EXCEPT !.bits = @ \union (begin .. end - 1)], b.true_count + diff)

RemRange(b, begin, end) ==
  LET diff == CountRange(b, begin, end)
      room == EnsureNthBitAlloced(b, end - 1)
  IN IF diff = 0 \/ end > b.bit_count \/ begin >= end THEN b
     ELSE SetTrueCount([room EXCEPT !.bits = @ \ (begin .. end - 1)], b.true_count - diff)

\* `bounded' cuts the array to the bits that there are, of which it may not have fewer.
SetRaw(b, raw, byteCount, bounded) ==
  LET bytes == IF bounded THEN Min({byteCount, get_bytes_needed(b.bit_count)}) ELSE byteCount
      kept == {n \in raw : Byte(n) < bytes /\ (bounded => n < b.bit_count)}
  IN SetTrueCount([b EXCEPT !.bits = kept, !.alloc_count = bytes], Cardinality(kept))

SetFromBitfield(b, src) ==
  IF HasAll(src) THEN SetHasAll(b)
  ELSE IF HasNone(src) THEN SetHasNone(b)
  ELSE SetRaw(b, src.bits, src.alloc_count, TRUE)

SetFromFlags(b, set, n) ==
  LET room == EnsureBitsAlloced(FreeArray(b), n)
  IN SetTrueCount([room EXCEPT !.bits = @ \union set], Cardinality(set))

\* The bits of the array that is made of it, get_bytes_needed(bit_count) bytes.
GetRaw(b) ==
  IF b.alloc_count > 0 THEN b.bits ELSE IF HasAll(b) THEN 0 .. b.bit_count - 1 ELSE {}

(***************************************************************************)
(* The blocks of a torrent.                                                *)
(***************************************************************************)
PieceTotal == (Bits + BitsPerPiece - 1) \div BitsPerPiece
First(p) == p * BitsPerPiece
Last(p) == Min({(p + 1) * BitsPerPiece, Bits}) - 1

\* tr_cpPieceIsComplete, and the pieces that are sent to a peer.
PieceIsComplete(p) == CountRange(field, First(p), Last(p) + 1) = Last(p) + 1 - First(p)
CreatePieceBitfield ==
  LET none == Construct(PieceTotal)
      complete == {p \in 0 .. PieceTotal - 1 : PieceIsComplete(p)}
  IN GetRaw(IF HasAll(field) THEN SetHasAll(none)
            ELSE IF HasNone(field) THEN none
            ELSE SetFromFlags(none, complete, PieceTotal))

\* What bitfieldToBenc saves, and what loadProgress makes of it.
Saved(b) == IF HasAll(b) THEN [kind |-> "all", raw |-> {}]
            ELSE IF HasNone(b) THEN [kind |-> "none", raw |-> {}]
            ELSE [kind |-> "raw", raw |-> GetRaw(b)]
Loaded(saved) ==
  LET blocks == Construct(Bits)
  IN IF saved.kind = "all" THEN SetHasAll(blocks)
     ELSE IF saved.kind = "none" THEN SetHasNone(blocks)
     ELSE SetRaw(blocks, saved.raw, get_bytes_needed(Bits), TRUE)

Give(set, lost) ==
  told' = [bits |-> set, all |-> told.all \/ set = All,
           said |-> IF lost \/ told.said = "lost" THEN "lost" ELSE "something"]

tr_cpBlockAdd(n) ==
  /\ ~Has(field, n)
  /\ field' = Add(field, n) /\ Give(told.bits \union {n}, FALSE)
  /\ UNCHANGED <<owner, metadata, isSeed>>

tr_cpPieceRem(p) ==
  /\ field' = RemRange(field, First(p), Last(p) + 1)
  /\ Give(told.bits \ (First(p) .. Last(p)), FALSE)
  /\ UNCHANGED <<owner, metadata, isSeed>>

\* tr_cpBlockInit with the blocks of the .resume file, in which spare bits may be set.
tr_cpBlockInit(saved) ==
  /\ field' = SetFromBitfield(SetHasNone(field), Loaded(saved))
  /\ Give(IF saved.kind = "all" THEN All ELSE saved.raw \intersect All, FALSE)
  /\ UNCHANGED <<owner, metadata, isSeed>>

Raws == SUBSET (0 .. get_bytes_needed(Bits) * Width - 1)
SavedBlocks == {[kind |-> k, raw |-> {}] : k \in {"all", "none"}}
               \union {[kind |-> "raw", raw |-> r] : r \in Raws}

(***************************************************************************)
(* The pieces of a peer.                                                   *)
(***************************************************************************)
\* tr_peerUpdateProgress takes a peer for a seed when its progress, clamped, is 1: all of the
\* pieces, or, as long as nobody knows how many there are, more than bit_count of them.
IsDone(b, known) ==
  \/ HasAll(b)
  \/ /\ ~HasNone(b)
     /\ b.true_count >= IF known THEN Bits ELSE b.bit_count + 1
Update(b, known) == isSeed' = (isSeed \/ IsDone(b, known))

\* A peer tells of all that it has at most once, before anything else.
GotHave(n) ==
  /\ field.true_count < MaxHaves
  /\ field' = Add(field, n) /\ Give(told.bits \union {n}, FALSE)
  /\ Update(field', metadata)
  /\ UNCHANGED <<owner, metadata>>

GotBitfield(raw) ==
  /\ told.said = "nothing"
  /\ field' = SetRaw(field, raw, get_bytes_needed(Bits), metadata)
  /\ Give(raw \intersect All, metadata /\ field.bit_count = 0)
  /\ Update(field', metadata)
  /\ UNCHANGED <<owner, metadata>>

GotHaveAll ==
  /\ told.said = "nothing"
  /\ field' = SetHasAll(field) /\ Give(All, FALSE)
  /\ Update(field', metadata)
  /\ UNCHANGED <<owner, metadata>>

GotHaveNone ==
  /\ told.said = "nothing"
  /\ field' = SetHasNone(field) /\ Give({}, field.bit_count = 0)
  /\ Update(field', metadata)
  /\ UNCHANGED <<owner, metadata>>

\* tr_peerMgrOnTorrentGotMetainfo: bit_count stays what it was.
GotMetainfo ==
  /\ ~metadata /\ metadata' = TRUE
  /\ Update(field, TRUE)
  /\ UNCHANGED <<owner, field, told>>

(***************************************************************************)
(* The specification.                                                      *)
(***************************************************************************)
Init ==
  /\ isSeed = FALSE /\ told = [bits |-> {}, all |-> FALSE, said |-> "nothing"]
  /\ \/ owner = "torrent" /\ metadata = TRUE /\ field = SetHasNone(Construct(Bits))
     \/ /\ owner = "peer" /\ metadata \in BOOLEAN
        /\ field = Construct(IF metadata THEN Bits ELSE 0)

TorrentNext ==
  /\ owner = "torrent"
  /\ \/ \E n \in All : tr_cpBlockAdd(n)
     \/ \E p \in 0 .. PieceTotal - 1 : tr_cpPieceRem(p)
     \/ \E saved \in SavedBlocks : tr_cpBlockInit(saved)

PeerNext ==
  /\ owner = "peer"
  /\ \/ \E n \in All : GotHave(n)
     \/ \E raw \in Raws : GotBitfield(raw)
     \/ GotHaveAll \/ GotHaveNone \/ GotMetainfo

Next == TorrentNext \/ PeerNext

Spec == Init /\ [][Next]_bitVars

(***************************************************************************)
(* Properties.                                                             *)
(***************************************************************************)
TypeOK ==
  /\ owner \in {"torrent", "peer"} /\ metadata \in BOOLEAN /\ isSeed \in BOOLEAN
  /\ field \in [bits : Raws, alloc_count : 0 .. get_bytes_needed(Bits), bit_count : {0, Bits},
                true_count : 0 .. MaxHaves, have_all_hint : BOOLEAN, have_none_hint : BOOLEAN]
  /\ told \in [bits : SUBSET All, all : BOOLEAN, said : {"nothing", "something", "lost"}]

\* A bitfield that was made when the number of its bits was known holds what was put into it
\* and not taken out, however that is asked for, and with whatever array is allocated
\* (tr_bitfieldHas, HasAll, HasNone, CountTrueBits, CountRange, GetRaw).
HoldsItsBits ==
  field.bit_count > 0 =>
    /\ \A n \in All : Has(field, n) <=> n \in told.bits
    /\ HasAll(field) <=> told.bits = All
    /\ HasNone(field) <=> told.bits = {}
    /\ field.true_count = Cardinality(told.bits)
    /\ \A begin \in All : \A end \in begin + 1 .. Bits :
         CountRange(field, begin, end) = Cardinality(told.bits \intersect (begin .. end - 1))
    /\ GetRaw(field) = told.bits

\* Adding or removing any range does that, and nothing else, to any bitfield that the program
\* can get to (tr_bitfieldAddRange, of which only the tests make use, and tr_bitfieldRemRange).
RangesAreExact ==
  field.bit_count > 0 =>
    \A begin \in All : \A end \in begin + 1 .. Bits :
      LET range == begin .. end - 1
          more == AddRange(field, begin, end)
          fewer == RemRange(field, begin, end)
      IN /\ \A n \in All : Has(more, n) <=> n \in told.bits \union range
         /\ \A n \in All : Has(fewer, n) <=> n \in told.bits \ range
         /\ more.true_count = Cardinality(told.bits \union range)
         /\ fewer.true_count = Cardinality(told.bits \ range)

\* What is saved in the .resume file is loaded as it was, and the pieces that are sent to a peer
\* are the ones of which all blocks are there (bitfieldToBenc, tr_cpCreatePieceBitfield).
SavedIsLoaded ==
  owner = "torrent" =>
    /\ \A n \in All : Has(SetFromBitfield(field, Loaded(Saved(field))), n) <=> n \in told.bits
    /\ CreatePieceBitfield =
         {p \in 0 .. PieceTotal - 1 : First(p) .. Last(p) \subseteq told.bits}

\* A bitfield that was made without their number makes up none, so that nobody asks a peer for
\* a piece that it has not told of; and it loses what it was told only if that was that the
\* peer has none, or a bitfield that came when the metadata were there: the hint, or the bound
\* of no bits, is all that it keeps then.  A peer that is taken for a seed has told of all
\* pieces once, if their number was known when it came (tr_peerUpdateProgress).
NothingIsMadeUp ==
  /\ \A n \in All : Has(field, n) => n \in told.bits
  /\ told.said # "lost" => \A n \in told.bits : Has(field, n)
  /\ field.bit_count > 0 /\ isSeed => told.all
================================================================================
