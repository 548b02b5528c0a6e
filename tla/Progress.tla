-------------------------------- MODULE Progress --------------------------------
(***************************************************************************)
(* How far a torrent has got (completion.c, torrent.c): which of its       *)
(* blocks are there, which files are wanted and how much, how large it     *)
(* will be when it is done, and when it has seeded enough.                 *)
(*                                                                         *)
(* A layout is the lengths of the files, in bytes, of which a block and a  *)
(* piece hold a few.  All of it runs in the event thread, but for the      *)
(* selection of files and the statistics, which take the session's lock.   *)
(***************************************************************************)
EXTENDS Integers, FiniteSets, FiniteSetsExt, SequencesExt

CONSTANTS
  Layouts,     \* sequences of lengths
  BlockSize, PieceSize,
  Priorities,  \* of files: -1, 0 or 1
  Wishes,      \* what can be asked for a file: dnd or not
  Ratios,      \* the seed ratios that can be set, 0 being none
  IdleLimits,  \* the limits of idle seeding, 0 being none
  MaxDown, MaxUp, MaxIdle

VARIABLES
  layout,    \* [length, offset, totalSize]: of tr_info and of its files
  have,      \* blockBitfield
  file,      \* [dnd, priority] of each file
  piece,     \* [dnd, priority] of each piece
  sizes,     \* [now, whenDone, valid] of tr_completion, the last two Dirty or cached
  progress,  \* [completeness, needsCheck, running, stopping, byIdle, idle]
  bytes,     \* [cur, prev, up]: downloadedCur, downloadedPrev and all that was uploaded
  limits,    \* [ratio, idle]: the ones that apply to this torrent
  changed    \* history: what has changed behind the completeness ("blocks") and the "limits"

progressVars == <<layout, have, file, piece, sizes, progress, bytes, limits, changed>>

Dirty == -1

(***************************************************************************)
(* The geometry.                                                           *)
(***************************************************************************)
Files == DOMAIN layout.length
SumOf(S, f(_)) == FoldSet(LAMBDA x, sum : sum + f(x), 0, S)
Length(f) == layout.length[f]
Offset(f) == layout.offset[f]
TotalSize == layout.totalSize

\* What tr_metainfoParse and initFilePieces make of the lengths.
Layout(lengths) ==
  LET before(f) == SumOf(1 .. f - 1, LAMBDA g : lengths[g])
  IN [length |-> lengths, offset |-> [f \in DOMAIN lengths |-> before(f)],
      totalSize |-> before(Len(lengths) + 1)]

Count(n) == (TotalSize + n - 1) \div n
Pieces == 0 .. Count(PieceSize) - 1
Blocks == 0 .. Count(BlockSize) - 1

\* tr_torPieceCountBytes and tr_torBlockCountBytes.
Rest(n) == IF TotalSize % n = 0 THEN n ELSE TotalSize % n
PieceBytes(p) == IF p + 1 \in Pieces THEN PieceSize ELSE Rest(PieceSize)
BlockBytes(b) == IF b + 1 \in Blocks THEN BlockSize ELSE Rest(BlockSize)

\* getBytePiece and initFilePieces: an empty file at the end is in the last piece.
BytePiece(at) == IF at = TotalSize THEN Count(PieceSize) - 1 ELSE at \div PieceSize
FirstPiece(f) == BytePiece(Offset(f))
LastPiece(f) == BytePiece(Offset(f) + (IF Length(f) > 0 THEN Length(f) - 1 ELSE 0))
HasFile(p, f) == p \in FirstPiece(f) .. LastPiece(f)

\* tr_torGetPieceBlockRange and tr_torGetFileBlockRange.
PieceBlocks(p) ==
  (PieceSize * p) \div BlockSize .. (PieceSize * p + PieceBytes(p) - 1) \div BlockSize
FileBlocks(f) ==
  Offset(f) \div BlockSize ..
  (IF Length(f) = 0 THEN Offset(f) ELSE Offset(f) + Length(f) - 1) \div BlockSize

HasAll == Cardinality(have) = Cardinality(Blocks)
IsComplete(p, blocks) == PieceBlocks(p) \subseteq blocks

\* fileBytesCompleted, by the first, the middle and the last block of the file.
fileBytesCompleted(f) ==
  LET first == Min(FileBlocks(f))
      last == Max(FileBlocks(f))
      got(b, n) == IF b \in have THEN n ELSE 0
  IN IF Length(f) = 0 THEN 0
     ELSE IF first = last THEN got(first, Length(f))
     ELSE got(first, BlockSize - (Offset(f) % BlockSize))
          + Cardinality(have \cap (first + 1 .. last - 1)) * BlockSize
          + got(last, Offset(f) + Length(f) - BlockSize * last)

(***************************************************************************)
(* Sizes and completeness.                                                 *)
(***************************************************************************)
\* What tr_cpSizeWhenDone computes: of an unwanted piece only the blocks that are there count,
\* the last of the torrent by its own size.
HaveIn(p) ==
  Cardinality(PieceBlocks(p) \cap have) * BlockSize
    - (IF Max(PieceBlocks(p)) = Max(Blocks) /\ Max(Blocks) \in have
       THEN BlockSize - Rest(BlockSize) ELSE 0)
ComputedWhenDone ==
  IF HasAll THEN TotalSize
  ELSE SumOf(Pieces, LAMBDA p : IF piece[p].dnd THEN HaveIn(p) ELSE PieceBytes(p))
ComputedValid == SumOf({p \in Pieces : IsComplete(p, have)}, LAMBDA p : PieceBytes(p))

WhenDone == IF sizes.whenDone = Dirty THEN ComputedWhenDone ELSE sizes.whenDone
HaveValid == IF sizes.valid = Dirty THEN ComputedValid ELSE sizes.valid

\* tr_cpGetStatus, and what it leaves in the cache.
Status == IF HasAll THEN "SEED" ELSE IF sizes.now = WhenDone THEN "PARTIAL_SEED" ELSE "LEECH"
Asked(s) == IF HasAll THEN s ELSE [s EXCEPT !.whenDone = WhenDone]
Outdated(now) == [now |-> now, whenDone |-> Dirty, valid |-> Dirty]

(***************************************************************************)
(* Seeding limits.                                                         *)
(***************************************************************************)
\* tr_torrentIsSeedRatioDone: by what was downloaded, or else by the size.
Downloaded == bytes.cur + bytes.prev
Baseline == IF Downloaded > 0 THEN Downloaded ELSE WhenDone
RatioDone == limits.ratio # 0 /\ bytes.up >= Baseline * limits.ratio
IdleDone(x) == limits.idle # 0 /\ x.idle >= limits.idle

\* tr_torrentCheckSeedLimit.
CheckSeedLimit(x) ==
  IF ~x.running \/ x.stopping \/ x.completeness = "LEECH" THEN x
  ELSE IF RatioDone THEN [x EXCEPT !.stopping = TRUE]
  ELSE IF IdleDone(x) THEN [x EXCEPT !.stopping = TRUE, !.byIdle = TRUE]
  ELSE x

\* tr_torrentRecheckCompleteness.
Recheck(x) ==
  LET y == [x EXCEPT !.completeness = Status]
  IN IF x.completeness = "LEECH" /\ Status # "LEECH" /\ x.running THEN CheckSeedLimit(y) ELSE y

Stopped(x) == [x EXCEPT !.running = FALSE, !.stopping = FALSE]

(***************************************************************************)
(* Initially: torrentInitFromInfo, and what tr_cpBlockInit loads.          *)
(***************************************************************************)
Init ==
  /\ \E lengths \in Layouts : layout = Layout(lengths)
  /\ have \in {{}, Blocks}
  /\ file = [f \in Files |-> [dnd |-> FALSE, priority |-> 0]]
  /\ piece = [p \in Pieces |-> [dnd |-> FALSE, priority |->
       IF 0 \in Priorities /\ \E f \in Files : HasFile(p, f) /\ p \in {FirstPiece(f), LastPiece(f)}
       THEN 1 ELSE 0]]
  /\ sizes = Outdated(IF have = {} THEN 0 ELSE TotalSize)
  /\ progress = [completeness |-> IF have = {} THEN "LEECH" ELSE "SEED", needsCheck |-> FALSE,
                 running |-> FALSE, stopping |-> FALSE, byIdle |-> FALSE, idle |-> 0]
  /\ bytes = [cur |-> 0, prev |-> 0, up |-> 0]
  /\ limits = [ratio |-> 0, idle |-> 0] /\ changed = {}

(***************************************************************************)
(* Blocks.                                                                 *)
(***************************************************************************)
BytesOf(blocks) == SumOf(blocks, BlockBytes)
Less(n, m) == IF n < m THEN 0 ELSE n - m

\* TR_PEER_CLIENT_GOT_BLOCK, with the test of a piece that it completes (gotBadPiece).
GotBlock(b, ok) ==
  LET p == (b * BlockSize) \div PieceSize
      now == have \cup {b}
      whole == IsComplete(p, now)
      bad == whole /\ ~ok
  IN /\ progress.running /\ b \notin have /\ (whole \/ ok) /\ Downloaded + BlockBytes(b) <= MaxDown
     /\ have' = IF bad THEN now \ PieceBlocks(p) ELSE now
     /\ sizes' = Outdated(sizes.now + BlockBytes(b) - (IF bad THEN PieceBytes(p) ELSE 0))
     /\ bytes' = [bytes EXCEPT !.cur = IF bad THEN Less(@ + BlockBytes(b), PieceBytes(p))
                                             ELSE @ + BlockBytes(b)]
     /\ progress' = [progress EXCEPT !.needsCheck = @ \/ (whole /\ ok), !.idle = 0]
     /\ changed' = IF bad THEN changed \cup {"limits"} ELSE changed
     /\ UNCHANGED <<layout, file, piece, limits>>

\* tr_torrentSetHasPiece, for the verifier; and for the test of a piece before it is sent, which
\* can only take it away.
SetHasPiece(p, has) ==
  /\ ~progress.running \/ (~has /\ IsComplete(p, have))
  /\ have' = IF has THEN have \cup PieceBlocks(p) ELSE have \ PieceBlocks(p)
  /\ have' # have
  /\ sizes' = Outdated(IF has THEN sizes.now + BytesOf(PieceBlocks(p) \ have)
                       ELSE sizes.now - BytesOf(PieceBlocks(p) \cap have))
  /\ changed' = {"blocks", "limits"}
  /\ UNCHANGED <<layout, file, piece, progress, bytes, limits>>

\* torrentRecheckDoneImpl, and tr_torrentStat with its cached sizes.
tr_torrentStat ==
  /\ progress' = Recheck(progress)
  /\ sizes' = [sizes EXCEPT !.whenDone = WhenDone, !.valid = HaveValid]
  /\ changed' = changed \ {"blocks"}
  /\ UNCHANGED <<layout, have, file, piece, bytes, limits>>

(***************************************************************************)
(* Files.                                                                  *)
(***************************************************************************)
\* setFileDND: a piece that the file shares is unwanted when all of its files are; the pieces
\* between its first and its last are its own.
Before(f) == {g \in 1 .. f - 1 : \A h \in g .. f - 1 : LastPiece(h) = FirstPiece(f)}

\* Mutant: only the next file is looked at.
After_Next(f) == {g \in Files : g = f + 1 /\ FirstPiece(g) = LastPiece(f)}
After(f) == {g \in Files : g > f /\ \A h \in f + 1 .. g : FirstPiece(h) = LastPiece(f)}

setFileDND(f, dnd) ==
  LET first == dnd /\ \A g \in Before(f) : file[g].dnd
      last  == dnd /\ \A g \in After(f) : file[g].dnd
  IN /\ file' = [file EXCEPT ![f].dnd = dnd]
     /\ piece' = [p \in Pieces |->
          IF ~HasFile(p, f) THEN piece[p]
          ELSE [piece[p] EXCEPT !.dnd =
                  IF FirstPiece(f) = LastPiece(f) THEN first /\ last
                  ELSE CASE p = FirstPiece(f) -> first [] p = LastPiece(f) -> last [] OTHER -> dnd]]

\* tr_torrentSetFileDLs invalidates the size; the completeness is not checked.
SetFileDLs(f, dnd) ==
  /\ setFileDND(f, dnd)
  /\ sizes' = [sizes EXCEPT !.whenDone = Dirty]
  /\ changed' = {"blocks", "limits"}
  /\ UNCHANGED <<layout, have, progress, bytes, limits>>

\* calculatePiecePriority: the highest of the files in the piece, and "high" for the ends of
\* files that are not of low priority.
Highest(S) == Max(S \cup {-1})
PiecePriority(p, prio) ==
  IF \E f \in Files : HasFile(p, f) /\ prio[f] >= 0 /\ p \in {FirstPiece(f), LastPiece(f)} THEN 1
  ELSE Highest({prio[f] : f \in {g \in Files : HasFile(p, g)}})
SetFilePriority(f, prio) ==
  /\ file' = [file EXCEPT ![f].priority = prio]
  /\ piece' = [p \in Pieces |->
       IF HasFile(p, f)
       THEN [piece[p] EXCEPT !.priority = PiecePriority(p, [g \in Files |-> file'[g].priority])]
       ELSE piece[p]]
  /\ UNCHANGED <<layout, have, sizes, progress, bytes, limits, changed>>

(***************************************************************************)
(* Starting, seeding and stopping.                                         *)
(***************************************************************************)
\* torrentStartImpl, with tr_torrentResetTransferStats.
Start ==
  /\ ~progress.running
  /\ progress' = [progress EXCEPT !.running = TRUE, !.completeness = Status, !.byIdle = FALSE,
                                  !.idle = 0]
  /\ sizes' = Asked(sizes)
  /\ bytes' = [bytes EXCEPT !.prev = Downloaded, !.cur = 0]
  /\ changed' = {"limits"}
  /\ UNCHANGED <<layout, have, file, piece, limits>>
tr_torrentStop ==
  /\ progress.running /\ progress' = Stopped(progress)
  /\ UNCHANGED <<layout, have, file, piece, sizes, bytes, limits, changed>>

Upload ==
  /\ progress.running /\ have # {} /\ bytes.up < MaxUp
  /\ bytes' = [bytes EXCEPT !.up = @ + 1] /\ progress' = [progress EXCEPT !.idle = 0]
  /\ changed' = changed \cup {"limits"}
  /\ UNCHANGED <<layout, have, file, piece, sizes, limits>>

\* bandwidthPulse: the limits, the completeness if it is due, and the stop.
Checked(x) == IF x.needsCheck THEN Recheck([x EXCEPT !.needsCheck = FALSE]) ELSE x
Pulsed(x) ==
  LET y == Checked(CheckSeedLimit(x)) IN IF y.stopping THEN Stopped(y) ELSE y
bandwidthPulse ==
  /\ progress' = Pulsed(progress)
  /\ sizes' = IF progress.needsCheck THEN Asked(sizes) ELSE sizes
  /\ changed' = IF progress.needsCheck THEN {} ELSE changed \ {"limits"}
  /\ UNCHANGED <<layout, have, file, piece, bytes, limits>>

\* tr_torrentSetRatioMode, SetRatioLimit, SetIdleMode, SetIdleLimit, and those of the session.
SetLimits ==
  /\ \E r \in Ratios, i \in IdleLimits :
       /\ [ratio |-> r, idle |-> i] # limits /\ limits' = [ratio |-> r, idle |-> i]
  /\ changed' = changed \cup {"limits"}
  /\ UNCHANGED <<layout, have, file, piece, sizes, progress, bytes>>
Idles ==
  /\ progress.running /\ progress.idle < MaxIdle
  /\ progress' = [progress EXCEPT !.idle = @ + 1] /\ changed' = changed \cup {"limits"}
  /\ UNCHANGED <<layout, have, file, piece, sizes, bytes, limits>>

Next ==
  \/ \E b \in Blocks, ok \in BOOLEAN : GotBlock(b, ok)
  \/ \E p \in Pieces, has \in BOOLEAN : SetHasPiece(p, has)
  \/ \E f \in Files : \/ \E w \in Wishes : SetFileDLs(f, w)
                      \/ \E prio \in Priorities : SetFilePriority(f, prio)
  \/ tr_torrentStat \/ Start \/ tr_torrentStop \/ Upload \/ bandwidthPulse \/ SetLimits \/ Idles

Spec == Init /\ [][Next]_progressVars

(***************************************************************************)
(* Properties.                                                             *)
(***************************************************************************)
TypeOK ==
  /\ have \subseteq Blocks /\ sizes.now \in 0 .. TotalSize
  /\ DOMAIN file = Files /\ DOMAIN piece = Pieces /\ progress.idle \in 0 .. MaxIdle

\* The sizes that are kept and cached are those of the blocks that are there and of the pieces
\* that are wanted, and what is asserted of them holds.
SizesAreExact ==
  /\ sizes.now = BytesOf(have)
  /\ sizes.whenDone \in {Dirty, ComputedWhenDone} /\ sizes.valid \in {Dirty, ComputedValid}
  /\ sizes.now <= ComputedWhenDone /\ ComputedValid <= sizes.now
  /\ ComputedWhenDone = BytesOf(have \cup UNION {PieceBlocks(p) : p \in {q \in Pieces : ~piece[q].dnd}})

\* A file's blocks are those that hold a byte of it, a piece's as well, and as many of a file's
\* bytes are there as its blocks hold.
BlockOf(byte) == byte \div BlockSize
FileBytes(f) == Offset(f) .. Offset(f) + Length(f) - 1
GeometryIsExact ==
  /\ \A f \in Files : /\ Length(f) > 0 => FileBlocks(f) = {BlockOf(at) : at \in FileBytes(f)}
                      /\ fileBytesCompleted(f) = Cardinality({at \in FileBytes(f) : BlockOf(at) \in have})
  /\ \A p \in Pieces : PieceBlocks(p) = {BlockOf(at) : at \in PieceSize * p .. PieceSize * p + PieceBytes(p) - 1}
  /\ BytesOf(Blocks) = TotalSize

\* A piece is wanted if one of its files is, and its priority is that of its files, in whatever
\* order the files were chosen.
PiecesFollowFiles ==
  \A p \in Pieces :
    /\ piece[p].dnd = \A f \in Files : HasFile(p, f) => file[f].dnd
    /\ 0 \in Priorities => piece[p].priority = PiecePriority(p, [f \in Files |-> file[f].priority])

\* Unless files or pieces have changed since, or a check is due, the completeness is that of
\* the blocks; and no torrent keeps seeding that has reached a limit.
CompletenessIsTrue ==
  /\ "blocks" \in changed \/ progress.needsCheck \/ progress.completeness = Status
  /\ \/ "limits" \in changed \/ progress.stopping \/ ~progress.running
     \/ progress.completeness = "LEECH" \/ (~RatioDone /\ ~IdleDone(progress))
================================================================================
