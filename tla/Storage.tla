-------------------------------- MODULE Storage --------------------------------
(***************************************************************************)
(* A torrent and its data on the disk: which pieces have to be tested      *)
(* (PieceChecks), the descriptors that are open (OpenFiles), the progress  *)
(* that is saved for the next start (CacheResume), the folders that the    *)
(* files are moved to (Location), and what the completion says of pieces,  *)
(* files and limits (Progress, with layouts for the download, for the      *)
(* choice of files and for the limits of seeding), the bits of blocks and  *)
(* pieces (Bitfield), and the blocklists in their files (Blocklist).       *)
(*                                                                         *)
(* The parts share no state here: a behaviour is one of the part that      *)
(* `part' names, and the variables of the others are Absent.               *)
(***************************************************************************)
EXTENDS Integers

CONSTANTS
  PieceCount, CheckedFiles, JointCount, JointFiles, MaxTime, Off,
  OpenableFiles, Slots, MaxClock, MaxStale,
  BlockCount, BlocksInPiece, CachedFiles, Limits, WebseedData,
  SharedCount, SharedFiles, SharedLimits,
  Folders, Volume, BlocksPerFile, Incomplete,
  BlockSize, PieceSize, Wishes,
  Downloads, Choices, Seeds, Priorities, Ratios, IdleLimits,
  Width, Bits, BitsPerPiece, MaxHaves,
  Addresses, Texts, Responses, DefaultName, Alike

VARIABLES
  part,
  now, known, good, timeChecked, mtime, verifying, sending, saved, tested, modified,
  slot, files, clock, stale,
  blocks, maxBlocks, disk, owned, localError, forgiven, freed, resume, exposed,
  tree, fd, dirs, got, cached, life, missed,
  layout, have, file, piece, sizes, progress, bytes, limits, changed,
  owner, field, metadata, isSeed, told,
  bin, lists, isEnabled, unread, content

Checks == INSTANCE PieceChecks WITH Files <- CheckedFiles, MayRestart <- TRUE, have <- known
Joint  == INSTANCE PieceChecks WITH PieceCount <- JointCount, Files <- JointFiles,
                                    MayRestart <- TRUE, have <- known
Open   == INSTANCE OpenFiles WITH Files <- OpenableFiles, MaxTime <- MaxClock,
                                  disk <- files, now <- clock
Resume == INSTANCE CacheResume WITH Files <- CachedFiles, DiskMayFail <- TRUE,
                                    MayWriteShort <- FALSE, MayClose <- TRUE,
                                    Startable <- DOMAIN BlockCount,
                                    have <- owned, saved <- resume
Shared == INSTANCE CacheResume WITH BlockCount <- SharedCount, BlocksInPiece <- 1,
                                    Files <- SharedFiles, Limits <- SharedLimits,
                                    WebseedData <- {}, DiskMayFail <- TRUE,
                                    MayWriteShort <- FALSE, MayClose <- TRUE,
                                    Startable <- DOMAIN SharedCount,
                                    have <- owned, saved <- resume
Place  == INSTANCE Location WITH have <- got
Download == INSTANCE Progress WITH Layouts <- Downloads, Priorities <- {}, Ratios <- {0},
                                   IdleLimits <- {0}, MaxDown <- 5, MaxUp <- 0, MaxIdle <- 0
Choice   == INSTANCE Progress WITH Layouts <- Choices, Ratios <- {0}, IdleLimits <- {0},
                                   MaxDown <- 0, MaxUp <- 0, MaxIdle <- 0
Seeding  == INSTANCE Progress WITH Layouts <- Seeds, Priorities <- {},
                                   MaxDown <- 2, MaxUp <- 2, MaxIdle <- 1

Bitfields == INSTANCE Bitfield
Lists == INSTANCE Blocklist WITH Downloads <- Responses

ASSUME StorageAssumption == Checks!ChecksAssumption /\ Joint!ChecksAssumption /\ Bitfields!BitfieldAssumption

checkVars    == <<now, known, good, timeChecked, mtime, verifying, sending, saved, tested, modified>>
openVars     == <<slot, files, clock, stale>>
resumeVars   == <<blocks, maxBlocks, disk, owned, localError, forgiven, freed, resume, exposed>>
placeVars    == <<tree, fd, dirs, got, cached, life, missed>>
progressVars == <<layout, have, file, piece, sizes, progress, bytes, limits, changed>>
bitVars      == <<owner, field, metadata, isSeed, told>>
listVars     == <<bin, lists, isEnabled, unread, content>>
vars == <<part, checkVars, openVars, resumeVars, placeVars, progressVars, bitVars, listVars>>

Absent == "absent"
NoChecks == /\ now = Absent /\ known = Absent /\ good = Absent /\ timeChecked = Absent
            /\ mtime = Absent /\ verifying = Absent /\ sending = Absent /\ saved = Absent
            /\ tested = Absent /\ modified = Absent
NoOpen == slot = Absent /\ files = Absent /\ clock = Absent /\ stale = Absent
NoResume == /\ blocks = Absent /\ maxBlocks = Absent /\ disk = Absent /\ owned = Absent
            /\ localError = Absent /\ forgiven = Absent /\ freed = Absent /\ resume = Absent
            /\ exposed = Absent
NoPlace == /\ tree = Absent /\ fd = Absent /\ dirs = Absent /\ got = Absent /\ cached = Absent
           /\ life = Absent /\ missed = Absent
NoProgress == /\ layout = Absent /\ have = Absent /\ file = Absent /\ piece = Absent
              /\ sizes = Absent /\ progress = Absent /\ bytes = Absent /\ limits = Absent
              /\ changed = Absent
NoBits == /\ owner = Absent /\ field = Absent /\ metadata = Absent /\ isSeed = Absent
          /\ told = Absent
NoLists == /\ bin = Absent /\ lists = Absent /\ isEnabled = Absent /\ unread = Absent
           /\ content = Absent

Init ==
  \/ /\ NoPlace /\ NoProgress /\ NoBits /\ NoLists
     /\ \/ part = "checks" /\ Checks!Init /\ NoOpen /\ NoResume
        \/ part = "joint" /\ Joint!Init /\ NoOpen /\ NoResume
        \/ part = "files" /\ Open!Init /\ NoChecks /\ NoResume
        \/ part = "resume" /\ Resume!ResumeInit /\ NoChecks /\ NoOpen
        \/ part = "shared" /\ Shared!ResumeInit /\ NoChecks /\ NoOpen
  \/ /\ NoChecks /\ NoOpen /\ NoResume /\ NoPlace /\ NoProgress
     /\ \/ part = "bits" /\ Bitfields!Init /\ NoLists
        \/ part = "lists" /\ Lists!Init /\ NoBits
  \/ /\ NoChecks /\ NoOpen /\ NoResume /\ NoBits /\ NoLists
     /\ \/ part = "places" /\ Place!Init /\ NoProgress
        \/ /\ NoPlace
           /\ \/ part = "download" /\ Download!Init
              \/ part = "choice" /\ Choice!Init
              \/ part = "seeding" /\ Seeding!Init

Others       == UNCHANGED <<bitVars, listVars>>
ChecksOnly   == UNCHANGED <<openVars, resumeVars, placeVars, progressVars>> /\ Others
OpenOnly     == UNCHANGED <<checkVars, resumeVars, placeVars, progressVars>> /\ Others
ResumeOnly   == UNCHANGED <<checkVars, openVars, placeVars, progressVars>> /\ Others
PlaceOnly    == UNCHANGED <<checkVars, openVars, resumeVars, progressVars>> /\ Others
ProgressOnly == UNCHANGED <<checkVars, openVars, resumeVars, placeVars>> /\ Others
DataSame     == UNCHANGED <<checkVars, openVars, resumeVars, placeVars, progressVars>>
BitsOnly     == DataSame /\ UNCHANGED listVars
ListsOnly    == DataSame /\ UNCHANGED bitVars

Next ==
  /\ UNCHANGED part
  /\ \/ part = "checks" /\ Checks!Next /\ ChecksOnly
     \/ part = "joint" /\ Joint!Next /\ ChecksOnly
     \/ part = "files" /\ Open!Next /\ OpenOnly
     \/ part = "resume" /\ Resume!ResumeNext /\ ResumeOnly
     \/ part = "shared" /\ Shared!ResumeNext /\ ResumeOnly
     \/ part = "places" /\ Place!Next /\ PlaceOnly
     \/ part = "download" /\ Download!Next /\ ProgressOnly
     \/ part = "choice" /\ Choice!Next /\ ProgressOnly
     \/ part = "seeding" /\ Seeding!Next /\ ProgressOnly
     \/ part = "bits" /\ Bitfields!Next /\ BitsOnly
     \/ part = "lists" /\ Lists!Next /\ ListsOnly

Spec == Init /\ [][Next]_vars

(***************************************************************************)
(* Properties: those of the parts, each with the types of its part.        *)
(***************************************************************************)
\* Pieces whose file was modified are tested again before they are sent, and the tests that are
\* due are remembered in the .resume file (tr_torrentPieceNeedsCheck, saveProgress); but a file
\* that a download completes again counts as tested (tr_torrentFileCompleted), and the last
\* piece of a file is saved with the time of the others if these are all tested.
ChecksAreDone ==
  [][/\ part = "checks" => /\ Checks!ModifiedIsRechecked /\ Checks!BadBlocksAreKept
                           /\ Checks!ChecksAreSaved
     /\ part = "joint"  => /\ Joint!ModifiedIsRechecked /\ Joint!BadBlocksAreKept
                           /\ Joint!ChecksAreSaved]_vars

\* The .resume file claims no piece whose data are not on the disk, but for a torrent whose own
\* writes have failed or whose blocks were still in the cache when it was saved after a failed
\* flush, which onSaveTimer only logs; a descriptor is of the file that it is kept for, and no file is
\* open twice (tr_fdFileCheckout), unless a file that was too long could not be cut; the data of
\* a torrent are found wherever it is moved to (setLocation); and the .bin files of the
\* blocklists block the addresses in the lines of their texts (_tr_blocklistSetContent,
\* loadBlocklists).
DiskIsTrue ==
  /\ part = "resume" => Resume!SavedPiecesAreOnDisk
  /\ part = "shared" => Shared!SavedPiecesAreOnDisk
  /\ part = "places" => /\ Place!TypeOK /\ Place!DataAreFound /\ Place!CompleteHasItsName
                        /\ Place!NothingIsLeftBehind
  /\ part = "files" => Open!TypeOK /\ Open!HandleIsOfFile /\ Open!OpenOnce /\ Open!OpenIsThere
  /\ part = "checks" => Checks!TypeOK
  /\ part = "joint" => Joint!TypeOK
  /\ part = "lists" => /\ Lists!TypeOK /\ Lists!RulesAreSorted /\ Lists!TornAreTwice
                       /\ Lists!BlockedAreListed

\* The sizes, the geometry of files and pieces, what is wanted, and the completeness with its
\* limits agree, however they are computed and cached (completion.c, setFileDND,
\* tr_torrentRecheckCompleteness); and a bitfield is the set of what was put into it, with the
\* peers that came before the metadata as the exception that NothingIsMadeUp states (bitfield.c).
ProgressIsTrue ==
  /\ part = "download" =>
       /\ Download!TypeOK /\ Download!SizesAreExact /\ Download!GeometryIsExact
       /\ Download!PiecesFollowFiles /\ Download!CompletenessIsTrue
  /\ part = "choice" =>
       /\ Choice!TypeOK /\ Choice!SizesAreExact /\ Choice!GeometryIsExact
       /\ Choice!PiecesFollowFiles /\ Choice!CompletenessIsTrue
  /\ part = "seeding" =>
       /\ Seeding!TypeOK /\ Seeding!SizesAreExact /\ Seeding!GeometryIsExact
       /\ Seeding!PiecesFollowFiles /\ Seeding!CompletenessIsTrue
  /\ part = "bits" => /\ Bitfields!TypeOK /\ Bitfields!HoldsItsBits
                      /\ Bitfields!RangesAreExact /\ Bitfields!SavedIsLoaded /\ Bitfields!NothingIsMadeUp

(***************************************************************************)
(* Small instances: layouts in which files share pieces and blocks, and    *)
(* one of each other kind.                                                 *)
(***************************************************************************)
\* A file of three pieces, whose times may make a list; and two files that begin in piece 0.
MCCheckedFiles == <<[firstPiece |-> 0, lastPiece |-> 2]>>
MCJointFiles == <<[firstPiece |-> 0, lastPiece |-> 0], [firstPiece |-> 0, lastPiece |-> 1]>>
MCOpenableFiles == {<<"s", 1>>, <<"s", 2>>, <<"t", 1>>}

\* A cached torrent of three blocks in two pieces, in one file.
MCBlockCount == <<3>>
MCCachedFiles == <<{<<0, 2>>}>>

\* Two torrents that share the cache, of one piece and of two, with a block each.
MCSharedCount == <<1, 2>>
MCSharedFiles == <<{<<0, 0>>}, {<<0, 1>>}>>

\* Two folders on one file system and another, and two files of two blocks.
MCVolume == [a |-> 1, b |-> 2, i |-> 1]
MCBlocksPerFile == <<2, 2>>

\* Lengths of files, the empty ones too.
MCDownloads == {<<3, 0, 2>>}
MCChoices == {<<1, 0, 1, 5>>}
MCSeeds == {<<1>>}
MCPriorities == {-1, 0}

\* Two texts: one with a .bin file of its own, and one, with a line the wrong way round, whose
\* .bin file an update takes for its own.
Line(begin, end) == <<[begin |-> begin, end |-> end]>>
MCTexts ==
  [level |-> [bin |-> "level.bin", lines |-> <<Line(3, 4), Line(0, 1), Line(1, 2)>>],
   mine  |-> [bin |-> "my-blocklist.bin", lines |-> <<Line(2, 1), <<>>, Line(2, 2)>>]]
MCResponses == {<<Line(0, 0), Line(4, 3), Line(2, 3)>>}
================================================================================
