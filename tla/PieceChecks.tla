------------------------------ MODULE PieceChecks ------------------------------
(***************************************************************************)
(* When a piece has to be hashed again (torrent.c), and what the .resume   *)
(* file remembers of that (resume.c).                                      *)
(*                                                                         *)
(* tr_piece::timeChecked is the last time that a piece was tested.  Before *)
(* a block is sent to a peer its piece is tested again if it never was, or *)
(* if one of its complete files has been modified since.  timeChecked is   *)
(* written by downloads (peer-mgr.c), uploads (peer-msgs.c), the verifier  *)
(* (verify.c) and by the loading of the .resume file, where the times of   *)
(* all the pieces of a file are mostly folded into one.                    *)
(*                                                                         *)
(* Abstractions.  A piece is had as a whole, and its data match its hash   *)
(* or they do not.  Time goes in seconds, like the code's.  Other programs *)
(* modify a file only when it is complete and in a second in which none of *)
(* its pieces has been tested, which is what the test by mtime can notice. *)
(***************************************************************************)
EXTENDS Integers, FiniteSets, FiniteSetsExt

CONSTANTS
  PieceCount,  \* tr_info::pieceCount
  Files,       \* tr_info::files, each with its firstPiece and lastPiece
  MaxTime,     \* bound: seconds
  MayRestart,  \* whether the progress is saved, and the program started again
  Off          \* no verification, and no block to be sent

Pieces == 0 .. PieceCount - 1
FilePieces(f) == Files[f].firstPiece .. Files[f].lastPiece
FilesOf(p)    == {f \in DOMAIN Files : p \in FilePieces(f)}
Times == 0 .. MaxTime

ChecksAssumption ==
  /\ PieceCount \in Nat \ {0}
  /\ \A f \in DOMAIN Files : f \in Nat /\ FilePieces(f) # {} /\ FilePieces(f) \subseteq Pieces
  /\ \A p \in Pieces : FilesOf(p) # {}
  /\ MaxTime \in Nat
  /\ Off \notin Nat

VARIABLES
  now,          \* tr_time ()
  have,         \* the complete pieces
  good,         \* the pieces whose data on the disk match their hash
  timeChecked,  \* tr_piece::timeChecked
  mtime,        \* tr_torrentGetFileMTime of each file, 0 if there is none
  verifying,    \* pieceIndex of verifyTorrent
  sending,      \* the block on its way to a peer: its piece, and whether its data are good
  saved,        \* the progress in the .resume file
  tested,       \* history: when each piece was hashed, as far as have reflects it
  modified      \* history: when another program modified each file

vars == <<now, have, good, timeChecked, mtime, verifying, sending, saved, tested, modified>>
history == <<tested, modified>>

FileIsComplete(f) == FilePieces(f) \subseteq have  \* tr_cpFileIsComplete

\* tr_torrentPieceNeedsCheck, for given times.
tr_torrentPieceNeedsCheck(times, p) ==
  \/ times[p] = 0
  \/ \E f \in FilesOf(p) : FileIsComplete(f) /\ mtime[f] > times[p]

-----------------------------------------------------------------------------
(* The .resume file. *)

\* The loop of saveProgress leaves out the last piece of the file.
Sampled(f) == {timeChecked[p] : p \in FilePieces(f) \ {Files[f].lastPiece}}
OldestNonzero(f) == Min((Sampled(f) \ {0}) \cup {now})
Newest(f) == Max(Sampled(f) \cup {0})

\* Mutant: a piece that was never checked does not keep the file from being "all checked".
saveProgress_ZeroIgnored(f) ==
  IF mtime[f] <= OldestNonzero(f) THEN [p \in FilePieces(f) |-> OldestNonzero(f)]
  ELSE IF Newest(f) < mtime[f]    THEN [p \in FilePieces(f) |-> Newest(f)]
  ELSE [p \in FilePieces(f) |-> IF timeChecked[p] = OldestNonzero(f) - 1 THEN 0 ELSE timeChecked[p]]

AllChecked(f)  == 0 \notin Sampled(f) /\ mtime[f] <= OldestNonzero(f)
NoneChecked(f) == Newest(f) < mtime[f]

\* saveProgress: one time for all the pieces of a file, or a list, in which the time just
\* before the oldest reads as "never".
saveProgress(f) ==
  IF AllChecked(f) THEN [p \in FilePieces(f) |-> OldestNonzero(f)]
  ELSE IF NoneChecked(f) THEN [p \in FilePieces(f) |-> Newest(f)]
  ELSE [p \in FilePieces(f) |-> IF timeChecked[p] = OldestNonzero(f) - 1 THEN 0 ELSE timeChecked[p]]

\* loadProgress: of a piece in several files the last one counts.
loadProgress(times) == [p \in Pieces |-> times[Max(FilesOf(p))][p]]

Progress == [have |-> have, times |-> [f \in DOMAIN Files |-> saveProgress(f)], tested |-> tested]

\* tr_torrentSaveResume
Save ==
  /\ MayRestart /\ sending = Off
  /\ saved' = Progress
  /\ UNCHANGED <<now, have, good, timeChecked, mtime, verifying, sending, history>>

\* The program is started again: tr_torrentLoadResume.
Restart ==
  /\ MayRestart /\ sending = Off
  /\ have' = saved.have
  /\ timeChecked' = loadProgress(saved.times)
  /\ verifying' = Off
  /\ tested' = saved.tested
  /\ UNCHANGED <<now, good, mtime, sending, saved, modified>>

-----------------------------------------------------------------------------
(* The pieces. *)

\* tr_torrentFileCompleted for the files F: but for the last piece of each.
tr_torrentFileCompleted(times, F) ==
  [p \in Pieces |-> IF \E f \in F : p \in FilePieces(f) \ {Files[f].lastPiece} THEN now ELSE times[p]]

\* The files that are complete with the piece p.
FinishedBy(p) == {f \in FilesOf(p) : FilePieces(f) \subseteq have \cup {p}}

\* A piece is complete: it is tested, and its files may be.  The data get to the disk
\* now or earlier.
GotPiece(p, ok) ==
  LET checked == [timeChecked EXCEPT ![p] = now] IN
  /\ verifying = Off /\ sending = Off
  /\ p \notin have
  /\ have' = IF ok THEN have \cup {p} ELSE have
  /\ good' = IF ok THEN good \cup {p} ELSE good \ {p}
  /\ timeChecked' = IF ok THEN tr_torrentFileCompleted(checked, FinishedBy(p)) ELSE checked
  /\ tested' = [tested EXCEPT ![p] = now]
  /\ \E written \in SUBSET FilesOf(p) :
       mtime' = [f \in DOMAIN Files |->
                   IF f \in written \/ (f \in FilesOf(p) /\ mtime[f] = 0) THEN now ELSE mtime[f]]
  /\ UNCHANGED <<now, verifying, sending, saved, modified>>

\* fillOutputBuffer reads a block that a peer asked for ...
ReadBlock(p) ==
  /\ verifying = Off /\ sending = Off
  /\ p \in have
  /\ sending' = [piece |-> p, good |-> p \in good]
  /\ UNCHANGED <<now, have, good, timeChecked, mtime, verifying, saved, history>>

\* ... and tests its piece, if need be, before it sends it (tr_torrentCheckPiece).
SendBlock ==
  LET p == sending.piece IN
  /\ sending # Off /\ sending' = Off
  /\ IF tr_torrentPieceNeedsCheck(timeChecked, p)
       THEN /\ have' = IF p \in good THEN have ELSE have \ {p}
            /\ timeChecked' = [timeChecked EXCEPT ![p] = now]
            /\ tested' = [tested EXCEPT ![p] = now]
       ELSE UNCHANGED <<have, timeChecked, tested>>
  /\ UNCHANGED <<now, good, mtime, verifying, saved, modified>>

\* verifyTorrent, which may be stopped between two pieces.
VerifyBegin ==
  /\ verifying = Off /\ sending = Off
  /\ verifying' = 0
  /\ timeChecked' = [p \in Pieces |-> 0]
  /\ UNCHANGED <<now, have, good, mtime, sending, saved, history>>

VerifyPiece ==
  /\ verifying # Off
  /\ have' = IF verifying \in good THEN have \cup {verifying} ELSE have \ {verifying}
  /\ timeChecked' = [timeChecked EXCEPT ![verifying] = now]
  /\ tested' = [tested EXCEPT ![verifying] = now]
  /\ verifying' = IF verifying + 1 < PieceCount THEN verifying + 1 ELSE Off
  /\ UNCHANGED <<now, good, mtime, sending, saved, modified>>

VerifyStop ==
  /\ verifying # Off /\ verifying' = Off
  /\ UNCHANGED <<now, have, good, timeChecked, mtime, sending, saved, history>>

-----------------------------------------------------------------------------
(* The world. *)

Tick ==
  /\ now < MaxTime /\ now' = now + 1
  /\ UNCHANGED <<have, good, timeChecked, mtime, verifying, sending, saved, history>>

\* Another program modifies the file f, and spoils some of its pieces.
Modify(f) ==
  /\ FileIsComplete(f)
  /\ \A p \in FilePieces(f) : tested[p] < now /\ timeChecked[p] < now /\ loadProgress(saved.times)[p] < now
  /\ \E spoilt \in SUBSET FilePieces(f) : good' = good \ spoilt
  /\ mtime' = [mtime EXCEPT ![f] = now]
  /\ modified' = [modified EXCEPT ![f] = now]
  /\ UNCHANGED <<now, have, timeChecked, verifying, sending, saved, tested>>

\* A new download, or the data of a torrent that was tested before.
Init ==
  /\ now = 1
  /\ \E before \in {0, 1} :
       /\ have = IF before = 1 THEN Pieces ELSE {}
       /\ good = have
       /\ timeChecked = [p \in Pieces |-> before] /\ tested = timeChecked
       /\ mtime = [f \in DOMAIN Files |-> before]
  /\ verifying = Off /\ sending = Off
  /\ modified = [f \in DOMAIN Files |-> 0]
  /\ saved = Progress

Next ==
  \/ \E p \in Pieces : ReadBlock(p) \/ \E ok \in BOOLEAN : GotPiece(p, ok)
  \/ SendBlock
  \/ VerifyBegin \/ VerifyPiece \/ VerifyStop
  \/ Save \/ Restart
  \/ Tick \/ \E f \in DOMAIN Files : Modify(f)

Spec == Init /\ [][Next]_vars

-----------------------------------------------------------------------------
(* Properties. *)

\* The type invariant.
TypeOK ==
  /\ now \in Times
  /\ have \subseteq Pieces /\ good \subseteq Pieces
  /\ timeChecked \in [Pieces -> Times] /\ tested \in [Pieces -> Times]
  /\ mtime \in [DOMAIN Files -> Times] /\ modified \in [DOMAIN Files -> Times]
  /\ verifying \in Pieces \cup {Off}
  /\ sending \in [piece : Pieces, good : BOOLEAN] \cup {Off}
  /\ saved.have \subseteq Pieces
  /\ \A f \in DOMAIN Files : saved.times[f] \in [FilePieces(f) -> Times]

\* The comment at torrent.c:2500: "If we think we've completed one of the files in this
\* piece, but it's been modified since we last checked it, then it needs to be
\* rechecked".  The times forget that of a piece that another program modified after its last
\* test, if they would not ask for one with all of its files complete.  Uploads, stopped verifications and downloads make no piece forgotten, but for
\* the piece that completes a file again: all the pieces of that file, other than the last,
\* then count as tested just now (tr_torrentFileCompleted).  A restart may forget, too.
Forgotten ==
  {p \in have : /\ \E f \in FilesOf(p) : modified[f] > tested[p]
                /\ timeChecked[p] # 0 /\ \A f \in FilesOf(p) : mtime[f] <= timeChecked[p]}
ModifiedIsRechecked ==
  \/ Restart
  \/ Forgotten' \subseteq Forgotten
  \/ \E p \in Pieces :
       /\ GotPiece(p, TRUE)
       /\ Forgotten' \ Forgotten \subseteq UNION {FilePieces(f) \ {Files[f].lastPiece} : f \in FinishedBy(p)}

\* The block is read before its piece is tested, so that a modification in between does
\* no harm: bad data are sent only of pieces that are forgotten or whose files are not complete.
BadBlocksAreKept ==
  \A p \in Pieces \ Forgotten :
       sending = [piece |-> p, good |-> FALSE] /\ sending' = Off /\ p \in have'
         => ~ \A f \in FilesOf(p) : FileIsComplete(f)

\* The .resume file, read again, asks for the test of every piece of a complete file that
\* needs one, be it saved with one time for the file or with a list.  Only the last piece of
\* a file whose other pieces are all tested gets their time (the loop at resume.c:445).
Unseen(p) == LET f == Max(FilesOf(p)) IN p = Files[f].lastPiece /\ AllChecked(f)
ChecksAreSaved ==
  saved' # saved =>
       \A p \in Pieces :
         /\ \A f \in FilesOf(p) : FileIsComplete(f)
         /\ tr_torrentPieceNeedsCheck(timeChecked, p)
         => Unseen(p) \/ tr_torrentPieceNeedsCheck(loadProgress(saved'.times), p)
=============================================================================
