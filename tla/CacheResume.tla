----------------------------- MODULE CacheResume -----------------------------
(***************************************************************************)
(* The write cache (BlockCache) together with the progress that resume.c   *)
(* keeps in the .resume file: the save timer and the stop of a torrent     *)
(* flush the cache, then save which blocks we have, also if the flush has  *)
(* failed; a program that is killed starts again from the disk and from    *)
(* what was saved.                                                         *)
(***************************************************************************)
EXTENDS BlockCache

VARIABLES
  saved,   \* "blocks" in the .resume file of each torrent
  exposed  \* history: the torrents whose .resume was written although a flush had failed

resumeVars == <<vars, saved, exposed>>

\* The torrents that such a save exposes: those whose disk has failed, and, if the flush that
\* came before the save stopped with an error, those with blocks that it has left in the cache.
Exposed(err) == Failed' \cup {t \in Torrents : err /\ \E n \in DOMAIN blocks' : blocks'[n].key[1] = t}

\* tr_torrentSaveResume of the torrents T that are not freed, after a flush that returned err;
\* have is dirty with every change.
SaveResume(T, err) ==
  /\ saved' = [t \in Torrents |-> IF t \in T \ freed THEN have[t] ELSE saved[t]]
  /\ exposed' = (exposed \ (T \ freed)) \cup ((T \ freed) \cap Exposed(err))

\* onSaveTimer: an error of the flush is logged, the resume files are written anyway.
SaveTimerAndResume == \E err \in BOOLEAN : FlushFinished(err) /\ SaveResume(Torrents, err)

\* stopTorrent: a flush that fails has marked the torrent.
StopAndResume(t)  == Stop(t) /\ SaveResume({t}, FALSE)
CloseAndResume(t) == Close(t) /\ SaveResume({t}, FALSE)

\* The program is killed and started again: sessionLoadTorrents, tr_torrentLoadResume.  No
\* error is saved, so that the torrents come back without a mark.
Restart ==
  /\ blocks' = <<>>
  /\ have' = saved
  /\ localError' = {}
  /\ forgiven' = Failed \cup exposed
  /\ freed' = {}
  /\ UNCHANGED <<maxBlocks, disk, saved, exposed>>

ResumeInit == Init /\ saved = have /\ exposed = {}

ResumeNext ==
  /\ ~Dangling
  /\ \/ /\ \/ \E k \in Keys, good \in BOOLEAN : PeerBlock(k[1], k[2], good)
           \/ \E k \in Keys, good \in WebseedData : WebseedBlock(k[1], k[2], good)
           \/ \E n \in Limits : SetLimit(n)
           \/ \E t \in Torrents : Start(t)
        /\ UNCHANGED <<saved, exposed>>
     \/ \E t \in Torrents : StopAndResume(t) \/ CloseAndResume(t)
     \/ SaveTimerAndResume
     \/ Restart

ResumeSpec == ResumeInit /\ [][ResumeNext]_resumeVars

\* The resume file claims no piece whose data are not on the disk, so that a program that is
\* killed loses blocks, not finished pieces: of a torrent whose disk has not failed and whose
\* .resume was not written after a failed flush that left its blocks in the cache.
SavedPiecesAreOnDisk ==
  \A t \in Torrents \ (Failed \cup exposed) : \A i \in Pieces(t) :
    PieceIsComplete(saved, t, i) => \A b \in PieceBlocks(t, i) : disk[<<t, b>>]
=============================================================================
