------------------------------ MODULE BlockStore ------------------------------
(***************************************************************************)
(* What the write cache promises: a store of blocks.  A block reads as it  *)
(* was last written, whatever the cache does in between.  A torrent can    *)
(* lose what was written only in a step that leaves it marked with a local *)
(* error; the other torrents lose nothing in that step.  A start takes the *)
(* mark away, and what was lost stays lost.                                *)
(***************************************************************************)
CONSTANT Keys  \* the pairs <<torrent, block>>

VARIABLES
  content,    \* whether a read of a block returns the data that belongs there
  localError  \* the torrents whose error is TR_STAT_LOCAL_ERROR

vars == <<content, localError>>

Torrents == {k[1] : k \in Keys}

Init ==
  /\ content = [k \in Keys |-> FALSE]
  /\ localError = {}

\* Outside W, the torrents that are not marked keep what they have.
KeepAllBut(W) ==
  /\ content' \in [Keys -> BOOLEAN]
  /\ localError \subseteq localError'
  /\ localError' \subseteq Torrents
  /\ \A k \in Keys \ W : k[1] \notin localError' => content'[k] = content[k]

Write(k, good) ==
  /\ KeepAllBut({k})
  /\ k[1] \notin localError' => content'[k] = good

Flush == KeepAllBut({})

Start(t) ==
  /\ localError' = localError \ {t}
  /\ UNCHANGED content

Next ==
  \/ \E k \in Keys, good \in BOOLEAN : Write(k, good)
  \/ Flush
  \/ \E t \in Torrents : Start(t)

Spec == Init /\ [][Next]_vars
=============================================================================
