------------------------------ MODULE Handshake ------------------------------
(***************************************************************************)
(* The handshake of two clients (handshake.c) over a connection            *)
(* (peer-io.c): A connects to B, both run this code.  B may also be        *)
(* another client that speaks no encryption.                               *)
(*                                                                         *)
(* A message is what one side writes at a time and the other reads at a    *)
(* time, with the encryption it was written under: reading it under        *)
(* another one gives rubbish.  What is sent before a connection is closed  *)
(* arrives, unless the network fails.                                      *)
(*                                                                         *)
(* Abstractions.  Keys, hashes and the bytes of the messages are left out, *)
(* and with them the one byte in 256 of a random key or of cipher text     *)
(* that looks like the length of the plain handshake's name; and what is   *)
(* told to the caller besides the result.                                  *)
(***************************************************************************)
EXTENDS Naturals, Sequences

CONSTANT MaxConnections  \* bound: how often A connects

VARIABLES
  conf,  \* both encryption modes, what B is and knows of the torrent, whether A has connected
         \* to itself, whether both are seeds, whether by uTP, whether the network never fails
  a, b,  \* struct tr_handshake and tr_peerIo of each side
  toA, toB,
  open,  \* whether the connection is open
  tries  \* how often A has connected

shakeVars == <<conf, a, b, toA, toB, open, tries>>

TR_CLEAR_PREFERRED      == "clear preferred"
TR_ENCRYPTION_PREFERRED == "encryption preferred"
TR_ENCRYPTION_REQUIRED  == "encryption required"
Modes == {TR_CLEAR_PREFERRED, TR_ENCRYPTION_PREFERRED, TR_ENCRYPTION_REQUIRED}
NONE == "none"   \* PEER_ENCRYPTION_NONE, CRYPTO_PROVIDE_PLAINTEXT
RC4  == "rc4"    \* PEER_ENCRYPTION_RC4, CRYPTO_PROVIDE_CRYPTO

\* crypto: crypto_provide of the incoming side, crypto_select of the outgoing one.
Side(state, enc, sent) == [state |-> state, enc |-> enc, sent |-> sent, crypto |-> {}, result |-> "none"]
Msg(what, enc)         == [what |-> what, enc |-> enc, crypto |-> {}]
CryptoMsg(what, crypto) == [what |-> what, enc |-> RC4, crypto |-> crypto]
BitTorrentHandshake(e) == <<Msg("handshake", e), Msg("peer id", e)>>

(***************************************************************************)
(* tr_handshakeNew, sendYa                                                 *)
(***************************************************************************)
Init ==
  /\ conf \in [A : Modes, B : Modes, plainB : BOOLEAN, known : BOOLEAN, self : BOOLEAN, seeds : BOOLEAN,
               utp : BOOLEAN, reliable : BOOLEAN]
  /\ conf.self => conf.A = conf.B /\ conf.known /\ ~conf.plainB
  /\ a = IF conf.A = TR_CLEAR_PREFERRED THEN Side("AWAITING_HANDSHAKE", NONE, TRUE)
         ELSE Side("AWAITING_YB", NONE, FALSE)
  /\ toB = IF conf.A = TR_CLEAR_PREFERRED THEN BitTorrentHandshake(NONE) ELSE <<Msg("Ya", NONE), Msg("pad A", NONE)>>
  /\ b = Side("AWAITING_HANDSHAKE", NONE, FALSE) /\ toA = <<>>
  /\ open = TRUE /\ tries = 1

(***************************************************************************)
(* tr_handshakeDone: of a handshake that failed the connection is closed.  *)
(***************************************************************************)
DoneA(ok) == /\ a' = [a EXCEPT !.result = IF ok THEN "ok" ELSE "failed"]
             /\ open' = (open /\ ok)
DoneB(ok) == /\ b' = [b EXCEPT !.result = IF ok THEN "ok" ELSE "failed"]
             /\ open' = (open /\ ok)

\* What is next to be read, under the encryption of the reader.
Next1(queue, side) == IF Head(queue).enc = side.enc THEN Head(queue) ELSE Msg("rubbish", RC4)
Waiting(side) == side.result = "none"

\* canRead calls the handler of the state when there is enough to read.  No pad D needs no bytes, and
\* readYa waits for KEY_LEN of them, which is more than a handshake has.
ReadsA == Waiting(a) /\ (toA # <<>> \/ a.state = "AWAITING_PAD_D")
ReadsB == Waiting(b) /\ toB # <<>> /\ (b.state = "AWAITING_YA" => Head(toB).what = "Ya")
InA(state) == ReadsA /\ a.state = state
InB(state) == ReadsB /\ b.state = state

\* getCryptoProvide, getCryptoSelect
getCryptoProvide(mode) == IF mode = TR_CLEAR_PREFERRED THEN {RC4, NONE} ELSE {RC4}

getCryptoSelect(mode, provide) ==
  LET first   == IF mode = TR_CLEAR_PREFERRED THEN NONE ELSE RC4
      choices == IF mode = TR_ENCRYPTION_REQUIRED THEN {RC4} ELSE {NONE, RC4}
  IN IF first \in provide THEN {first} ELSE provide \cap choices

(***************************************************************************)
(* The outgoing side.                                                      *)
(***************************************************************************)
\* A peer that answers in plain text is taken at its word, and any other answer for the key.
\* Ours is followed by what we offer and by our handshake.
readYb ==
  /\ InA("AWAITING_YB")
  /\ IF Head(toA).what = "handshake" /\ Head(toA).enc = NONE
     THEN a' = [a EXCEPT !.state = "AWAITING_HANDSHAKE", !.enc = NONE] /\ UNCHANGED <<toA, toB>>
     ELSE /\ a' = [a EXCEPT !.state = "AWAITING_VC", !.enc = RC4, !.sent = TRUE]
          /\ toA' = Tail(toA)
          /\ toB' = toB \o <<CryptoMsg("provide", getCryptoProvide(conf.A)), Msg("pad C", RC4), Msg("IA", RC4)>>
  /\ UNCHANGED <<conf, b, open, tries>>

\* What does not decrypt to the VC, such as pad B, is skipped.
readVC ==
  /\ InA("AWAITING_VC")
  /\ toA' = Tail(toA)
  /\ a' = IF Next1(toA, a).what = "VC" THEN [a EXCEPT !.state = "AWAITING_CRYPTO_SELECT"] ELSE a
  /\ UNCHANGED <<conf, b, toB, open, tries>>

readCryptoSelect ==
  LET select == Next1(toA, a).crypto IN
  /\ InA("AWAITING_CRYPTO_SELECT")
  /\ toA' = Tail(toA)
  /\ IF select \cap getCryptoProvide(conf.A) = {} THEN DoneA(FALSE)
     ELSE a' = [a EXCEPT !.state = "AWAITING_PAD_D", !.crypto = select] /\ UNCHANGED open
  /\ UNCHANGED <<conf, b, toB, tries>>

readPadD ==
  /\ InA("AWAITING_PAD_D")
  /\ a' = [a EXCEPT !.state = "AWAITING_HANDSHAKE", !.enc = CHOOSE c \in a.crypto : TRUE]
  /\ UNCHANGED <<conf, b, toA, toB, open, tries>>

\* readHandshake, of an answer.  What looks like plain text is read as such, anything else as
\* encrypted.
readHandshakeA ==
  LET m   == Head(toA)
      enc == IF m.enc = NONE /\ m.what = "handshake" THEN NONE ELSE RC4 IN
  /\ InA("AWAITING_HANDSHAKE")
  /\ IF m.what # "handshake" \/ m.enc # enc \/ (enc = NONE /\ conf.A = TR_ENCRYPTION_REQUIRED)
     THEN DoneA(FALSE) /\ UNCHANGED <<toA, toB>>
     ELSE /\ a' = [a EXCEPT !.state = "AWAITING_PEER_ID", !.enc = enc, !.sent = TRUE]
          /\ toA' = Tail(toA)
          /\ toB' = IF a.sent THEN toB ELSE toB \o BitTorrentHandshake(enc)
          /\ UNCHANGED open
  /\ UNCHANGED <<conf, b, tries>>

\* readPeerId: a connection to ourselves is no use.
readPeerIdA ==
  /\ InA("AWAITING_PEER_ID")
  /\ toA' = Tail(toA)
  /\ DoneA(Next1(toA, a).what = "peer id" /\ ~conf.self)
  /\ UNCHANGED <<conf, b, toB, tries>>

(***************************************************************************)
(* The incoming side.                                                      *)
(***************************************************************************)
\* Mutant: a plain handshake is always answered.
PlainIsWelcome_Always == conf.known

\* readHandshake: "peer is unencrypted, and we're disallowing that", and the torrent.
PlainIsWelcome == conf.known /\ (conf.B # TR_ENCRYPTION_REQUIRED \/ conf.plainB)

\* readHandshake: anything but a plain handshake is taken for the key, and left for readYa,
\* except by a client without encryption, which gives up.
readHandshakeB ==
  LET m == Head(toB) IN
  /\ InB("AWAITING_HANDSHAKE")
  /\ IF m.what = "handshake" /\ m.enc = NONE
     THEN /\ toB' = Tail(toB)
          /\ IF PlainIsWelcome
             THEN /\ b' = [b EXCEPT !.state = "AWAITING_PEER_ID", !.enc = NONE, !.sent = TRUE]
                  /\ toA' = toA \o BitTorrentHandshake(NONE)
                  /\ UNCHANGED open
             ELSE DoneB(FALSE) /\ UNCHANGED toA
     ELSE /\ UNCHANGED <<toA, toB>>
          /\ IF conf.plainB THEN DoneB(FALSE)
             ELSE b' = [b EXCEPT !.state = "AWAITING_YA", !.enc = RC4] /\ UNCHANGED open
  /\ UNCHANGED <<conf, a, tries>>

readYa ==
  /\ InB("AWAITING_YA")
  /\ toB' = Tail(toB)
  /\ b' = [b EXCEPT !.state = "AWAITING_PAD_A"]
  /\ toA' = toA \o <<Msg("Yb", NONE), Msg("pad B", NONE)>>
  /\ UNCHANGED <<conf, a, open, tries>>

\* All up to the hash of the secret is skipped.
readPadA ==
  /\ InB("AWAITING_PAD_A")
  /\ IF Head(toB).what = "provide"
     THEN b' = [b EXCEPT !.state = "AWAITING_CRYPTO_PROVIDE"] /\ UNCHANGED toB
     ELSE toB' = Tail(toB) /\ UNCHANGED b
  /\ UNCHANGED <<conf, a, toA, open, tries>>

\* "another seed tried to reconnect to us!", "can't find that torrent..."
readCryptoProvide ==
  /\ InB("AWAITING_CRYPTO_PROVIDE")
  /\ toB' = Tail(toB)
  /\ IF ~conf.known \/ conf.seeds THEN DoneB(FALSE)
     ELSE b' = [b EXCEPT !.state = "AWAITING_PAD_C", !.crypto = Next1(toB, b).crypto] /\ UNCHANGED open
  /\ UNCHANGED <<conf, a, toA, tries>>

readPadC ==
  /\ InB("AWAITING_PAD_C")
  /\ toB' = Tail(toB)
  /\ b' = [b EXCEPT !.state = "AWAITING_IA"]
  /\ UNCHANGED <<conf, a, toA, open, tries>>

\* The answer; the handshake that came with the request is left for readPayloadStream.
readIA ==
  LET select == getCryptoSelect(conf.B, b.crypto)
      e      == CHOOSE c \in select : TRUE IN
  /\ InB("AWAITING_IA")
  /\ IF select = {} THEN DoneB(FALSE) /\ UNCHANGED toA
     ELSE /\ toA' = toA \o <<Msg("VC", RC4), CryptoMsg("select", select)>> \o BitTorrentHandshake(e)
          /\ b' = [b EXCEPT !.state = "AWAITING_PAYLOAD_STREAM", !.enc = e, !.sent = TRUE]
          /\ UNCHANGED open
  /\ UNCHANGED <<conf, a, toB, tries>>

\* parseHandshake
readPayloadStream ==
  /\ InB("AWAITING_PAYLOAD_STREAM")
  /\ toB' = Tail(toB)
  /\ DoneB(Next1(toB, b).what = "IA" /\ conf.known /\ ~conf.self)
  /\ UNCHANGED <<conf, a, toA, tries>>

readPeerIdB ==
  /\ InB("AWAITING_PEER_ID")
  /\ toB' = Tail(toB)
  /\ DoneB(Next1(toB, b).what = "peer id" /\ ~conf.self)
  /\ UNCHANGED <<conf, a, toA, tries>>

(***************************************************************************)
(* Errors, reconnections, time.                                            *)
(***************************************************************************)
Broken == ~open

\* tr_peerIoReconnect, and our handshake: B knows nothing of the connection before.  The
\* encryption stays as it is.  It may fail, unless the network never does.
Reconnect ==
  /\ tries < MaxConnections /\ tries' = tries + 1
  /\ b' = Side("AWAITING_HANDSHAKE", NONE, FALSE)
  /\ toA' = <<>> /\ toB' = BitTorrentHandshake(a.enc)
MayNotReconnect == ~conf.reliable \/ tries = MaxConnections

MayRetry == a.state \in {"AWAITING_YB", "AWAITING_VC"} /\ conf.A # TR_ENCRYPTION_REQUIRED

\* gotError of the outgoing side, when all has been read.  A connection by uTP that never
\* answered is tried again by TCP, and given up in the same breath if that works.
\* Otherwise, with a peer that may not know encryption, another one is tried in plain text.
gotErrorA ==
  LET MayRetryByTcp == conf.utp /\ tries = 1 /\ a.state = "AWAITING_YB" IN
  /\ Broken /\ Waiting(a) /\ ~ReadsA
  /\ \/ MayRetryByTcp /\ Reconnect /\ DoneA(FALSE)
     \/ /\ MayRetryByTcp => MayNotReconnect
        /\ MayRetry /\ Reconnect /\ open' = TRUE
        /\ a' = [a EXCEPT !.state = "AWAITING_HANDSHAKE", !.sent = TRUE]
     \/ /\ MayRetryByTcp \/ MayRetry => MayNotReconnect
        /\ DoneA(FALSE) /\ UNCHANGED <<b, toA, toB, tries>>
  /\ UNCHANGED conf

gotErrorB ==
  /\ Broken /\ Waiting(b) /\ ~ReadsB
  /\ DoneB(FALSE)
  /\ UNCHANGED <<conf, a, toA, toB, tries>>

NetworkFails ==
  /\ open /\ ~conf.reliable
  /\ open' = FALSE /\ toA' = <<>> /\ toB' = <<>>
  /\ UNCHANGED <<conf, a, b, tries>>

\* Neither side has anything that it reads.
Stuck == open /\ ~ReadsA /\ ~ReadsB

\* handshakeTimeout: a handshake takes more than HANDSHAKE_TIMEOUT_SEC, because the network is
\* slow or nothing more comes.  tr_handshakeAbort, when the torrent stops, does the same.
TimeoutA == /\ Waiting(a) /\ (conf.reliable => Stuck)
            /\ DoneA(FALSE) /\ UNCHANGED <<conf, b, toA, toB, tries>>
TimeoutB == /\ Waiting(b) /\ (conf.reliable => Stuck)
            /\ DoneB(FALSE) /\ UNCHANGED <<conf, a, toA, toB, tries>>

Next == \/ readYb \/ readVC \/ readCryptoSelect \/ readPadD \/ readHandshakeA \/ readPeerIdA
        \/ gotErrorA \/ TimeoutA
        \/ readHandshakeB \/ readYa \/ readPadA \/ readCryptoProvide \/ readPadC \/ readIA
        \/ readPayloadStream \/ readPeerIdB \/ gotErrorB \/ TimeoutB
        \/ NetworkFails

(***************************************************************************)
(* Properties.                                                             *)
(***************************************************************************)
StatesOfA == {"AWAITING_YB", "AWAITING_VC", "AWAITING_CRYPTO_SELECT", "AWAITING_PAD_D",
              "AWAITING_HANDSHAKE", "AWAITING_PEER_ID"}
StatesOfB == {"AWAITING_HANDSHAKE", "AWAITING_YA", "AWAITING_PAD_A", "AWAITING_CRYPTO_PROVIDE",
              "AWAITING_PAD_C", "AWAITING_IA", "AWAITING_PAYLOAD_STREAM", "AWAITING_PEER_ID"}

TypeOK ==
  /\ a.state \in StatesOfA /\ b.state \in StatesOfB
  /\ {a.enc, b.enc} \cup a.crypto \cup b.crypto \subseteq {NONE, RC4}
  /\ {a.result, b.result} \subseteq {"none", "ok", "failed"}
  /\ tries \in 1 .. MaxConnections

\* Two sides that both take the handshake for done read each other: they encrypt alike, with
\* what both modes allow, and a client that wants encryption of a peer that has it gets it.
SidesAgree ==
  a.result = "ok" /\ b.result = "ok" =>
    /\ a.enc = b.enc
    /\ TR_ENCRYPTION_REQUIRED \in {conf.A} \cup (IF conf.plainB THEN {} ELSE {conf.B}) => a.enc = RC4
    /\ ~conf.self /\ conf.known

\* Where nothing goes wrong and the modes allow it, the handshake succeeds on both sides,
\* with a client that speaks no encryption after one more try; and neither side waits for
\* the other in vain.  (A client that prefers plain text never asks for encryption, so that
\* it does not reach one that requires it.)
Compatible == IF conf.plainB THEN conf.A # TR_ENCRYPTION_REQUIRED /\ ~conf.utp
              ELSE {conf.A, conf.B} # {TR_CLEAR_PREFERRED, TR_ENCRYPTION_REQUIRED} \/ conf.A = TR_ENCRYPTION_REQUIRED
Succeeds ==
  conf.reliable /\ conf.known /\ ~conf.self /\ ~conf.seeds /\ Compatible =>
    /\ a.result # "failed" /\ (b.result = "failed" => conf.plainB)
    /\ Stuck => a.result = "ok" /\ b.result = "ok"
=============================================================================
