-------------------------------- MODULE Rlpx --------------------------------
(***************************************************************************)
(* The encrypted transport of a connection (p2p/conn.go): the handshake, in *)
(* which both ends derive the same secrets, and the frames.  Cryptography   *)
(* is symbolic: a key, nonce or digest is a term of what it is made from,   *)
(* an encrypted stream is the position of its cipher, a MAC the sequence of *)
(* what was written to it.  Lengths are real, because each end must read    *)
(* exactly the bytes that the other wrote.                                  *)
(***************************************************************************)
EXTENDS Integers, Sequences, SequencesExt

CONSTANTS PlainLen,   \* encAuthMsgLen and encAuthRespLen, by packet
          SealedLens, \* the lengths of an EIP-8 packet, without its prefix
          FrameBlock, \* 16
          LenBase,    \* the values of a byte; a frame's length has three bytes
          Payloads,   \* lengths of messages
          MaxFrames   \* bound: messages written by each end

Ends == {"initiator", "receiver"}
Other(e) == CHOOSE f \in Ends : f # e
MaxUint24 == LenBase * LenBase * LenBase - 1

VARIABLES rlpxHand,   \* the handshake of each end: its step and what it knows
          rlpxWire,   \* the packets on the way to each end
          stream, \* the frame reader and writer of each end, once there are secrets
          rlpxSent, rlpxRead, \* the lengths of the messages written and read by each end
          rlpxBroken  \* an end has met an error in what it read

rlpxVars == <<rlpxHand, rlpxWire, stream, rlpxSent, rlpxRead, rlpxBroken>>

NoSecrets == [aes |-> <<>>, mac |-> <<>>, egress |-> <<>>, ingress |-> <<>>,
              enc |-> 0, dec |-> 0]

RlpxInit ==
  /\ rlpxHand = [e \in Ends |-> [at |-> "start", random |-> e, remote |-> "none",
                             initNonce |-> "none", respNonce |-> "none", auth |-> <<>>]]
  /\ rlpxWire = [e \in Ends |-> <<>>]
  /\ stream = [e \in Ends |-> NoSecrets]
  /\ rlpxSent = [e \in Ends |-> <<>>] /\ rlpxRead = [e \in Ends |-> <<>>]
  /\ rlpxBroken = FALSE

(***************************************************************************)
(* The handshake                                                            *)
(***************************************************************************)

Egress(e, mac1, mac2) == IF e = "initiator" THEN mac1 ELSE mac2

\* secrets: auth and resp are the packets as bytes.  An EC Diffie-Hellman
\* secret is the same for both ends, hence the set.
Secrets(e, h, auth, resp) ==
  LET ecdhe == {h.random, h.remote}
      shared == <<ecdhe, <<h.respNonce, h.initNonce>>>>
      aes == <<ecdhe, shared>>
      mac == <<ecdhe, aes>>
      mac1 == << <<mac, h.respNonce, auth>> >>
      mac2 == << <<mac, h.initNonce, resp>> >>
  IN [aes |-> aes, mac |-> mac, enc |-> 0, dec |-> 0,
      egress |-> Egress(e, mac1, mac2),
      ingress |-> IF e = "initiator" THEN mac2 ELSE mac1]

\* What staticSharedSecret and the signature stand for: the receiver recovers
\* the key that signed the nonce.
SignedBy(key, nonce) == [key |-> key, nonce |-> nonce]
Recover(sig, nonce) == IF sig.nonce = nonce THEN sig.key ELSE "wrong"

\* sealEIP8 and sealPlain: the packet and the bytes it has.
Packet(style, len, body) ==
  [style |-> style, size |-> len, body |-> body,
   bytes |-> IF style = "plain" THEN len ELSE len + 2]

\* readHandshakeMsg: the bytes it reads of a packet; 0 if it gives up.
HandshakeRead(p, plain) ==
  IF p.style = "plain" THEN plain
  ELSE IF p.size < plain THEN 0 ELSE plain + (p.size - plain + 2)

\* initiatorEncHandshake up to the write.  This program always seals by
\* EIP-8; a receiver must also understand the older plain packet.
SendAuth(style, len) ==
  LET p == Packet(style, len, [sig |-> SignedBy("initiator", "ni"), nonce |-> "ni"])
  IN /\ rlpxHand["initiator"].at = "start"
     /\ style = "plain" <=> len = PlainLen.auth
     /\ rlpxHand' = [rlpxHand EXCEPT !["initiator"].at = "resp", !["initiator"].initNonce = "ni",
                             !["initiator"].auth = p]
     /\ rlpxWire' = [rlpxWire EXCEPT !["receiver"] = Append(@, p)]
     /\ UNCHANGED <<stream, rlpxSent, rlpxRead, rlpxBroken>>

\* receiverEncHandshake: the answer is plain if the request was.
AcceptAuth(len) ==
  LET p == Head(rlpxWire["receiver"])
      q == Packet(p.style, len, [random |-> "receiver", nonce |-> "nr"])
      h == [rlpxHand["receiver"] EXCEPT !.at = "done", !.initNonce = p.body.nonce,
              !.respNonce = "nr", !.remote = Recover(p.body.sig, p.body.nonce)]
  IN /\ rlpxHand["receiver"].at = "start" /\ rlpxWire["receiver"] # <<>>
     /\ p.style = "plain" <=> len = PlainLen.resp
     /\ rlpxWire' = [rlpxWire EXCEPT !["receiver"] = Tail(@), !["initiator"] = Append(@, q)]
     /\ rlpxBroken' = (HandshakeRead(p, PlainLen.auth) # p.bytes)
     /\ rlpxHand' = [rlpxHand EXCEPT !["receiver"] = h]
     /\ stream' = [stream EXCEPT !["receiver"] = Secrets("receiver", h, p, q)]
     /\ UNCHANGED <<rlpxSent, rlpxRead>>

\* initiatorEncHandshake after the answer has come.
HandleAuthResp ==
  LET q == Head(rlpxWire["initiator"])
      h == [rlpxHand["initiator"] EXCEPT !.at = "done", !.respNonce = q.body.nonce,
              !.remote = q.body.random]
  IN /\ rlpxHand["initiator"].at = "resp" /\ rlpxWire["initiator"] # <<>>
     /\ rlpxWire' = [rlpxWire EXCEPT !["initiator"] = Tail(@)]
     /\ rlpxBroken' = (HandshakeRead(q, PlainLen.resp) # q.bytes)
     /\ rlpxHand' = [rlpxHand EXCEPT !["initiator"] = h]
     /\ stream' = [stream EXCEPT !["initiator"] =
                     Secrets("initiator", h, rlpxHand["initiator"].auth, q)]
     /\ UNCHANGED <<rlpxSent, rlpxRead>>

(***************************************************************************)
(* Frames                                                                   *)
(***************************************************************************)

\* putInt24 and readInt24
PutInt24(v) == <<(v \div (LenBase * LenBase)) % LenBase, (v \div LenBase) % LenBase,
                 v % LenBase>>
ReadInt24(b) == b[3] + b[2] * LenBase + b[1] * LenBase * LenBase

Padding(n) == IF n % FrameBlock > 0 THEN FrameBlock - (n % FrameBlock) ELSE 0

\* Mutant: the header is encrypted before the length is checked.
WriteMsgLate(e, len) ==
  /\ rlpxHand[e].at = "done" /\ ~rlpxBroken /\ Len(rlpxSent[e]) < MaxFrames
  /\ len > MaxUint24
  /\ stream' = [stream EXCEPT ![e].enc = @ + FrameBlock]
  /\ UNCHANGED <<rlpxHand, rlpxWire, rlpxSent, rlpxRead, rlpxBroken>>

\* WriteMsg of a message too long for a frame: an error, and nothing has
\* changed.
WriteMsgTooLong(e, len) ==
  /\ rlpxHand[e].at = "done" /\ ~rlpxBroken /\ Len(rlpxSent[e]) < MaxFrames
  /\ len > MaxUint24
  /\ UNCHANGED rlpxVars

\* WriteMsg: the header, its MAC, the encrypted body with the padding, its MAC.
WriteFrame(e, len) ==
  LET s == stream[e]
      body == len + Padding(len)
      head == <<"head", PutInt24(len), s.enc>>
      frame == <<"body", len, s.enc + FrameBlock>>
  IN /\ rlpxHand[e].at = "done" /\ ~rlpxBroken /\ Len(rlpxSent[e]) < MaxFrames
     /\ len <= MaxUint24
     /\ rlpxWire' = [rlpxWire EXCEPT ![Other(e)] = Append(@,
          [head |-> head, headMAC |-> Append(s.egress, head), frame |-> frame,
           frameMAC |-> s.egress \o <<head, frame>>,
           bytes |-> 3 * FrameBlock + body])]
     /\ stream' = [stream EXCEPT ![e].enc = @ + FrameBlock + body,
                                 ![e].egress = @ \o <<head, frame>>]
     /\ rlpxSent' = [rlpxSent EXCEPT ![e] = Append(@, len)]
     /\ UNCHANGED <<rlpxHand, rlpxRead, rlpxBroken>>

\* ReadMsg: a MAC or a position that does not fit is an error.
ReadFrame(e) ==
  LET f == Head(rlpxWire[e])
      s == stream[e]
      fsize == ReadInt24(f.head[2])
      rsize == fsize + (IF fsize % FrameBlock > 0 THEN FrameBlock - (fsize % FrameBlock) ELSE 0)
      fits == /\ f.headMAC = Append(s.ingress, f.head) /\ f.head[3] = s.dec
              /\ f.frameMAC = s.ingress \o <<f.head, f.frame>>
              /\ f.frame[3] = s.dec + FrameBlock
              /\ f.bytes = 3 * FrameBlock + rsize
  IN /\ rlpxHand[e].at = "done" /\ rlpxWire[e] # <<>> /\ ~rlpxBroken
     /\ rlpxWire' = [rlpxWire EXCEPT ![e] = Tail(@)]
     /\ rlpxBroken' = ~fits
     /\ stream' = [stream EXCEPT ![e].dec = @ + FrameBlock + rsize,
                                 ![e].ingress = @ \o <<f.head, f.frame>>]
     /\ rlpxRead' = [rlpxRead EXCEPT ![e] = Append(@, fsize)]
     /\ UNCHANGED <<rlpxHand, rlpxSent>>

RlpxNext ==
  \/ \E len \in SealedLens : SendAuth("sealed", len) \/ AcceptAuth(len)
  \/ SendAuth("plain", PlainLen.auth) \/ AcceptAuth(PlainLen.resp)
  \/ HandleAuthResp
  \/ \E e \in Ends : ReadFrame(e) \/ \E len \in Payloads :
       WriteFrame(e, len) \/ WriteMsgTooLong(e, len)

(***************************************************************************)
(* Properties                                                               *)
(***************************************************************************)

\* When both ends have finished the handshake they have the same keys, and
\* each reads with the MAC the other writes with, although one derives them
\* from what it sent and the other from what it received (conn.go, secrets).
\* From then on every end reads the messages that the other wrote, in order
\* and with their lengths, and never meets an error: the ciphers and MACs of
\* both ends stay in step through empty bodies, full blocks, the largest frame
\* and refused messages, and no packet is read short or beyond its end
\* (WriteMsg, ReadMsg, readHandshakeMsg).
StreamsInStep ==
  /\ ~rlpxBroken
  /\ \A e \in Ends : IsPrefix(rlpxRead[e], rlpxSent[Other(e)])
  /\ (\A e \in Ends : rlpxHand[e].at = "done") /\ rlpxSent = [e \in Ends |-> <<>>] =>
       LET i == stream["initiator"]
           r == stream["receiver"]
       IN i.aes = r.aes /\ i.mac = r.mac /\ i.egress = r.ingress /\ i.ingress = r.egress
=============================================================================
