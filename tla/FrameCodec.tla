----------------------------- MODULE FrameCodec -----------------------------
(***************************************************************************)
(* The byte level of the blocking transport: the frame layout of           *)
(* Query.serialize (core/net/msg.py), the chunk loop of DefaultClient's    *)
(* recvall and readuntil (net/default_net/_client.py), and the two-phase  *)
(* read of RdbProtocol.read_response (core/net/protocol.py) driven by      *)
(* DefaultTransport.run_query (net/default_net/transport.py).             *)
(*                                                                         *)
(* The peer first writes the null-terminated handshake reply that          *)
(* DefaultTransport.connect reads with readuntil, then response frames.    *)
(* The TCP stream delivers what was written in order, in chunks of any     *)
(* size: one recv returns between one byte and what was asked for.        *)
(*                                                                         *)
(* Widths are scaled: a "byte" holds ByteBase values and a header has      *)
(* TokenBytes + LengthBytes of them (8 + 4 octets in the code).  Packing   *)
(* and unpacking are the little-endian arithmetic of struct, at that      *)
(* width, so what "<QL" and "<qL" do to a value is kept.                   *)
(***************************************************************************)
EXTENDS Integers, Sequences, SequencesExt

CONSTANTS
    ByteBase,     \* values a byte can hold (256 in the code)
    TokenBytes,   \* bytes of the token field (8)
    LengthBytes,  \* bytes of the length field (4)
    TokenValues,  \* tokens the peer answers
    Bodies,       \* response bodies: nonempty sequences of bytes
    HsReply,      \* the handshake reply, without its terminating zero byte
    MaxFrames     \* bound on the frames the peer writes

ASSUME ByteBaseAssumption == ByteBase \in Nat /\ ByteBase >= 2
ASSUME WidthAssumption == TokenBytes \in Nat \ {0} /\ LengthBytes \in Nat \ {0}
ASSUME TokenValuesAssumption == TokenValues \subseteq 0..(ByteBase^TokenBytes - 1)
ASSUME BodiesAssumption ==
    Bodies \subseteq Seq(0..(ByteBase - 1)) \ {<<>>}
    /\ \A b \in Bodies : Len(b) < ByteBase^LengthBytes
ASSUME HsReplyAssumption == HsReply \in Seq(1..(ByteBase - 1))

\* RdbProtocol.HEADER_SIZE.
HeaderSize == TokenBytes + LengthBytes

\* struct.pack of an unsigned integer in n little-endian bytes.
PackUnsigned(v, n) == [i \in 1..n |-> (v \div ByteBase^(i - 1)) % ByteBase]

\* struct.unpack of n little-endian bytes as an unsigned integer.
UnpackUnsigned(bs) == FoldRight(LAMBDA b, acc : b + ByteBase * acc, bs, 0)

\* struct.unpack of n little-endian bytes as a two's-complement integer.
UnpackSigned(bs) ==
    LET u == UnpackUnsigned(bs)
    IN  IF u >= ByteBase^Len(bs) \div 2 THEN u - ByteBase^Len(bs) ELSE u

\* Query.serialize: struct.pack("<QL", token, len(body)) + body.  The peer
\* writes its response frames in the same layout.
Serialize(t, body) ==
    PackUnsigned(t, TokenBytes) \o PackUnsigned(Len(body), LengthBytes) \o body

\* The token of read_response's header: struct.unpack("<qL")[0].
HeaderToken(hdr) == UnpackSigned(SubSeq(hdr, 1, TokenBytes))

\* Mutant: the length field unpacked as signed ("<ql").
HeaderLength_signed(hdr) == UnpackSigned(SubSeq(hdr, TokenBytes + 1, HeaderSize))

\* The body length of read_response's header: struct.unpack("<qL")[1].
HeaderLength(hdr) == UnpackUnsigned(SubSeq(hdr, TokenBytes + 1, HeaderSize))

Frames == [tok : TokenValues, body : Bodies]

VARIABLES
    wire,    \* bytes written by the peer not yet received
    sent,    \* the frames the peer wrote, in order
    got,     \* the frames read_response has read, in order
    phase,   \* what the reader is reading: "hs", "hdr" or "body"
    need,    \* the length of the recvall in progress
    buf,     \* recvall's res: the bytes it has received so far
    hlen,    \* the body length unpacked from the current header
    htok     \* the token unpacked from the current header

vars == <<wire, sent, got, phase, need, buf, hlen, htok>>

-----------------------------------------------------------------------------

\* The peer writes a response frame.
Write ==
    /\ Len(sent) < MaxFrames
    /\ \E f \in Frames :
         /\ wire' = wire \o Serialize(f.tok, f.body)
         /\ sent' = Append(sent, f)
    /\ UNCHANGED <<got, phase, need, buf, hlen, htok>>

\* Mutant: recv is asked for the whole length on every pass of the loop.
Recv_wholeLength ==
    /\ Len(buf) < need
    /\ \E k \in 1..Min({need, Len(wire)}) :
         /\ buf' = buf \o SubSeq(wire, 1, k)
         /\ wire' = SubSeq(wire, k + 1, Len(wire))
    /\ UNCHANGED <<sent, got, phase, need, hlen, htok>>

\* One pass of recvall's loop: while len(res) < length, a recv of
\* length - len(res) bytes returns some of the bytes in flight.
Recv ==
    /\ Len(buf) < need
    /\ \E k \in 1..Min({need - Len(buf), Len(wire)}) :
         /\ buf' = buf \o SubSeq(wire, 1, k)
         /\ wire' = SubSeq(wire, k + 1, Len(wire))
    /\ UNCHANGED <<sent, got, phase, need, hlen, htok>>

\* readuntil(b"\0"): recvall(1) returned a byte; the reply ends at the
\* zero byte, and then connect's generator is done and run_query's
\* read_response asks for a header.
ReadUntilByte ==
    /\ phase = "hs"
    /\ Len(buf) = need
    /\ IF buf[1] = 0
         THEN phase' = "hdr" /\ need' = HeaderSize
         ELSE UNCHANGED <<phase, need>>
    /\ buf' = <<>>
    /\ UNCHANGED <<wire, sent, got, hlen, htok>>

\* read_response after its first recvall: unpack the header, then ask for
\* the body.
UnpackHeader ==
    /\ phase = "hdr"
    /\ Len(buf) = need
    /\ htok' = HeaderToken(buf)
    /\ hlen' = HeaderLength(buf)
    /\ need' = HeaderLength(buf)
    /\ phase' = "body"
    /\ buf' = <<>>
    /\ UNCHANGED <<wire, sent, got>>

\* read_response after its second recvall: the frame is read; the next
\* run_query asks for the next header.
ReadBody ==
    /\ phase = "body"
    /\ Len(buf) = need
    /\ got' = Append(got, [tok |-> htok, body |-> buf])
    /\ phase' = "hdr"
    /\ need' = HeaderSize
    /\ buf' = <<>>
    /\ UNCHANGED <<wire, sent, hlen, htok>>

-----------------------------------------------------------------------------

Init ==
    /\ wire = HsReply \o <<0>>
    /\ sent = <<>>
    /\ got = <<>>
    /\ phase = "hs"
    /\ need = 1
    /\ buf = <<>>
    /\ hlen = 0
    /\ htok = 0

\* The reader's steps.
Read == Recv \/ ReadUntilByte \/ UnpackHeader \/ ReadBody

Next == Write \/ Read

\* The reader keeps being scheduled; the peer owes nothing.
Spec == Init /\ [][Next]_vars /\ WF_vars(Read)

-----------------------------------------------------------------------------
(* Properties.                                                             *)

TypeOK ==
    /\ wire \in Seq(0..(ByteBase - 1))
    /\ sent \in Seq(Frames)
    /\ got \in Seq([tok : Int, body : Seq(0..(ByteBase - 1))])
    /\ phase \in {"hs", "hdr", "body"}
    /\ need \in Nat
    /\ buf \in Seq(0..(ByteBase - 1))
    /\ hlen \in Nat

\* The codec implements the frame stream: read_response, over recvall's
\* chunk loop after readuntil, takes the frames written, whole, in order,
\* each once, and takes every one of them eventually.
Stream == INSTANCE FrameStream
StreamRefined == Stream!Spec

=============================================================================
