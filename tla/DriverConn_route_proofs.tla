------------------------ MODULE DriverConn_route_proofs ------------------------
(***************************************************************************)
(* Response routing (RdbProtocol.read_response over DefaultTransport and    *)
(* DefaultClient) for one caller thread: the header a caller reads carries *)
(* the token of its own query.  With two threads this is false (the         *)
(* misroute run: each thread reads the next frame off the shared socket),  *)
(* so the proof is what pins the fault on the sharing: a thread alone on a  *)
(* connection never takes another query's response, whatever the server   *)
(* and the network do.                                                      *)
(***************************************************************************)
EXTENDS DriverConn_hs_proofs

\* The server has written part of a response frame into the stream.
FrameIn(s) == \E i \in 1..Len(s) : s[i].k # "hs"

\* No query in the client stream expects a reply.
ReplyFree(s) == \A i \in 1..Len(s) : s[i].k = "query" => s[i].noreply

\* The caller's query is the last message of the client stream and the only
\* one there that expects a reply; the server has not answered it yet.
QueryLast(c) ==
    /\ c2s # <<>>
    /\ c2s[Len(c2s)].k = "query"
    /\ ~c2s[Len(c2s)].noreply
    /\ c2s[Len(c2s)].tok = qtok[c]
    /\ \A i \in 1..Len(c2s) - 1 : c2s[i].k = "query" => c2s[i].noreply
    /\ ~FrameIn(s2c)

\* What is left of the one frame answering token t ends the server stream:
\* its body is the last message and its header, if still unread, comes
\* right before it.
FrameTail(s, t) ==
    \A i \in 1..Len(s) :
        /\ s[i].k = "body" => i = Len(s)
        /\ s[i].k = "hdr" => i + 1 = Len(s) /\ s[i].tok = t

\* What is left once the header of that frame has been read: at most its
\* body, first in the stream.
BodyFirst(s) == \A i \in 1..Len(s) : s[i].k # "hdr" /\ (s[i].k = "body" => i = 1)

(***************************************************************************)
(* The inductive invariant.  A thread alone on the connection has at most  *)
(* one query in flight that expects a reply, so at most one frame is ever  *)
(* in the streams, and it answers the thread's current query.  A failed   *)
(* read, which ends the query without its frame, happens only once the     *)
(* stream is dead, and a dead stream holds nothing.  The server writes a   *)
(* frame only in a ready session, where it never writes handshake replies. *)
(***************************************************************************)
\* A dead stream holds nothing, and frames come only from a ready session.
StreamsInv ==
    /\ sock = "none" => link = "none" /\ c2s = <<>> /\ s2c = <<>>
    /\ link = "rst" => c2s = <<>> /\ s2c = <<>>
    /\ FrameIn(s2c) => srv = "ready"

\* What the streams hold at each point of caller c's operation.
RouteAt(c) ==
    /\ pc[c] \notin {"hdr", "body", "garbled"} =>
         ReplyFree(c2s) /\ ~FrameIn(s2c)
    /\ pc[c] = "send" => out[c].tok = qtok[c]
    /\ pc[c] \in {"hdr", "garbled"} =>
         \/ QueryLast(c)
         \/ ReplyFree(c2s) /\ FrameTail(s2c, qtok[c])
    /\ pc[c] = "body" =>
         htok[c] = qtok[c] /\ ReplyFree(c2s) /\ BodyFirst(s2c)

RouteInv == StreamsInv /\ \A c \in Callers : RouteAt(c)

\* The invariant with the type facts the proof needs.
RIInv == TypeOK /\ RouteInv

-----------------------------------------------------------------------------
(* Lemmas about the stream predicates: what reading the head, appending a  *)
(* message and appending a frame do to them.                               *)

LEMMA EmptyStreams ==
    /\ ~FrameIn(<<>>) /\ ReplyFree(<<>>) /\ BodyFirst(<<>>)
    /\ \A t : FrameTail(<<>>, t)
BY DEF FrameIn, ReplyFree, BodyFirst, FrameTail

LEMMA NoFrameTail ==
    ASSUME NEW s \in Seq(ServerMsgs), ~FrameIn(s), NEW t
    PROVE  FrameTail(s, t) /\ BodyFirst(s)
BY DEF FrameIn, FrameTail, BodyFirst

LEMMA NoFrameTailRead ==
    ASSUME NEW s \in Seq(ServerMsgs), s # <<>>, ~FrameIn(s)
    PROVE  ~FrameIn(Tail(s)) /\ Head(s).k = "hs"
BY DEF FrameIn

LEMMA ReplyFreeRead ==
    ASSUME NEW s \in Seq(ClientMsgs), s # <<>>, ReplyFree(s)
    PROVE  ReplyFree(Tail(s))
BY DEF ReplyFree

LEMMA ReplyFreeSend ==
    ASSUME NEW s \in Seq(ClientMsgs), ReplyFree(s), NEW m,
           m.k = "query" => m.noreply
    PROVE  ReplyFree(Append(s, m))
BY DEF ReplyFree

LEMMA NoFrameSend ==
    ASSUME NEW s \in Seq(ServerMsgs), ~FrameIn(s), NEW m, m.k = "hs"
    PROVE  ~FrameIn(Append(s, m))
BY DEF FrameIn

LEMMA NoFrameConcat ==
    ASSUME NEW s \in Seq(ServerMsgs), NEW u \in Seq(ServerMsgs),
           ~FrameIn(s), ~FrameIn(u)
    PROVE  ~FrameIn(s \o u)
BY DEF FrameIn

LEMMA NoFrameHsReplies ==
    ASSUME NEW s \in Seq(ServerMsgs), ~FrameIn(s), NEW rs \in Seq(HsReplies)
    PROVE  ~FrameIn(s \o HsMsgs(rs))
<1>1. HsMsgs(rs) \in Seq(ServerMsgs)
  BY HsMsgsType
<1>2. \A i \in DOMAIN HsMsgs(rs) : HsMsgs(rs)[i].k = "hs"
  BY DEF HsMsgs
<1>3. DOMAIN HsMsgs(rs) = 1..Len(HsMsgs(rs))
  BY <1>1
<1>4. ~FrameIn(HsMsgs(rs))
  BY <1>2, <1>3 DEF FrameIn
<1>5. QED
  BY <1>1, <1>4, NoFrameConcat

\* The server answers the query of token t: the frame ends the stream.
LEMMA FrameSend ==
    ASSUME NEW s \in Seq(ServerMsgs), ~FrameIn(s), NEW t, NEW rt
    PROVE  FrameTail(s \o <<[k |-> "hdr", tok |-> t],
                            [k |-> "body", rt |-> rt]>>, t)
BY DEF FrameIn, FrameTail

\* A read that does not find the header keeps the frame at the end.
LEMMA FrameTailRead ==
    ASSUME NEW s \in Seq(ServerMsgs), s # <<>>, NEW t, FrameTail(s, t)
    PROVE  FrameTail(Tail(s), t)
BY DEF FrameTail

\* A read that finds the header: it is the frame's, and its body is next.
LEMMA FrameTailHeader ==
    ASSUME NEW s \in Seq(ServerMsgs), s # <<>>, NEW t, FrameTail(s, t),
           Head(s).k = "hdr"
    PROVE  Head(s).tok = t /\ BodyFirst(Tail(s))
BY DEF FrameTail, BodyFirst

\* Reading the body leaves no frame behind; reading something else first
\* leaves none either.
LEMMA TailFrameIn ==
    ASSUME NEW s \in Seq(ServerMsgs), s # <<>>, FrameIn(Tail(s))
    PROVE  FrameIn(s)
BY DEF FrameIn

LEMMA ServerMsgKinds ==
    ASSUME NEW m \in ServerMsgs
    PROVE  m.k \in {"hs", "hdr", "body"}
BY DEF ServerMsgs

LEMMA BodyFirstRead ==
    ASSUME NEW s \in Seq(ServerMsgs), s # <<>>, BodyFirst(s)
    PROVE  ~FrameIn(Tail(s))
<1> SUFFICES ASSUME NEW i \in 1..Len(Tail(s)), Tail(s)[i].k # "hs"
             PROVE  FALSE
  BY DEF FrameIn
<1>1. Tail(s)[i] = s[i + 1] /\ i + 1 \in 2..Len(s)
  OBVIOUS
<1>2. s[i + 1].k \in {"hs", "hdr", "body"}
  BY <1>1, ServerMsgKinds
<1>3. QED
  BY <1>1, <1>2 DEF BodyFirst

-----------------------------------------------------------------------------
(* One lemma per action.  With one caller, the invariant after a step of   *)
(* that caller (or of the environment) is StreamsInv and RouteAt of it.    *)

LEMMA RouteOne ==
    ASSUME OneCaller, NEW c \in Callers, StreamsInv', RouteAt(c)'
    PROVE  RouteInv'
<1>1. \A d \in Callers : d = c
  BY DEF OneCaller
<1>2. QED
  BY <1>1 DEF RouteInv

\* A step that leaves both streams empty and the caller outside a response
\* read (a close of the client, a failed read on a dead stream).
LEMMA RouteEmpty ==
    ASSUME OneCaller, NEW c \in Callers, c2s' = <<>>, s2c' = <<>>,
           pc'[c] \notin {"send", "hdr", "body", "garbled"},
           sock' = "none" => link' = "none"
    PROVE  RouteInv'
<1>1. StreamsInv'
  BY EmptyStreams DEF StreamsInv
<1>2. RouteAt(c)'
  BY EmptyStreams DEF RouteAt
<1>3. QED
  BY <1>1, <1>2, RouteOne

\* A failed recvall ends the operation only on a dead stream, which holds
\* nothing: no frame outlives the query it answers.
LEMMA RouteReadFails ==
    ASSUME TypeOK, RouteInv, OneCaller, NEW c \in Callers, ReadFails(c)
    PROVE  RouteInv'
<1>1. pc'[c] = "idle"
  BY ReturnIdle DEF ReadFails
<1>2. CASE RecvEOF
  BY <1>1, <1>2, RouteEmpty DEF RecvEOF, ClientClose
<1>3. CASE RecvReset \/ RecvClosed
  <2>1. UNCHANGED <<sock, link, c2s, s2c>>
    BY <1>3 DEF RecvReset, RecvClosed
  <2>2. c2s = <<>> /\ s2c = <<>>
    BY <1>3 DEF RecvReset, RecvClosed, RouteInv, StreamsInv
  <2>3. QED
    BY <1>1, <2>1, <2>2, RouteEmpty DEF RouteInv, StreamsInv
<1>4. QED
  BY <1>2, <1>3 DEF ReadFails, RecvFails

\* build_query from an idle caller: the streams are untouched, and the
\* query the caller holds carries the token it will read a response for.
LEMMA RouteDraw ==
    ASSUME TypeOK, RouteInv, OneCaller, NEW c \in Callers, pc[c] = "idle",
           NEW q, NEW cont, Draw(c, q, cont),
           UNCHANGED <<sock, link, srv, c2s, s2c, htok>>
    PROVE  RouteInv'
<1>1. ReplyFree(c2s) /\ ~FrameIn(s2c) /\ StreamsInv
  BY DEF RouteInv, RouteAt
<1>2. pc'[c] = "send" /\ out'[c].tok = qtok'[c]
  BY DEF Draw, TypeOK
<1>3. StreamsInv'
  BY <1>1 DEF StreamsInv
<1>4. RouteAt(c)'
  BY <1>1, <1>2 DEF RouteAt
<1>5. QED
  BY <1>3, <1>4, RouteOne

\* sendall of the query a caller built: a noreply query returns at once,
\* any other becomes the one query in flight that expects a reply.
LEMMA RouteSend ==
    ASSUME TypeOK, RouteInv, OneCaller, NEW c \in Callers, Send(c)
    PROVE  RouteInv'
<1> DEFINE q == out[c]
<1>1. /\ pc[c] = "send" /\ q.tok = qtok[c]
      /\ ReplyFree(c2s) /\ ~FrameIn(s2c) /\ StreamsInv
  BY DEF Send, RouteInv, RouteAt
<1>2. q \in ClientMsgs /\ q.k = "query"
  BY <1>1, QueryMsgsFields DEF TypeOK
<1>3. UNCHANGED <<sock, link, srv, s2c, qtok, htok>>
  BY DEF Send
<1>4. \/ c2s' = c2s
      \/ link \in {"up", "fin"} /\ c2s' = Append(c2s, q)
  BY DEF Send, RunQuery, SendReturns, SendRaises
<1>5. StreamsInv'
  BY <1>1, <1>3, <1>4 DEF StreamsInv
<1>6. c2s \in Seq(ClientMsgs) /\ s2c \in Seq(ServerMsgs)
  BY DEF TypeOK
<1>7. CASE /\ SendReturns(q)
           /\ IF q.noreply
                THEN Return(c, "ok")
                ELSE pc' = [pc EXCEPT ![c] = "hdr"] /\ UNCHANGED res
  <2>1. CASE q.noreply
    <3>1. pc'[c] = "idle" /\ ReplyFree(c2s')
      BY <1>1, <1>2, <1>4, <1>6, <1>7, <2>1, ReplyFreeSend, ReturnIdle
    <3>2. RouteAt(c)'
      BY <1>1, <1>3, <3>1 DEF RouteAt
    <3>3. QED
      BY <1>5, <3>2, RouteOne
  <2>2. CASE ~q.noreply
    <3>1. pc'[c] = "hdr" /\ qtok'[c] = q.tok
      BY <1>1, <1>3, <1>7, <2>2 DEF TypeOK
    <3>2. CASE link = "up"
      <4>1. c2s' = Append(c2s, q)
        BY <1>7, <3>2 DEF SendReturns
      <4>2. QueryLast(c)'
        BY <1>1, <1>2, <1>3, <1>6, <2>2, <3>1, <4>1 DEF QueryLast, ReplyFree
      <4>3. QED
        BY <1>5, <3>1, <4>2, RouteOne DEF RouteAt
    <3>3. CASE link # "up"
      <4>1. c2s' = c2s
        BY <1>7, <3>3 DEF SendReturns
      <4>2. FrameTail(s2c', qtok'[c])
        BY <1>1, <1>3, <1>6, NoFrameTail
      <4>3. QED
        BY <1>1, <1>5, <3>1, <4>1, <4>2, RouteOne DEF RouteAt
    <3>4. QED
      BY <3>2, <3>3
  <2>3. QED
    BY <2>1, <2>2
<1>8. CASE SendRaises /\ Return(c, "driver_error")
  <2>1. pc'[c] = "idle" /\ c2s' = c2s
    BY <1>8, ReturnIdle DEF SendRaises
  <2>2. QED
    BY <1>1, <1>3, <1>5, <2>1, RouteOne DEF RouteAt
<1>9. QED
  BY <1>7, <1>8 DEF Send, RunQuery

\* start, noreply_wait and server.
LEMMA RouteQuery ==
    ASSUME TypeOK, RouteInv, OneCaller, NEW c \in Callers,
           NEW qt \in QueryTypes, NEW nr \in BOOLEAN, Query(c, qt, nr)
    PROVE  RouteInv'
<1>1. CASE sock = "open"
  <2>1. /\ Draw(c, [k |-> "query", qt |-> qt, tok |-> token,
                    noreply |-> nr], "return")
        /\ UNCHANGED <<sock, link, srv, c2s, s2c, htok>>
        /\ pc[c] = "idle"
    BY <1>1 DEF Query
  <2>2. QED
    BY <2>1, RouteDraw
<1>2. CASE sock # "open"
  <2>1. pc'[c] = "idle" /\ pc[c] = "idle" /\ UNCHANGED <<sock, link, srv, c2s, s2c>>
    BY <1>2, ReturnIdle DEF Query
  <2>2. QED
    BY <2>1, RouteOne DEF RouteInv, RouteAt, StreamsInv
<1>3. QED
  BY <1>1, <1>2

\* close and the first half of reconnect.
LEMMA RouteCloseOp ==
    ASSUME TypeOK, RouteInv, OneCaller, NEW c \in Callers,
           NEW nrw \in BOOLEAN, NEW cont, CloseOp(c, nrw, cont)
    PROVE  RouteInv'
<1>1. CASE sock = "none"
  <2>1. pc'[c] \in {"idle", "connect"} /\ pc[c] = "idle"
        /\ UNCHANGED <<sock, link, srv, c2s, s2c>>
    BY <1>1 DEF CloseOp, TypeOK
  <2>2. QED
    BY <2>1, RouteOne DEF RouteInv, RouteAt, StreamsInv
<1>2. CASE sock = "open" /\ nrw
  <2>1. /\ Draw(c, [k |-> "query", qt |-> "NOREPLY_WAIT", tok |-> token,
                    noreply |-> FALSE],
                IF cont = "reconnect" THEN "reconnect" ELSE "close")
        /\ UNCHANGED <<sock, link, srv, c2s, s2c, htok>>
        /\ pc[c] = "idle"
    BY <1>2 DEF CloseOp
  <2>2. QED
    BY <2>1, RouteDraw
<1>3. CASE sock = "open" /\ ~nrw
  <2>1. pc'[c] \in {"idle", "connect"}
    BY <1>3 DEF CloseOp, TypeOK
  <2>2. QED
    BY <1>3, <2>1, RouteEmpty DEF CloseOp, FinishClose, ClientClose
<1>4. QED
  BY <1>1, <1>2, <1>3 DEF TypeOK

\* A read off the server stream that keeps the socket, the stream and the
\* session keeps StreamsInv.
LEMMA StreamsRead ==
    ASSUME TypeOK, StreamsInv, s2c # <<>>, s2c' = Tail(s2c), link # "rst",
           UNCHANGED <<sock, link, srv>>
    PROVE  StreamsInv'
<1>1. sock # "none"
  BY DEF StreamsInv
<1>2. FrameIn(s2c') => srv' = "ready"
  BY TailFrameIn DEF TypeOK, StreamsInv
<1>3. QED
  BY <1>1, <1>2 DEF StreamsInv

\* DefaultClient.connect: a fresh socket holds the initial message only.
LEMMA RouteConnect ==
    ASSUME TypeOK, RouteInv, OneCaller, NEW c \in Callers, Connect(c)
    PROVE  RouteInv'
<1>1. CASE conns' = conns + 1
  <2>1. /\ sock' = "open" /\ link' = "up"
        /\ c2s' = <<[k |-> "init"]>> /\ s2c' = <<>>
        /\ pc'[c] = "hs_read1"
    BY <1>1, MaxConnectsAssumption DEF TypeOK, Connect, Return
  <2>2. ReplyFree(c2s')
    BY <2>1 DEF ReplyFree
  <2>3. QED
    BY <2>1, <2>2, EmptyStreams, RouteOne DEF StreamsInv, RouteAt
<1>2. CASE conns' # conns + 1
  <2>1. /\ UNCHANGED <<sock, link, srv, c2s, s2c>>
        /\ pc'[c] = "idle" /\ pc[c] = "connect"
    BY <1>2, ReturnIdle DEF Connect
  <2>2. QED
    BY <2>1, RouteOne DEF RouteInv, RouteAt, StreamsInv
<1>3. QED
  BY <1>1, <1>2

\* The handshake reads: only handshake replies are read, and only the
\* authentication request is sent.
LEMMA RouteHsRead ==
    ASSUME TypeOK, RouteInv, OneCaller, NEW c \in Callers, HsRead(c)
    PROVE  RouteInv'
<1>1. ReplyFree(c2s) /\ ~FrameIn(s2c) /\ StreamsInv
  BY DEF HsRead, RouteInv, RouteAt
<1>2. c2s \in Seq(ClientMsgs) /\ s2c \in Seq(ServerMsgs)
  BY DEF TypeOK
<1>3. CASE RecvFails /\ Return(c, "driver_error")
  BY <1>3, RouteReadFails DEF HsRead, ReadFails
<1>4. CASE /\ s2c = <<>> /\ link = "up"
           /\ Return(c, "timeout")
           /\ UNCHANGED <<sock, link, srv, c2s, s2c, issued, hsDone>>
  <2>1. pc'[c] = "idle"
    BY <1>4, ReturnIdle
  <2>2. QED
    BY <1>1, <1>4, <2>1, RouteOne DEF RouteAt, StreamsInv
<1>5. CASE /\ s2c # <<>>
           /\ link # "rst"
           /\ s2c' = Tail(s2c)
           /\ UNCHANGED <<sock, link, srv, issued>>
           /\ IF Head(s2c).k # "hs"
                THEN Return(c, "decode_error") /\ UNCHANGED <<c2s, hsDone>>
              ELSE IF ~HsStepOK(Head(s2c).r)
                THEN Return(c, "driver_error") /\ UNCHANGED <<c2s, hsDone>>
              ELSE IF pc[c] = "hs_read2"
                THEN \/ /\ SendReturns([k |-> "auth"])
                        /\ pc' = [pc EXCEPT ![c] = "hs_read3"]
                        /\ UNCHANGED <<res, hsDone>>
                     \/ /\ SendRaises
                        /\ Return(c, "driver_error")
                        /\ UNCHANGED hsDone
              ELSE /\ pc' = [pc EXCEPT ![c] = HsNext[pc[c]]]
                   /\ res' = [res EXCEPT ![c] =
                                IF pc[c] = "hs_read3" THEN "ok" ELSE @]
                   /\ hsDone' = (hsDone \/ pc[c] = "hs_read3")
                   /\ UNCHANGED c2s
  <2>1. pc'[c] \in {"idle", "hs_read2", "hs_read3"}
    BY <1>5 DEF HsRead, HsNext, TypeOK, Return
  <2>2. c2s' = c2s \/ c2s' = Append(c2s, [k |-> "auth"])
    BY <1>5 DEF SendReturns, SendRaises
  <2>3. ReplyFree(c2s')
    BY <1>1, <1>2, <2>2, ReplyFreeSend
  <2>4. ~FrameIn(s2c')
    BY <1>1, <1>2, <1>5, NoFrameTailRead
  <2>5. StreamsInv'
    BY <1>1, <1>5, StreamsRead
  <2>6. QED
    BY <2>1, <2>3, <2>4, <2>5, RouteOne DEF RouteAt
<1>6. QED
  BY <1>3, <1>4, <1>5 DEF HsRead

\* A read that does not find a header, by a caller in a response read:
\* what is left of the frame, if any, still answers its query.
LEMMA RouteSkip ==
    ASSUME TypeOK, RouteInv, OneCaller, NEW c \in Callers,
           pc[c] \in {"hdr", "garbled"}, s2c # <<>>, link # "rst",
           s2c' = Tail(s2c), pc'[c] = "garbled",
           UNCHANGED <<sock, link, srv, c2s, qtok>>
    PROVE  RouteInv'
<1>1. s2c \in Seq(ServerMsgs) /\ StreamsInv
  BY DEF TypeOK, RouteInv
<1>2. StreamsInv'
  BY <1>1, StreamsRead
<1>3. CASE QueryLast(c)
  <2>1. ~FrameIn(s2c')
    BY <1>1, <1>3, NoFrameTailRead DEF QueryLast
  <2>2. QueryLast(c)'
    BY <1>3, <2>1 DEF QueryLast
  <2>3. QED
    BY <1>2, <2>2, RouteOne DEF RouteAt
<1>4. CASE ReplyFree(c2s) /\ FrameTail(s2c, qtok[c])
  <2>1. FrameTail(s2c', qtok'[c])
    BY <1>1, <1>4, FrameTailRead
  <2>2. QED
    BY <1>2, <1>4, <2>1, RouteOne DEF RouteAt
<1>5. QED
  BY <1>3, <1>4 DEF RouteInv, RouteAt

\* read_response's header read: the header it finds is its own query's.
LEMMA RouteReadHeader ==
    ASSUME TypeOK, RouteInv, OneCaller, NEW c \in Callers, ReadHeader(c)
    PROVE  RouteInv'
<1>1. CASE ReadFails(c)
  BY <1>1, RouteReadFails
<1>2. CASE /\ s2c # <<>>
           /\ link # "rst"
           /\ s2c' = Tail(s2c)
           /\ IF Head(s2c).k = "hdr"
                THEN /\ pc' = [pc EXCEPT ![c] = "body"]
                     /\ htok' = [htok EXCEPT ![c] = Head(s2c).tok]
                ELSE /\ pc' = [pc EXCEPT ![c] = "garbled"]
                     /\ UNCHANGED htok
           /\ UNCHANGED <<sock, link, srv, c2s, token, waiting, after, qtok,
                          res, issued, hsDone, conns, fails>>
  <2>1. pc[c] = "hdr" /\ s2c \in Seq(ServerMsgs) /\ StreamsInv
    BY DEF ReadHeader, TypeOK, RouteInv
  <2>2. CASE Head(s2c).k = "hdr"
    <3>1. pc'[c] = "body" /\ htok'[c] = Head(s2c).tok
      BY <1>2, <2>2 DEF TypeOK
    <3>2. ~QueryLast(c)
      BY <1>2, <2>1, <2>2, NoFrameTailRead DEF QueryLast
    <3>3. ReplyFree(c2s) /\ FrameTail(s2c, qtok[c])
      BY <2>1, <3>2 DEF RouteInv, RouteAt
    <3>4. Head(s2c).tok = qtok[c] /\ BodyFirst(s2c')
      BY <1>2, <2>1, <2>2, <3>3, FrameTailHeader
    <3>5. StreamsInv'
      BY <1>2, <2>1, StreamsRead
    <3>6. QED
      BY <1>2, <3>1, <3>3, <3>4, <3>5, RouteOne DEF RouteAt
  <2>3. CASE Head(s2c).k # "hdr"
    <3>1. pc'[c] = "garbled"
      BY <1>2, <2>3 DEF TypeOK
    <3>2. QED
      BY <1>2, <2>1, <3>1, RouteSkip
  <2>4. QED
    BY <2>2, <2>3
<1>3. QED
  BY <1>1, <1>2 DEF ReadHeader

\* A misaligned read swallowing the stream.
LEMMA RouteGarbled ==
    ASSUME TypeOK, RouteInv, OneCaller, NEW c \in Callers, Garbled(c)
    PROVE  RouteInv'
<1>1. CASE ReadFails(c)
  BY <1>1, RouteReadFails
<1>2. CASE ~ReadFails(c)
  <2>1. /\ pc[c] = "garbled" /\ s2c # <<>> /\ link # "rst"
        /\ s2c' = Tail(s2c) /\ UNCHANGED <<sock, link, srv, c2s, qtok, pc>>
    BY <1>2 DEF Garbled
  <2>2. QED
    BY <2>1, RouteSkip
<1>3. QED
  BY <1>1, <1>2

\* read_response's body read: the dispatch consumes the frame, so the next
\* query finds the stream without it.
LEMMA RouteReadBody ==
    ASSUME TypeOK, RouteInv, OneCaller, NEW c \in Callers, ReadBody(c)
    PROVE  RouteInv'
<1>1. CASE ReadFails(c)
  BY <1>1, RouteReadFails
<1>2. CASE ~ReadFails(c)
  <2>1. /\ pc[c] = "body" /\ s2c # <<>> /\ link # "rst"
        /\ UNCHANGED <<after, qtok, htok, conns, fails>>
        /\ IF Head(s2c).k = "body"
             THEN Dispatch(c, Head(s2c))
             ELSE /\ s2c' = Tail(s2c)
                  /\ pc' = [pc EXCEPT ![c] = "garbled"]
                  /\ UNCHANGED <<sock, link, srv, c2s, token, waiting, res,
                                 issued, hsDone>>
    BY <1>2 DEF ReadBody
  <2>2. /\ s2c \in Seq(ServerMsgs) /\ StreamsInv
        /\ ReplyFree(c2s) /\ BodyFirst(s2c) /\ sock # "none"
    BY <2>1 DEF TypeOK, RouteInv, RouteAt, StreamsInv
  <2>3. ~FrameIn(Tail(s2c)) /\ Tail(s2c) \in Seq(ServerMsgs)
    BY <2>1, <2>2, BodyFirstRead, HeadTailType
  <2>4. CASE Head(s2c).k # "body"
    <3>1. pc'[c] = "garbled" /\ s2c' = Tail(s2c)
          /\ UNCHANGED <<sock, link, srv, c2s>>
      BY <2>1, <2>4 DEF TypeOK
    <3>2. StreamsInv'
      BY <2>1, <2>2, <3>1, StreamsRead
    <3>3. FrameTail(s2c', qtok'[c])
      BY <2>3, <3>1, NoFrameTail
    <3>4. QED
      BY <2>1, <2>2, <3>1, <3>2, <3>3, RouteOne DEF RouteAt
  <2>5. CASE Head(s2c).k = "body" /\ sock' = "none"
    <3>1. FinishClose(c) /\ pc'[c] \in {"idle", "connect"}
      BY <2>1, <2>2, <2>5 DEF Dispatch, Return, TypeOK
    <3>2. QED
      BY <3>1, RouteEmpty DEF FinishClose, ClientClose
  <2>6. CASE Head(s2c).k = "body" /\ sock' # "none"
    <3>1. /\ pc'[c] = "idle" /\ s2c' = Tail(s2c)
          /\ UNCHANGED <<sock, link, srv, c2s>>
      BY <2>1, <2>6, ReturnIdle DEF Dispatch, FinishClose, ClientClose
    <3>2. StreamsInv'
      BY <2>1, <2>2, <3>1, StreamsRead
    <3>3. QED
      BY <2>2, <2>3, <3>1, <3>2, RouteOne DEF RouteAt
  <2>7. QED
    BY <2>4, <2>5, <2>6
<1>3. QED
  BY <1>1, <1>2

\* What a step of the server does to the server stream: before its session
\* is ready it writes handshake replies only, and once ready it answers a
\* query with a frame when, and only when, the query expects a reply.
LEMMA ServerShape ==
    ASSUME TypeOK, StreamsInv, ServerStep
    PROVE  /\ srv # "ready" => ~FrameIn(s2c) /\ ~FrameIn(s2c')
           /\ srv = "ready" =>
                /\ srv' = "ready" /\ Head(c2s).k = "query"
                /\ Head(c2s).noreply => s2c' = s2c
                /\ ~Head(c2s).noreply =>
                     \E rt \in ResponseTypes :
                        s2c' = s2c \o <<[k |-> "hdr", tok |-> Head(c2s).tok],
                                        [k |-> "body", rt |-> rt]>>
<1> DEFINE m == Head(c2s)
<1>1. s2c \in Seq(ServerMsgs) /\ m \in ClientMsgs
  BY HeadTailType DEF TypeOK, ServerStep
<1>2. CASE srv = "hs1" /\ m.k = "init"
           /\ \E rs \in {<<"ok", "ok">>, <<"ok", "bad_nonce">>, <<"ok", "fail">>,
                         <<"fail">>, <<"bad_version", "fail">>} :
                s2c' = s2c \o HsMsgs(rs)
  <2>1. PICK rs \in {<<"ok", "ok">>, <<"ok", "bad_nonce">>, <<"ok", "fail">>,
                     <<"fail">>, <<"bad_version", "fail">>} :
              s2c' = s2c \o HsMsgs(rs)
    BY <1>2, Zenon
  <2>2. rs \in Seq(HsReplies)
    BY HsChoices, Zenon
  <2>3. ~FrameIn(s2c)
    BY <1>2 DEF StreamsInv
  <2>4. QED
    BY <1>1, <1>2, <2>1, <2>2, <2>3, NoFrameHsReplies
<1>3. CASE /\ srv \in {"hs1", "hs3"}
           /\ \E r \in HsReplies : s2c' = Append(s2c, [k |-> "hs", r |-> r])
  <2>1. PICK r \in HsReplies : s2c' = Append(s2c, [k |-> "hs", r |-> r])
    BY <1>3
  <2>2. ~FrameIn(s2c)
    BY <1>3 DEF StreamsInv
  <2>3. QED
    BY <1>1, <1>3, <2>1, <2>2, NoFrameSend
<1>4. CASE /\ srv = "ready" /\ m.k = "query"
           /\ UNCHANGED <<link, srv>>
           /\ IF m.noreply
                THEN UNCHANGED s2c
                ELSE \E rt \in Replies(m.qt) :
                       s2c' = s2c \o <<[k |-> "hdr", tok |-> m.tok],
                                       [k |-> "body", rt |-> rt]>>
  <2>1. m.qt \in QueryTypes
    BY <1>1, <1>4, QueryFields
  <2>2. Replies(m.qt) \subseteq ResponseTypes
    BY <2>1, RepliesType
  <2>3. QED
    BY <1>4, <2>2
<1>5. QED
  <2>1. \/ /\ srv = "hs1" /\ m.k = "init"
           /\ \E rs \in {<<"ok", "ok">>, <<"ok", "bad_nonce">>, <<"ok", "fail">>,
                         <<"fail">>, <<"bad_version", "fail">>} :
                s2c' = s2c \o HsMsgs(rs)
        \/ /\ srv \in {"hs1", "hs3"}
           /\ \E r \in HsReplies : s2c' = Append(s2c, [k |-> "hs", r |-> r])
        \/ /\ srv = "ready" /\ m.k = "query"
           /\ UNCHANGED <<link, srv>>
           /\ IF m.noreply
                THEN UNCHANGED s2c
                ELSE \E rt \in Replies(m.qt) :
                       s2c' = s2c \o <<[k |-> "hdr", tok |-> m.tok],
                                       [k |-> "body", rt |-> rt]>>
    BY DEF ServerStep, HsReplies
  <2>2. QED
    BY <1>2, <1>3, <1>4, <2>1

\* The server reads the next client message.  Only the caller's own query
\* draws a frame; every message ahead of it draws at most handshake
\* replies, and those only before the session is ready.
LEMMA RouteServerStep ==
    ASSUME TypeOK, RouteInv, OneCaller, NEW c \in Callers, ServerStep
    PROVE  RouteInv'
<1> DEFINE m == Head(c2s)
<1>1. /\ link = "up" /\ c2s # <<>> /\ c2s' = Tail(c2s)
      /\ link' \in {"up", "fin"}
      /\ UNCHANGED <<sock, pc, qtok, out, htok>>
  BY DEF ServerStep
<1>2. /\ c2s \in Seq(ClientMsgs) /\ s2c \in Seq(ServerMsgs)
      /\ c2s' \in Seq(ClientMsgs) /\ s2c' \in Seq(ServerMsgs)
      /\ StreamsInv /\ RouteAt(c)
  BY TypeServerStep DEF TypeOK, RouteInv
<1>3. sock # "none"
  BY <1>1, <1>2 DEF StreamsInv
<1>4. /\ srv # "ready" => ~FrameIn(s2c) /\ ~FrameIn(s2c')
      /\ srv = "ready" =>
           /\ srv' = "ready" /\ m.k = "query"
           /\ m.noreply => s2c' = s2c
           /\ ~m.noreply =>
                \E rt \in ResponseTypes :
                   s2c' = s2c \o <<[k |-> "hdr", tok |-> m.tok],
                                   [k |-> "body", rt |-> rt]>>
  BY <1>2, ServerShape
\* A message the server reads that expects no reply leaves the frames alone.
<1>5. (m.k = "query" => m.noreply) =>
         \/ s2c' = s2c
         \/ ~FrameIn(s2c) /\ ~FrameIn(s2c')
  BY <1>4
<1>6. StreamsInv'
  BY <1>1, <1>3, <1>4 DEF StreamsInv
<1>7. CASE pc[c] \notin {"hdr", "body", "garbled"}
  <2>1. ReplyFree(c2s) /\ ~FrameIn(s2c)
    BY <1>2, <1>7 DEF RouteAt
  <2>2. ReplyFree(c2s') /\ ~FrameIn(s2c')
    BY <1>1, <1>2, <1>5, <2>1, ReplyFreeRead DEF ReplyFree
  <2>3. QED
    BY <1>1, <1>2, <1>6, <1>7, <2>2, RouteOne DEF RouteAt
<1>8. CASE pc[c] = "body"
  <2>1. htok[c] = qtok[c] /\ ReplyFree(c2s) /\ BodyFirst(s2c)
    BY <1>2, <1>8 DEF RouteAt
  <2>2. ReplyFree(c2s')
    BY <1>1, <1>2, <2>1, ReplyFreeRead
  <2>3. m.k = "query" => m.noreply
    BY <1>1, <1>2, <2>1 DEF ReplyFree
  <2>4. BodyFirst(s2c')
    <3>1. CASE s2c' = s2c
      BY <2>1, <3>1
    <3>2. CASE ~FrameIn(s2c')
      BY <1>2, <3>2, NoFrameTail
    <3>3. QED
      BY <1>5, <2>3, <3>1, <3>2
  <2>5. QED
    BY <1>1, <1>6, <1>8, <2>1, <2>2, <2>4, RouteOne DEF RouteAt
<1>9. CASE pc[c] \in {"hdr", "garbled"} /\ ReplyFree(c2s)
           /\ FrameTail(s2c, qtok[c])
  <2>1. ReplyFree(c2s') /\ FrameTail(s2c', qtok[c])
    BY <1>1, <1>2, <1>5, <1>9, ReplyFreeRead, NoFrameTail DEF ReplyFree
  <2>2. QED
    BY <1>1, <1>6, <1>9, <2>1, RouteOne DEF RouteAt
<1>10. CASE pc[c] \in {"hdr", "garbled"} /\ QueryLast(c) /\ Len(c2s) > 1
  <2>1. m.k = "query" => m.noreply
    BY <1>1, <1>10 DEF QueryLast
  <2>2. ~FrameIn(s2c')
    BY <1>5, <1>10, <2>1 DEF QueryLast
  <2>3. /\ Len(c2s') = Len(c2s) - 1
        /\ \A i \in 1..Len(c2s') : c2s'[i] = c2s[i + 1]
    BY <1>1, <1>2
  <2>4. /\ c2s' # <<>>
        /\ c2s'[Len(c2s')] = c2s[Len(c2s)]
        /\ \A i \in 1..Len(c2s') - 1 :
             c2s'[i].k = "query" => c2s'[i].noreply
    BY <1>2, <1>10, <2>3 DEF QueryLast
  <2>5. QueryLast(c)'
    BY <1>1, <1>10, <2>2, <2>4 DEF QueryLast
  <2>6. QED
    BY <1>1, <1>6, <1>10, <2>5, RouteOne DEF RouteAt
<1>11. CASE pc[c] \in {"hdr", "garbled"} /\ QueryLast(c) /\ Len(c2s) = 1
  <2>1. /\ m.k = "query" /\ ~m.noreply /\ m.tok = qtok[c]
        /\ c2s' = <<>> /\ ~FrameIn(s2c)
    BY <1>1, <1>2, <1>11 DEF QueryLast
  <2>2. FrameTail(s2c', qtok[c])
    <3>1. CASE srv = "ready"
      <4>1. PICK rt \in ResponseTypes :
                  s2c' = s2c \o <<[k |-> "hdr", tok |-> qtok[c]],
                                  [k |-> "body", rt |-> rt]>>
        BY <1>4, <2>1, <3>1
      <4>2. QED
        BY <1>2, <2>1, <4>1, FrameSend
    <3>2. CASE srv # "ready"
      BY <1>2, <1>4, <3>2, NoFrameTail
    <3>3. QED
      BY <3>1, <3>2
  <2>3. QED
    BY <1>1, <1>6, <1>11, <2>1, <2>2, EmptyStreams, RouteOne DEF RouteAt
<1>12. QED
  <2>1. c2s # <<>> => Len(c2s) > 1 \/ Len(c2s) = 1
    <3>1. c2s # <<>> => Len(c2s) \in Nat /\ Len(c2s) >= 1
      BY <1>2
    <3>2. \A n \in Nat : n >= 1 => n > 1 \/ n = 1
      OBVIOUS
    <3>3. QED
      BY <3>1, <3>2
  <2>2. pc[c] \in {"hdr", "garbled"} =>
          \/ QueryLast(c)
          \/ ReplyFree(c2s) /\ FrameTail(s2c, qtok[c])
    BY <1>2 DEF RouteAt
  <2>3. QED
    BY <1>1, <1>7, <1>8, <1>9, <1>10, <1>11, <2>1, <2>2

\* The stream fails: a reset loses both directions, a close by the server
\* loses what the client sent, and neither brings a frame.
LEMMA RouteNetFail ==
    ASSUME TypeOK, RouteInv, OneCaller, NEW c \in Callers, NetFail
    PROVE  RouteInv'
<1>1. /\ c2s' = <<>> /\ s2c' \in {s2c, <<>>}
      /\ link' = "rst" => s2c' = <<>>
      /\ UNCHANGED <<sock, srv, pc, qtok, out, htok>>
      /\ link \in {"up", "fin"}
  BY DEF NetFail
<1>2. s2c \in Seq(ServerMsgs) /\ StreamsInv /\ RouteAt(c)
  BY DEF TypeOK, RouteInv
<1>3. StreamsInv'
  BY <1>1, <1>2, EmptyStreams DEF StreamsInv
<1>4. RouteAt(c)'
  <2>1. ~FrameIn(s2c) => ~FrameIn(s2c')
    BY <1>1, EmptyStreams
  <2>2. QueryLast(c) => ~FrameIn(s2c)
    BY DEF QueryLast
  <2>3. \A t : FrameTail(s2c, t) => FrameTail(s2c', t)
    BY <1>1, EmptyStreams
  <2>4. BodyFirst(s2c) => BodyFirst(s2c')
    BY <1>1, EmptyStreams
  <2>5. ~FrameIn(s2c') => FrameTail(s2c', qtok[c])
    BY <1>1, <1>2, NoFrameTail, EmptyStreams
  <2>6. QED
    BY <1>1, <1>2, <2>1, <2>2, <2>3, <2>4, <2>5, EmptyStreams DEF RouteAt
<1>5. QED
  BY <1>3, <1>4, RouteOne

LEMMA RouteInit == Init => RouteInv
BY EmptyStreams DEF Init, RouteInv, StreamsInv, RouteAt

LEMMA NextRoute ==
    ASSUME TypeOK, RouteInv, OneCaller, [Next]_vars
    PROVE  RouteInv'
<1>1. ASSUME NEW c \in Callers, Invoke(c) PROVE RouteInv'
  <2>1. \/ \E qt \in QueryTypes, nr \in BOOLEAN : Query(c, qt, nr)
        \/ \E nrw \in BOOLEAN, cont \in {"return", "reconnect"} :
             CloseOp(c, nrw, cont)
    BY <1>1, Zenon DEF Invoke, Start, NoreplyWait, ServerInfo, Close, Reconnect,
                QueryTypes
  <2>2. QED
    BY <2>1, RouteQuery, RouteCloseOp
<1>2. ASSUME NEW c \in Callers, Proceed(c) PROVE RouteInv'
  BY <1>2, RouteSend, RouteConnect, RouteHsRead, RouteReadHeader, RouteReadBody,
     RouteGarbled DEF Proceed
<1>3. PICK c \in Callers : TRUE
  BY CallersAssumption
<1>4. CASE ServerStep
  BY <1>3, <1>4, RouteServerStep
<1>5. CASE NetFail
  BY <1>3, <1>4, <1>5, RouteNetFail
<1>6. CASE UNCHANGED vars
  BY <1>6 DEF vars, RouteInv, StreamsInv, RouteAt, QueryLast
<1>7. QED
  BY <1>1, <1>2, <1>4, <1>5, <1>6 DEF Next

\* Response routing (RdbProtocol.read_response, DefaultTransport.run_query):
\* with one caller thread on the connection, the frame header a caller reads
\* always carries the token of the query it sent, whatever handshake
\* replies are left over, however the stream fails and however often the
\* caller reconnects.
THEOREM ResponseRouted ==
    ASSUME OneCaller
    PROVE  Spec => []ResponseToOwnQuery
<1>1. Init => RIInv
  BY TypeInit, RouteInit DEF RIInv
<1>2. RIInv /\ [Next]_vars => RIInv'
  BY TypeNext, NextRoute DEF RIInv
<1>3. RIInv => ResponseToOwnQuery
  BY DEF RIInv, RouteInv, RouteAt, ResponseToOwnQuery
<1>4. QED
  BY <1>1, <1>2, <1>3, PTL DEF Spec

=============================================================================
