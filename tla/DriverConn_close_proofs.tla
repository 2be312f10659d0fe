------------------------- MODULE DriverConn_close_proofs -------------------------
(***************************************************************************)
(* Connection.close(noreply_wait=True), and reconnect, with one caller     *)
(* thread: the step that tears the socket down is taken only after the     *)
(* caller has read the server's WAIT_COMPLETE, and when nothing the client *)
(* sent is still unread by the server.                                     *)
(*                                                                         *)
(* The routing invariant RouteInv says the only frame on the stream        *)
(* answers the caller's last query.  On top of it: a frame exists only     *)
(* once the server has read that query, which is the last thing the client *)
(* sent, so the client stream is then empty; and while the caller is       *)
(* closing, the query in flight is the close's NOREPLY_WAIT, whose only    *)
(* answer is WAIT_COMPLETE.  With two callers the property fails (TLC     *)
(* finds the trace on a two-caller instance), so OneCaller is a            *)
(* hypothesis.                                                             *)
(***************************************************************************)
EXTENDS DriverConn_route_proofs

\* Every response body in the server stream has type rt.
Bodies(s, rt) == \A i \in 1..Len(s) : s[i].k = "body" => s[i].rt = rt

\* The last message of the client stream is a query that expects a reply.
LastAwaits == c2s # <<>> /\ c2s[Len(c2s)].k = "query" /\ ~c2s[Len(c2s)].noreply

CloseAt(c) ==
    /\ pc[c] = "send" /\ after[c] # "return" => out[c].qt = "NOREPLY_WAIT"
    /\ pc[c] \in {"hdr", "garbled"} /\ FrameIn(s2c) => c2s = <<>>
    /\ pc[c] = "body" => c2s = <<>>
    /\ pc[c] \in {"hdr", "garbled", "body"} /\ after[c] # "return" =>
         /\ Bodies(s2c, "wait_complete")
         /\ LastAwaits => c2s[Len(c2s)].qt = "NOREPLY_WAIT"

CloseInv == \A c \in Callers : CloseAt(c)

\* Both layers with the type facts.
CIInv == RIInv /\ CloseInv

-----------------------------------------------------------------------------
(* Lemmas about Bodies and LastAwaits.                                     *)

LEMMA BodiesNoFrame ==
    ASSUME NEW s \in Seq(ServerMsgs), ~FrameIn(s), NEW rt
    PROVE  Bodies(s, rt)
BY DEF FrameIn, Bodies

LEMMA BodiesTail ==
    ASSUME NEW s \in Seq(ServerMsgs), s # <<>>, NEW rt, Bodies(s, rt)
    PROVE  Bodies(Tail(s), rt)
BY DEF Bodies

\* The server answers a query whose only reply is rt.
LEMMA BodiesFrame ==
    ASSUME NEW s \in Seq(ServerMsgs), ~FrameIn(s), NEW t, NEW rt
    PROVE  Bodies(s \o <<[k |-> "hdr", tok |-> t], [k |-> "body", rt |-> rt]>>,
                  rt)
BY DEF FrameIn, Bodies

\* While no query that expects a reply is in the client stream, the last
\* message does not await one.
LEMMA ReplyFreeLast ==
    ASSUME c2s \in Seq(ClientMsgs), ReplyFree(c2s)
    PROVE  ~LastAwaits
BY DEF ReplyFree, LastAwaits

\* The only answer to NOREPLY_WAIT.
LEMMA RepliesNoreplyWait == Replies("NOREPLY_WAIT") = {"wait_complete"}
BY DEF Replies

-----------------------------------------------------------------------------
(* One lemma per action: after a step, CloseAt holds of the caller.        *)

LEMMA CloseOne ==
    ASSUME OneCaller, NEW c \in Callers, CloseAt(c)'
    PROVE  CloseInv'
BY DEF OneCaller, CloseInv

\* A caller outside a response read.
LEMMA CloseOutside ==
    ASSUME NEW c \in Callers, pc'[c] \notin {"send", "hdr", "garbled", "body"}
    PROVE  CloseAt(c)'
BY DEF CloseAt

\* build_query; the continuation of anything but a plain query is a close,
\* whose query is the NOREPLY_WAIT.
LEMMA CloseDraw ==
    ASSUME TypeOK, NEW c \in Callers, NEW q, NEW cont,
           cont # "return" => q.qt = "NOREPLY_WAIT", Draw(c, q, cont)
    PROVE  CloseAt(c)'
BY DEF TypeOK, Draw, CloseAt

\* sendall of the query a caller built, and run_query's return or read.
LEMMA CloseSend ==
    ASSUME TypeOK, RouteInv, NEW c \in Callers, CloseAt(c), Send(c)
    PROVE  CloseAt(c)'
<1> DEFINE q == out[c]
<1>1. /\ pc[c] = "send" /\ ReplyFree(c2s) /\ ~FrameIn(s2c)
      /\ after[c] # "return" => q.qt = "NOREPLY_WAIT"
  BY DEF Send, RouteInv, RouteAt, CloseAt
<1>2. c2s \in Seq(ClientMsgs) /\ s2c \in Seq(ServerMsgs)
  BY DEF TypeOK
<1>3. UNCHANGED <<s2c, after>>
  BY DEF Send
<1>4. CASE /\ SendReturns(q) /\ ~q.noreply
           /\ pc' = [pc EXCEPT ![c] = "hdr"]
  <2>1. pc'[c] = "hdr" /\ after'[c] = after[c]
    BY <1>3, <1>4 DEF TypeOK
  <2>2. ~FrameIn(s2c') /\ Bodies(s2c', "wait_complete")
    BY <1>1, <1>2, <1>3, BodiesNoFrame
  <2>3. CASE link = "up"
    <3>1. c2s' = Append(c2s, q)
      BY <1>4, <2>3 DEF SendReturns
    <3>2. c2s' # <<>> /\ c2s'[Len(c2s')] = q
      BY <1>2, <3>1
    <3>3. QED
      BY <1>1, <2>1, <2>2, <3>2 DEF CloseAt, LastAwaits
  <2>4. CASE link # "up"
    <3>1. c2s' = c2s
      BY <1>4, <2>4 DEF SendReturns
    <3>2. ~LastAwaits'
      BY <1>1, <1>2, <3>1, ReplyFreeLast DEF LastAwaits
    <3>3. QED
      BY <2>1, <2>2, <3>2 DEF CloseAt
  <2>5. QED
    BY <2>3, <2>4
<1>5. CASE \/ SendReturns(q) /\ q.noreply /\ Return(c, "ok")
           \/ SendRaises /\ Return(c, "driver_error")
  <2>1. pc'[c] = "idle"
    BY <1>5, ReturnIdle
  <2>2. QED
    BY <2>1, CloseOutside
<1>6. QED
  BY <1>4, <1>5 DEF Send, RunQuery

LEMMA CloseQuery ==
    ASSUME TypeOK, NEW c \in Callers,
           NEW qt \in QueryTypes, NEW nr \in BOOLEAN, Query(c, qt, nr)
    PROVE  CloseAt(c)'
<1>1. CASE sock = "open"
  <2>1. Draw(c, [k |-> "query", qt |-> qt, tok |-> token, noreply |-> nr],
             "return")
    BY <1>1 DEF Query
  <2>2. QED
    BY <2>1, CloseDraw
<1>2. CASE sock # "open"
  BY <1>2, ReturnIdle, CloseOutside DEF Query
<1>3. QED
  BY <1>1, <1>2

LEMMA CloseCloseOp ==
    ASSUME TypeOK, NEW c \in Callers,
           NEW nrw \in BOOLEAN, NEW cont, CloseOp(c, nrw, cont)
    PROVE  CloseAt(c)'
<1>1. CASE sock = "open" /\ nrw
  <2>1. Draw(c, [k |-> "query", qt |-> "NOREPLY_WAIT", tok |-> token,
                 noreply |-> FALSE],
             IF cont = "reconnect" THEN "reconnect" ELSE "close")
    BY <1>1 DEF CloseOp
  <2>2. QED
    BY <2>1, CloseDraw
<1>2. CASE ~(sock = "open" /\ nrw)
  <2>1. pc'[c] \in {"idle", "connect"}
    BY <1>2 DEF CloseOp, TypeOK
  <2>2. QED
    BY <2>1, CloseOutside
<1>3. QED
  BY <1>1, <1>2

LEMMA CloseConnect ==
    ASSUME TypeOK, NEW c \in Callers, Connect(c)
    PROVE  CloseAt(c)'
<1>1. pc'[c] \in {"hs_read1", "idle"}
  BY DEF Connect, Return, TypeOK
<1>2. QED
  BY <1>1, CloseOutside

LEMMA CloseHsRead ==
    ASSUME TypeOK, NEW c \in Callers, HsRead(c)
    PROVE  CloseAt(c)'
<1>1. pc'[c] \in {"idle", "hs_read2", "hs_read3"}
  BY DEF HsRead, HsNext, Return, TypeOK
<1>2. QED
  BY <1>1, CloseOutside

LEMMA CloseReadFails ==
    ASSUME TypeOK, NEW c \in Callers, ReadFails(c)
    PROVE  CloseAt(c)'
BY ReturnIdle, CloseOutside DEF ReadFails

\* A read by a caller waiting for a header, or swallowing a misaligned
\* stream: the client stream is untouched, and a body is read only once a
\* header was, which puts a frame on the stream.
LEMMA CloseSkip ==
    ASSUME TypeOK, CloseInv, NEW c \in Callers,
           pc[c] \in {"hdr", "garbled"}, s2c # <<>>, s2c' = Tail(s2c),
           UNCHANGED <<c2s, after>>, pc'[c] \in {"hdr", "garbled", "body"},
           pc'[c] = "body" => Head(s2c).k = "hdr"
    PROVE  CloseAt(c)'
<1>1. s2c \in Seq(ServerMsgs) /\ CloseAt(c)
  BY DEF TypeOK, CloseInv
<1>2. FrameIn(s2c') => c2s' = <<>>
  BY <1>1, TailFrameIn DEF CloseAt
<1>3. pc'[c] = "body" => c2s' = <<>>
  <2>1. Head(s2c).k = "hdr" => FrameIn(s2c)
    BY <1>1 DEF FrameIn
  <2>2. QED
    BY <1>1, <2>1 DEF CloseAt
<1>4. after'[c] # "return" =>
        /\ Bodies(s2c', "wait_complete")
        /\ LastAwaits' => c2s'[Len(c2s')].qt = "NOREPLY_WAIT"
  BY <1>1, BodiesTail DEF CloseAt, LastAwaits
<1>5. QED
  BY <1>2, <1>3, <1>4 DEF CloseAt

LEMMA CloseReadHeader ==
    ASSUME TypeOK, CloseInv, NEW c \in Callers, ReadHeader(c)
    PROVE  CloseAt(c)'
<1>1. CASE ReadFails(c)
  BY <1>1, CloseReadFails
<1>2. CASE /\ s2c # <<>>
           /\ s2c' = Tail(s2c)
           /\ IF Head(s2c).k = "hdr"
                THEN pc' = [pc EXCEPT ![c] = "body"]
                ELSE pc' = [pc EXCEPT ![c] = "garbled"]
           /\ UNCHANGED <<c2s, after>>
  <2>1. /\ pc'[c] \in {"garbled", "body"}
        /\ pc'[c] = "body" => Head(s2c).k = "hdr"
    BY <1>2 DEF TypeOK
  <2>2. QED
    BY <1>2, <2>1, CloseSkip DEF ReadHeader
<1>3. QED
  BY <1>1, <1>2 DEF ReadHeader

LEMMA CloseGarbled ==
    ASSUME TypeOK, CloseInv, NEW c \in Callers, Garbled(c)
    PROVE  CloseAt(c)'
<1>1. CASE ReadFails(c)
  BY <1>1, CloseReadFails
<1>2. CASE ~ReadFails(c)
  BY <1>2, CloseSkip DEF Garbled
<1>3. QED
  BY <1>1, <1>2

\* The body read either ends the operation (the dispatch) or finds the
\* stream misaligned; in both cases the client stream is empty.
LEMMA CloseReadBody ==
    ASSUME TypeOK, RouteInv, CloseInv, NEW c \in Callers, ReadBody(c)
    PROVE  CloseAt(c)'
<1>1. CASE ReadFails(c)
  BY <1>1, CloseReadFails
<1>2. CASE ~ReadFails(c)
  <2>1. /\ pc[c] = "body" /\ s2c # <<>>
        /\ UNCHANGED after
        /\ IF Head(s2c).k = "body"
             THEN Dispatch(c, Head(s2c))
             ELSE /\ s2c' = Tail(s2c)
                  /\ pc' = [pc EXCEPT ![c] = "garbled"]
                  /\ UNCHANGED c2s
    BY <1>2 DEF ReadBody
  <2>2. s2c \in Seq(ServerMsgs) /\ CloseAt(c) /\ c2s = <<>>
    BY <2>1 DEF TypeOK, CloseInv, CloseAt
  <2>3. CASE Head(s2c).k = "body"
    <3>1. pc'[c] \in {"idle", "connect"}
      BY <2>1, <2>3 DEF Dispatch, Return, TypeOK
    <3>2. QED
      BY <3>1, CloseOutside
  <2>4. CASE Head(s2c).k # "body"
    <3>1. s2c' = Tail(s2c) /\ c2s' = <<>> /\ pc'[c] = "garbled"
      BY <2>1, <2>2, <2>4 DEF TypeOK
    <3>2. Bodies(s2c', "wait_complete") \/ after[c] = "return"
      BY <2>1, <2>2, <3>1, BodiesTail DEF CloseAt
    <3>3. QED
      BY <2>1, <3>1, <3>2 DEF CloseAt, LastAwaits
  <2>5. QED
    BY <2>3, <2>4
<1>3. QED
  BY <1>1, <1>2

\* The stream fails: the client stream is lost and the server stream is
\* kept or lost whole.
LEMMA CloseNetFail ==
    ASSUME TypeOK, CloseInv, NEW c \in Callers, NetFail
    PROVE  CloseAt(c)'
<1>1. /\ c2s' = <<>> /\ s2c' \in {s2c, <<>>}
      /\ UNCHANGED <<pc, after, out>>
  BY DEF NetFail
<1>2. CloseAt(c)
  BY DEF CloseInv
<1>3. Bodies(<<>>, "wait_complete")
  BY DEF Bodies
<1>4. QED
  BY <1>1, <1>2, <1>3 DEF CloseAt, LastAwaits

\* A ready server answers a query that expects a reply with a frame whose
\* body is one of the replies of that query type.
LEMMA ServerReplies ==
    ASSUME ServerStep, srv = "ready", ~Head(c2s).noreply
    PROVE  \E rt \in Replies(Head(c2s).qt) :
              s2c' = s2c \o <<[k |-> "hdr", tok |-> Head(c2s).tok],
                              [k |-> "body", rt |-> rt]>>
BY DEF ServerStep

\* The server reads the next client message.  A message ahead of the
\* caller's query draws no frame; the caller's own query draws the frame,
\* and leaves the client stream empty.
LEMMA CloseServerStep ==
    ASSUME TypeOK, RouteInv, CloseInv, NEW c \in Callers, ServerStep
    PROVE  CloseAt(c)'
<1> DEFINE m == Head(c2s)
<1>1. /\ c2s # <<>> /\ c2s' = Tail(c2s)
      /\ UNCHANGED <<pc, after, out>>
  BY DEF ServerStep
<1>2. /\ c2s \in Seq(ClientMsgs) /\ s2c \in Seq(ServerMsgs)
      /\ c2s' \in Seq(ClientMsgs) /\ s2c' \in Seq(ServerMsgs)
      /\ StreamsInv /\ RouteAt(c) /\ CloseAt(c)
  BY TypeServerStep DEF TypeOK, RouteInv, CloseInv
<1>3. /\ srv # "ready" => ~FrameIn(s2c) /\ ~FrameIn(s2c')
      /\ srv = "ready" => (m.noreply => s2c' = s2c)
  BY <1>2, ServerShape
\* A message the server reads that expects no reply adds no frame.
<1>4. ASSUME m.k = "query" => m.noreply, ~FrameIn(s2c)
      PROVE  ~FrameIn(s2c') /\ Bodies(s2c', "wait_complete")
  <2>1. ~FrameIn(s2c')
    <3>1. CASE srv = "ready" /\ m.k = "query"
      BY <1>3, <1>4, <3>1
    <3>2. CASE srv = "ready" /\ m.k # "query"
      BY <3>2 DEF ServerStep
    <3>3. QED
      BY <1>3, <3>1, <3>2
  <2>2. QED
    BY <1>2, <2>1, BodiesNoFrame
<1>5. CASE pc[c] \notin {"send", "hdr", "garbled", "body"}
  BY <1>1, <1>5, CloseOutside
<1>9. CASE pc[c] = "send"
  BY <1>1, <1>2, <1>9 DEF CloseAt
<1>6. CASE pc[c] = "body"
  BY <1>1, <1>2, <1>6 DEF CloseAt
<1>7. CASE pc[c] \in {"hdr", "garbled"}
  <2>1. ~FrameIn(s2c)
    BY <1>1, <1>2, <1>7 DEF CloseAt
  <2>2. CASE ReplyFree(c2s)
    <3>1. m.k = "query" => m.noreply
      BY <1>1, <1>2, <2>2 DEF ReplyFree
    <3>2. ReplyFree(c2s')
      BY <1>1, <1>2, <2>2, ReplyFreeRead
    <3>3. ~LastAwaits'
      BY <1>2, <3>2 DEF ReplyFree, LastAwaits
    <3>4. ~FrameIn(s2c') /\ Bodies(s2c', "wait_complete")
      BY <1>4, <2>1, <3>1
    <3>5. QED
      BY <1>1, <1>7, <3>3, <3>4 DEF CloseAt
  <2>3. CASE QueryLast(c) /\ Len(c2s) > 1
    <3>1. m.k = "query" => m.noreply
      BY <1>1, <2>3 DEF QueryLast
    <3>2. /\ Len(c2s') = Len(c2s) - 1
          /\ \A i \in 1..Len(c2s') : c2s'[i] = c2s[i + 1]
      BY <1>1, <1>2
    <3>3. c2s' # <<>> /\ c2s'[Len(c2s')] = c2s[Len(c2s)]
      BY <1>2, <2>3, <3>2
    <3>4. LastAwaits
      BY <2>3 DEF QueryLast, LastAwaits
    <3>5. after[c] # "return" => c2s[Len(c2s)].qt = "NOREPLY_WAIT"
      BY <1>2, <1>7, <3>4 DEF CloseAt
    <3>6. ~FrameIn(s2c') /\ Bodies(s2c', "wait_complete")
      BY <1>4, <2>1, <3>1
    <3>7. QED
      BY <1>1, <1>7, <3>3, <3>5, <3>6 DEF CloseAt, LastAwaits
  <2>4. CASE QueryLast(c) /\ Len(c2s) = 1
    <3>1. c2s' = <<>> /\ m = c2s[Len(c2s)]
      BY <1>1, <1>2, <2>4
    <3>2. ~m.noreply /\ m.k = "query"
      BY <2>4, <3>1 DEF QueryLast
    <3>3. after[c] # "return" => m.qt = "NOREPLY_WAIT"
      BY <1>2, <1>7, <2>4, <3>1 DEF CloseAt, QueryLast, LastAwaits
    <3>4. after[c] # "return" => Bodies(s2c', "wait_complete")
      <4>1. CASE srv = "ready" /\ after[c] # "return"
        <5>1. PICK rt \in Replies(m.qt) :
                   s2c' = s2c \o <<[k |-> "hdr", tok |-> m.tok],
                                   [k |-> "body", rt |-> rt]>>
          BY <3>2, <4>1, ServerReplies
        <5>2. rt = "wait_complete"
          BY <3>3, <4>1, <5>1, RepliesNoreplyWait
        <5>3. QED
          BY <1>2, <2>1, <5>1, <5>2, BodiesFrame
      <4>2. CASE srv # "ready"
        BY <1>2, <1>3, <4>2, BodiesNoFrame
      <4>3. QED
        BY <4>1, <4>2
    <3>5. QED
      BY <1>1, <1>7, <3>1, <3>4 DEF CloseAt, LastAwaits
  <2>5. QED
    <3>1. Len(c2s) > 1 \/ Len(c2s) = 1
      <4>1. Len(c2s) \in Nat /\ Len(c2s) >= 1
        BY <1>1, <1>2
      <4>2. \A n \in Nat : n >= 1 => n > 1 \/ n = 1
        OBVIOUS
      <4>3. QED
        BY <4>1, <4>2
    <3>2. QueryLast(c) \/ ReplyFree(c2s)
      BY <1>2, <1>7 DEF RouteAt
    <3>3. QED
      BY <2>2, <2>3, <2>4, <3>1, <3>2
<1>8. QED
  BY <1>5, <1>6, <1>7, <1>9

LEMMA CloseInit == Init => CloseInv
BY DEF Init, CloseInv, CloseAt

LEMMA NextClose ==
    ASSUME TypeOK, RouteInv, CloseInv, OneCaller, [Next]_vars
    PROVE  CloseInv'
<1>1. ASSUME NEW c \in Callers, Invoke(c) PROVE CloseInv'
  <2>1. \/ \E qt \in QueryTypes, nr \in BOOLEAN : Query(c, qt, nr)
        \/ \E nrw \in BOOLEAN, cont \in {"return", "reconnect"} :
             CloseOp(c, nrw, cont)
    BY <1>1, Zenon DEF Invoke, Start, NoreplyWait, ServerInfo, Close, Reconnect,
                QueryTypes
  <2>2. QED
    BY <2>1, CloseQuery, CloseCloseOp, CloseOne
<1>2. ASSUME NEW c \in Callers, Proceed(c) PROVE CloseInv'
  <2>1. CASE Send(c)
    <3>1. CloseAt(c)
      BY DEF CloseInv
    <3>2. QED
      BY <2>1, <3>1, CloseSend, CloseOne
  <2>2. QED
    BY <1>2, <2>1, CloseConnect, CloseHsRead, CloseReadHeader, CloseReadBody,
       CloseGarbled, CloseOne DEF Proceed
<1>3. PICK c \in Callers : TRUE
  BY CallersAssumption
<1>4. CASE ServerStep
  BY <1>3, <1>4, CloseServerStep, CloseOne
<1>5. CASE NetFail
  BY <1>3, <1>5, CloseNetFail, CloseOne
<1>6. CASE UNCHANGED vars
  BY <1>6 DEF vars, CloseInv, CloseAt, FrameIn, Bodies, LastAwaits
<1>7. QED
  BY <1>1, <1>2, <1>4, <1>5, <1>6 DEF Next

\* The only step that closes the socket with an "ok" for a caller reading
\* the body of its close's response is the dispatch of that body.
LEMMA CloseIsDispatch ==
    ASSUME TypeOK, OneCaller, [Next]_vars, NEW c \in Callers,
           pc[c] = "body", sock = "open", sock' = "none", res'[c] = "ok"
    PROVE  ReadBody(c) /\ ~ReadFails(c)
<1>1. \A d \in Callers : d = c
  BY DEF OneCaller
<1>2. ~Invoke(c)
  BY DEF Invoke, Start, NoreplyWait, ServerInfo, Query, Close, Reconnect,
         CloseOp
<1>3. /\ ~Send(c) /\ ~Connect(c) /\ ~HsRead(c) /\ ~ReadHeader(c)
      /\ ~Garbled(c)
  BY DEF Send, Connect, HsRead, ReadHeader, Garbled
<1>4. ~ServerStep /\ ~NetFail /\ ~UNCHANGED vars
  BY DEF ServerStep, NetFail, vars
<1>5. ReadBody(c)
  BY <1>1, <1>2, <1>3, <1>4 DEF Next, Proceed
<1>6. ~ReadFails(c)
  BY DEF ReadFails, Return, TypeOK
<1>7. QED
  BY <1>5, <1>6

\* The dispatch that closes the socket read a body, and the invariant says
\* which body it is and that the client stream is empty.
LEMMA CloseStep ==
    ASSUME TypeOK, CloseInv, OneCaller, [Next]_vars, NEW c \in Callers,
           pc[c] = "body", after[c] # "return",
           sock = "open", sock' = "none", res'[c] = "ok"
    PROVE  /\ s2c # <<>>
           /\ Head(s2c) = [k |-> "body", rt |-> "wait_complete"]
           /\ c2s = <<>>
<1>1. c2s = <<>> /\ Bodies(s2c, "wait_complete") /\ s2c \in Seq(ServerMsgs)
  BY DEF CloseInv, CloseAt, TypeOK
<1>2. ReadBody(c) /\ ~ReadFails(c)
  BY CloseIsDispatch
<1>3. s2c # <<>> /\ Head(s2c).k = "body"
  BY <1>2 DEF ReadBody
<1>4. Head(s2c) = s2c[1] /\ Head(s2c) \in ServerMsgs /\ 1 \in 1..Len(s2c)
  BY <1>1, <1>3
<1>5. Head(s2c).rt = "wait_complete"
  BY <1>1, <1>3, <1>4 DEF Bodies
<1>6. Head(s2c) \in [k : {"body"}, rt : ResponseTypes]
  BY <1>3, <1>4 DEF ServerMsgs
<1>7. QED
  BY <1>1, <1>3, <1>5, <1>6

\* Connection.close(noreply_wait=True) and reconnect, with one caller
\* thread: the step that tears the socket down after a NOREPLY_WAIT has read
\* the server's WAIT_COMPLETE, and the client stream is empty, so every
\* noreply write sent before the close reached the server first.
THEOREM CloseAwaitsWaitComplete ==
    ASSUME OneCaller
    PROVE  Spec => CloseAfterNoreplyWait
<1> DEFINE A == \A c \in Callers :
                  (/\ pc[c] = "body" /\ after[c] # "return"
                   /\ sock = "open" /\ sock' = "none" /\ res'[c] = "ok")
                    => /\ s2c # <<>>
                       /\ Head(s2c) = [k |-> "body", rt |-> "wait_complete"]
                       /\ c2s = <<>>
<1>1. Init => CIInv
  BY TypeInit, RouteInit, CloseInit DEF CIInv, RIInv
<1>2. CIInv /\ [Next]_vars => CIInv'
  BY TypeNext, NextRoute, NextClose DEF CIInv, RIInv
<1>3. CIInv /\ [Next]_vars => [A]_vars
  BY CloseStep DEF CIInv, RIInv
<1>4. Spec => [][A]_vars
  BY <1>1, <1>2, <1>3, PTL DEF Spec
<1>5. QED
  BY <1>4 DEF CloseAfterNoreplyWait

=============================================================================
