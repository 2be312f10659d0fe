------------------------- MODULE DriverConn_hs_proofs -------------------------
(***************************************************************************)
(* Handshake agreement (DefaultTransport.connect driving HandshakeV1_0):   *)
(* a client that completed its handshake on a live stream faces a server   *)
(* whose session is ready.  The proof is for one caller thread: with two,  *)
(* a reconnect by one thread resets the socket under a handshake another   *)
(* thread is reading, and that thread takes the new version reply for the  *)
(* server's final message (TLC finds the trace).                           *)
(***************************************************************************)
EXTENDS DriverConn_proofs

\* A handshake reply as the client reads it.
Hs(r) == [k |-> "hs", r |-> r]

HsPCs == {"hs_read1", "hs_read2", "hs_read3"}

(***************************************************************************)
(* HandshakeAgreement is not inductive by itself: the step that sets       *)
(* hsDone reads the head of s2c, so the invariant must say what the stream *)
(* holds at each handshake read.  While the stream that Connect opened is  *)
(* up, each read of the generator faces exactly the replies the server     *)
(* wrote for it, and the server's session is one step ahead of the client. *)
(***************************************************************************)
HsAt(c) ==
    /\ pc[c] \in HsPCs => ~hsDone
    /\ pc[c] = "hs_read1" =>
         \/ srv = "hs1" /\ c2s = <<[k |-> "init"]>> /\ s2c = <<>>
         \/ /\ srv = "hs3" /\ c2s = <<>>
            /\ s2c \in {<<Hs("ok"), Hs("ok")>>, <<Hs("ok"), Hs("bad_nonce")>>}
    /\ pc[c] = "hs_read2" =>
         /\ srv = "hs3" /\ c2s = <<>>
         /\ s2c \in {<<Hs("ok")>>, <<Hs("bad_nonce")>>}
    /\ pc[c] = "hs_read3" =>
         \/ srv = "hs3" /\ c2s = <<[k |-> "auth"]>> /\ s2c = <<>>
         \/ srv = "ready" /\ c2s = <<>> /\ s2c \in {<<Hs("ok")>>, <<Hs("bad_sig")>>}

HsStream ==
    link = "up" => (hsDone => srv = "ready") /\ \A c \in Callers : HsAt(c)

HsIInv == TypeOK /\ HsStream


-----------------------------------------------------------------------------
(* The steps that cannot disturb HsStream.                                 *)

\* A step that takes the stream down.
LEMMA HsDown ==
    ASSUME link' # "up"
    PROVE  HsStream'
BY DEF HsStream

\* A step of the only caller that leaves it outside the handshake and keeps
\* the stream, the server session and hsDone.
LEMMA HsQuiet ==
    ASSUME HsStream, OneCaller, NEW d \in Callers,
           UNCHANGED <<link, srv, hsDone>>, pc'[d] \notin HsPCs
    PROVE  HsStream'
<1>1. \A c \in Callers : pc'[c] \notin HsPCs
  BY DEF OneCaller
<1>2. QED
  BY <1>1 DEF HsStream, HsAt, HsPCs

\* Return(c, r) leaves the caller idle.
LEMMA ReturnIdle ==
    ASSUME TypeOK, NEW c \in Callers, NEW r, Return(c, r)
    PROVE  pc'[c] = "idle"
BY DEF TypeOK, Return

\* A failed read either closes the client or leaves everything but the
\* caller as it was.
LEMMA HsReadFails ==
    ASSUME TypeOK, HsStream, OneCaller, NEW c \in Callers, ReadFails(c)
    PROVE  HsStream'
<1>1. CASE RecvEOF
  BY <1>1, HsDown DEF RecvEOF, ClientClose
<1>2. CASE RecvReset \/ RecvClosed
  <2>1. UNCHANGED <<link, srv, hsDone>> /\ pc'[c] = "idle"
    BY <1>2, ReturnIdle DEF ReadFails, RecvReset, RecvClosed
  <2>2. QED
    BY <2>1, HsQuiet DEF HsPCs
<1>3. QED
  BY <1>1, <1>2 DEF ReadFails, RecvFails

-----------------------------------------------------------------------------
(* One lemma per action.                                                    *)

LEMMA HsInit == Init => HsStream
BY DEF Init, HsStream

\* start, noreply_wait and server build a query and leave the caller at its
\* send, or return.
LEMMA HsQuery ==
    ASSUME TypeOK, HsStream, OneCaller, NEW c \in Callers, NEW qt, NEW nr,
           Query(c, qt, nr)
    PROVE  HsStream'
<1>1. UNCHANGED <<link, srv, hsDone>>
  BY DEF Query
<1>2. pc'[c] \in {"send", "idle"}
  BY DEF TypeOK, Query, Draw, Return
<1>3. QED
  BY <1>1, <1>2, HsQuiet DEF HsPCs

\* close and reconnect: nothing, a NOREPLY_WAIT query, or closing the client.
LEMMA HsCloseOp ==
    ASSUME TypeOK, HsStream, OneCaller, NEW c \in Callers, NEW nrw, NEW cont,
           CloseOp(c, nrw, cont)
    PROVE  HsStream'
<1>1. CASE sock = "open" /\ ~nrw
  BY <1>1, HsDown DEF CloseOp, FinishClose, ClientClose
<1>2. CASE ~(sock = "open" /\ ~nrw)
  <2>1. UNCHANGED <<link, srv, hsDone>>
    BY <1>2 DEF CloseOp
  <2>2. pc'[c] \in {"send", "idle", "connect"}
    BY <1>2 DEF TypeOK, CloseOp, Draw
  <2>3. QED
    BY <2>1, <2>2, HsQuiet DEF HsPCs
<1>3. QED
  BY <1>1, <1>2

\* The sendall of a built query leaves the caller reading its response, or
\* returns; the stream and the server are not touched.
LEMMA HsSend ==
    ASSUME TypeOK, HsStream, OneCaller, NEW c \in Callers, Send(c)
    PROVE  HsStream'
<1>1. UNCHANGED <<link, srv, hsDone>>
  BY DEF Send
<1>2. pc'[c] \in {"hdr", "idle"}
  BY DEF TypeOK, Send, RunQuery, Return
<1>3. QED
  BY <1>1, <1>2, HsQuiet DEF HsPCs

\* DefaultClient.connect: a fresh stream faces the first handshake read.
LEMMA HsConnect ==
    ASSUME TypeOK, HsStream, OneCaller, NEW c \in Callers, Connect(c)
    PROVE  HsStream'
<1>1. CASE conns' = conns + 1
  <2>1. /\ link' = "up" /\ srv' = "hs1" /\ ~hsDone'
        /\ c2s' = <<[k |-> "init"]>> /\ s2c' = <<>>
        /\ pc'[c] = "hs_read1"
    BY <1>1, MaxConnectsAssumption DEF TypeOK, Connect, Return
  <2>2. \A d \in Callers : pc'[d] = "hs_read1"
    BY <2>1 DEF OneCaller
  <2>3. QED
    BY <2>1, <2>2 DEF HsStream, HsAt
<1>2. CASE conns' # conns + 1
  <2>1. UNCHANGED <<link, srv, hsDone>> /\ pc'[c] = "idle"
    BY <1>2, ReturnIdle DEF Connect
  <2>2. QED
    BY <2>1, HsQuiet DEF HsPCs
<1>3. QED
  BY <1>1, <1>2


\* read_response's header read.
LEMMA HsReadHeader ==
    ASSUME TypeOK, HsStream, OneCaller, NEW c \in Callers, ReadHeader(c)
    PROVE  HsStream'
<1>1. CASE ReadFails(c)
  BY <1>1, HsReadFails
<1>2. CASE ~ReadFails(c)
  <2>1. UNCHANGED <<link, srv, hsDone>> /\ pc'[c] \in {"body", "garbled"}
    BY <1>2 DEF TypeOK, ReadHeader
  <2>2. QED
    BY <2>1, HsQuiet DEF HsPCs
<1>3. QED
  BY <1>1, <1>2

\* A misaligned body read swallowing the stream.
LEMMA HsGarbled ==
    ASSUME TypeOK, HsStream, OneCaller, NEW c \in Callers, Garbled(c)
    PROVE  HsStream'
<1>1. CASE ReadFails(c)
  BY <1>1, HsReadFails
<1>2. CASE ~ReadFails(c)
  <2>1. UNCHANGED <<link, srv, hsDone>> /\ pc'[c] = "garbled"
    BY <1>2 DEF Garbled
  <2>2. QED
    BY <2>1, HsQuiet DEF HsPCs
<1>3. QED
  BY <1>1, <1>2

\* read_response's body read and its dispatch.
LEMMA HsReadBody ==
    ASSUME TypeOK, HsStream, OneCaller, NEW c \in Callers, ReadBody(c)
    PROVE  HsStream'
<1>1. CASE ReadFails(c)
  BY <1>1, HsReadFails
<1>2. CASE ~ReadFails(c) /\ Head(s2c).k # "body"
  <2>1. UNCHANGED <<link, srv, hsDone>> /\ pc'[c] = "garbled"
    BY <1>2 DEF TypeOK, ReadBody
  <2>2. QED
    BY <2>1, HsQuiet DEF HsPCs
<1>3. CASE ~ReadFails(c) /\ Head(s2c).k = "body"
  <2>1. Dispatch(c, Head(s2c))
    BY <1>3 DEF ReadBody
  <2>2. CASE link' = "none"
    BY <2>2, HsDown
  <2>3. CASE link' # "none"
    <3>1. UNCHANGED <<link, srv, hsDone>> /\ pc'[c] = "idle"
      BY <2>1, <2>3, ReturnIdle DEF Dispatch, FinishClose, ClientClose
    <3>2. QED
      BY <3>1, HsQuiet DEF HsPCs
  <2>4. QED
    BY <2>2, <2>3
<1>4. QED
  BY <1>1, <1>2, <1>3

\* The stream fails.
LEMMA HsNetFail ==
    ASSUME NetFail
    PROVE  HsStream'
BY HsDown DEF NetFail


\* What a handshake read does on a live stream: the caller returns with
\* nothing else changed, or a success reply is consumed and the generator
\* moves on (after the second read, by sending its authentication request).
LEMMA HsReadShape ==
    ASSUME TypeOK, link = "up", NEW c \in Callers, HsRead(c)
    PROVE  \/ UNCHANGED <<link, srv, hsDone>> /\ pc'[c] = "idle"
           \/ /\ s2c # <<>> /\ Head(s2c).k = "hs" /\ Head(s2c).r = "ok"
              /\ pc[c] \in {"hs_read1", "hs_read3"}
              /\ s2c' = Tail(s2c) /\ UNCHANGED <<link, srv, c2s>>
              /\ pc'[c] = HsNext[pc[c]]
              /\ hsDone' = (hsDone \/ pc[c] = "hs_read3")
           \/ /\ s2c # <<>> /\ Head(s2c).k = "hs" /\ Head(s2c).r = "ok"
              /\ pc[c] = "hs_read2"
              /\ s2c' = Tail(s2c) /\ UNCHANGED <<link, srv, hsDone>>
              /\ c2s' = Append(c2s, [k |-> "auth"]) /\ pc'[c] = "hs_read3"
<1>1. CASE RecvFails /\ Return(c, "driver_error")
  <2>1. RecvClosed
    BY <1>1 DEF RecvFails, RecvEOF, RecvReset
  <2>2. QED
    BY <1>1, <2>1, ReturnIdle DEF RecvClosed
<1>2. CASE /\ s2c = <<>> /\ link = "up"
           /\ Return(c, "timeout")
           /\ UNCHANGED <<sock, link, srv, c2s, s2c, issued, hsDone>>
  BY <1>2, ReturnIdle
<1>3. CASE /\ s2c # <<>>
           /\ link # "rst"
           /\ s2c' = Tail(s2c)
           /\ UNCHANGED <<sock, link, srv, issued>>
           /\ IF Head(s2c).k # "hs"
                THEN Return(c, "decode_error") /\ UNCHANGED <<c2s, hsDone>>
              ELSE IF ~HsStepOK(Head(s2c).r)
                THEN Return(c, "driver_error") /\ UNCHANGED <<c2s, hsDone>>
              ELSE IF pc[c] = "hs_read2"
                THEN \/ /\ SendReturns([k |-> "auth"])
                        /\ pc' = [pc EXCEPT ![c] = "hs_read3"]
                        /\ UNCHANGED <<res, hsDone>>
                     \/ /\ SendRaises
                        /\ Return(c, "driver_error")
                        /\ UNCHANGED hsDone
              ELSE /\ pc' = [pc EXCEPT ![c] = HsNext[pc[c]]]
                   /\ res' = [res EXCEPT ![c] =
                                IF pc[c] = "hs_read3" THEN "ok" ELSE @]
                   /\ hsDone' = (hsDone \/ pc[c] = "hs_read3")
                   /\ UNCHANGED c2s
  <2>1. CASE Head(s2c).k # "hs" \/ ~HsStepOK(Head(s2c).r)
    <3>1. Return(c, "decode_error") \/ Return(c, "driver_error")
      BY <1>3, <2>1
    <3>2. UNCHANGED hsDone
      BY <1>3, <2>1
    <3>3. QED
      BY <1>3, <3>1, <3>2, ReturnIdle
  <2>2. CASE Head(s2c).k = "hs" /\ HsStepOK(Head(s2c).r) /\ pc[c] = "hs_read2"
    <3>1. \/ /\ SendReturns([k |-> "auth"])
             /\ pc' = [pc EXCEPT ![c] = "hs_read3"]
             /\ UNCHANGED hsDone
          \/ /\ Return(c, "driver_error")
             /\ UNCHANGED hsDone
      BY <1>3, <2>2
    <3>2. CASE Return(c, "driver_error") /\ UNCHANGED hsDone
      BY <1>3, <3>2, ReturnIdle
    <3>3. CASE /\ SendReturns([k |-> "auth"])
               /\ pc' = [pc EXCEPT ![c] = "hs_read3"]
               /\ UNCHANGED hsDone
      BY <1>3, <2>2, <3>3 DEF SendReturns, HsStepOK, TypeOK
    <3>4. QED
      BY <3>1, <3>2, <3>3
  <2>3. CASE Head(s2c).k = "hs" /\ HsStepOK(Head(s2c).r) /\ pc[c] # "hs_read2"
    <3>1. /\ pc' = [pc EXCEPT ![c] = HsNext[pc[c]]]
          /\ hsDone' = (hsDone \/ pc[c] = "hs_read3")
          /\ UNCHANGED c2s
      BY <1>3, <2>3
    <3>2. pc[c] \in {"hs_read1", "hs_read3"}
      BY <2>3 DEF HsRead
    <3>3. QED
      BY <1>3, <2>3, <3>1, <3>2 DEF HsStepOK, TypeOK
  <2>4. QED
    BY <2>1, <2>2, <2>3
<1>4. QED
  BY <1>1, <1>2, <1>3 DEF HsRead


\* A handshake read keeps HsStream: the first two reads find the replies
\* the server wrote to the initial message, and the third, which sets
\* hsDone, finds the final reply the server wrote once it moved its
\* session to ready.
LEMMA HsHsRead ==
    ASSUME TypeOK, HsStream, OneCaller, NEW c \in Callers, HsRead(c)
    PROVE  HsStream'
<1>1. CASE link # "up"
  <2>1. link' # "up"
    BY <1>1 DEF HsRead, RecvFails, RecvEOF, RecvReset, RecvClosed, ClientClose
  <2>2. QED
    BY <2>1, HsDown
<1>2. CASE link = "up"
  <2>0. HsAt(c) /\ ~hsDone
    BY <1>2 DEF HsRead, HsStream, HsAt, HsPCs
  \* HsStream' follows from what holds of the only caller.
  <2>1. ASSUME link' = "up", hsDone' => srv' = "ready", HsAt(c)'
        PROVE  HsStream'
    BY <2>1 DEF OneCaller, HsStream
  <2>2. CASE UNCHANGED <<link, srv, hsDone>> /\ pc'[c] = "idle"
    BY <2>2, HsQuiet DEF HsPCs
  <2>3. CASE /\ s2c # <<>> /\ Head(s2c).k = "hs" /\ Head(s2c).r = "ok"
             /\ pc[c] = "hs_read1"
             /\ s2c' = Tail(s2c) /\ UNCHANGED <<link, srv, c2s>>
             /\ pc'[c] = HsNext[pc[c]]
             /\ hsDone' = (hsDone \/ pc[c] = "hs_read3")
    <3>1. srv = "hs3" /\ c2s = <<>>
          /\ s2c \in {<<Hs("ok"), Hs("ok")>>, <<Hs("ok"), Hs("bad_nonce")>>}
      BY <2>0, <2>3 DEF HsAt
    <3>2. s2c' \in {<<Hs("ok")>>, <<Hs("bad_nonce")>>}
      <4>1. CASE s2c = <<Hs("ok"), Hs("ok")>>
        BY <2>3, <4>1
      <4>2. CASE s2c = <<Hs("ok"), Hs("bad_nonce")>>
        BY <2>3, <4>2
      <4>3. QED
        BY <3>1, <4>1, <4>2
    <3>3. pc'[c] = "hs_read2" /\ ~hsDone'
      <4>1. pc'[c] = HsNext["hs_read1"]
        BY <2>3
      <4>2. ~hsDone'
        BY <2>0, <2>3
      <4>3. QED
        BY <4>1, <4>2 DEF HsNext
    <3>4. HsAt(c)'
      BY <1>2, <2>3, <3>1, <3>2, <3>3 DEF HsAt
    <3>5. QED
      BY <1>2, <2>1, <2>3, <3>3, <3>4
  <2>4. CASE /\ s2c # <<>> /\ Head(s2c).k = "hs" /\ Head(s2c).r = "ok"
             /\ pc[c] = "hs_read3"
             /\ s2c' = Tail(s2c) /\ UNCHANGED <<link, srv, c2s>>
             /\ pc'[c] = HsNext[pc[c]]
             /\ hsDone' = (hsDone \/ pc[c] = "hs_read3")
    <3>1. srv = "ready"
      BY <2>0, <2>4 DEF HsAt
    <3>2. pc'[c] = "idle"
      BY <2>4 DEF HsNext
    <3>3. HsAt(c)'
      BY <3>2 DEF HsAt, HsPCs
    <3>4. QED
      BY <1>2, <2>1, <2>4, <3>1, <3>3
  <2>5. CASE /\ s2c # <<>> /\ Head(s2c).k = "hs" /\ Head(s2c).r = "ok"
             /\ pc[c] = "hs_read2"
             /\ s2c' = Tail(s2c) /\ UNCHANGED <<link, srv, hsDone>>
             /\ c2s' = Append(c2s, [k |-> "auth"]) /\ pc'[c] = "hs_read3"
    <3>1. srv = "hs3" /\ c2s = <<>> /\ s2c \in {<<Hs("ok")>>, <<Hs("bad_nonce")>>}
      BY <2>0, <2>5 DEF HsAt
    <3>2. s2c = <<Hs("ok")>>
      BY <2>5, <3>1 DEF Hs
    <3>3. s2c' = <<>> /\ c2s' = <<[k |-> "auth"]>>
      BY <2>5, <3>1, <3>2
    <3>4. HsAt(c)'
      BY <1>2, <2>0, <2>5, <3>1, <3>3 DEF HsAt
    <3>5. QED
      BY <1>2, <2>0, <2>1, <2>5, <3>4
  <2>6. QED
    BY <1>2, <2>2, <2>3, <2>4, <2>5, HsReadShape
<1>3. QED
  BY <1>1, <1>2


\* The server's answer to the initial message, when it does not end the
\* session, is the version reply followed by its first SCRAM message.
LEMMA FirstReplies ==
    ASSUME NEW rs \in {<<"ok", "ok">>, <<"ok", "bad_nonce">>, <<"ok", "fail">>,
                       <<"fail">>, <<"bad_version", "fail">>},
           rs[Len(rs)] # "fail"
    PROVE  <<>> \o HsMsgs(rs) \in {<<Hs("ok"), Hs("ok")>>, <<Hs("ok"), Hs("bad_nonce")>>}
<1>1. rs = <<"ok", "ok">> \/ rs = <<"ok", "bad_nonce">>
  OBVIOUS
<1>2. CASE rs = <<"ok", "ok">>
  <2>1. HsMsgs(rs) = <<Hs("ok"), Hs("ok")>>
    BY <1>2 DEF HsMsgs, Hs
  <2>2. QED
    BY <2>1
<1>3. CASE rs = <<"ok", "bad_nonce">>
  <2>1. HsMsgs(rs) = <<Hs("ok"), Hs("bad_nonce")>>
    BY <1>3 DEF HsMsgs, Hs
  <2>2. QED
    BY <2>1
<1>4. QED
  BY <1>1, <1>2, <1>3

\* The server reads the next client message.  While a handshake read is
\* pending the only message in flight is the one the generator sent, and
\* the server answers it with the replies that read and the next expect.
LEMMA HsServerStep ==
    ASSUME TypeOK, HsStream, ServerStep
    PROVE  HsStream'
<1>1. CASE link' # "up"
  BY <1>1, HsDown
<1>2. CASE link' = "up"
  <2>0. link = "up" /\ c2s # <<>> /\ c2s' = Tail(c2s)
        /\ UNCHANGED <<pc, hsDone>>
    BY DEF ServerStep
  <2>1. hsDone' => srv' = "ready"
    <3>1. srv = "ready" => srv' = "ready"
      BY DEF ServerStep
    <3>2. QED
      BY <2>0, <3>1 DEF HsStream
  <2>2. ASSUME NEW c \in Callers PROVE HsAt(c)'
    <3>0. HsAt(c)
      BY <2>0 DEF HsStream
    <3>1. CASE pc[c] \notin HsPCs
      BY <2>0, <3>1 DEF HsAt, HsPCs
    <3>2. CASE pc[c] = "hs_read1"
      <4>1. srv = "hs1" /\ c2s = <<[k |-> "init"]>> /\ s2c = <<>>
        BY <2>0, <3>0, <3>2 DEF HsAt
      <4>2. Head(c2s) = [k |-> "init"] /\ c2s' = <<>>
        BY <2>0, <4>1
      <4>3. PICK rs \in {<<"ok", "ok">>, <<"ok", "bad_nonce">>, <<"ok", "fail">>,
                         <<"fail">>, <<"bad_version", "fail">>} :
                 /\ s2c' = s2c \o HsMsgs(rs)
                 /\ IF rs[Len(rs)] = "fail"
                      THEN link' = "fin" /\ srv' = srv
                      ELSE link' = link /\ srv' = "hs3"
        BY <4>1, <4>2 DEF ServerStep
      <4>4. rs[Len(rs)] # "fail" /\ srv' = "hs3"
        BY <1>2, <4>3
      <4>5. s2c' \in {<<Hs("ok"), Hs("ok")>>, <<Hs("ok"), Hs("bad_nonce")>>}
        BY <4>1, <4>3, <4>4, FirstReplies
      <4>6. QED
        BY <2>0, <3>2, <3>0, <4>2, <4>4, <4>5 DEF HsAt
    <3>3. CASE pc[c] = "hs_read2"
      BY <2>0, <3>0, <3>3 DEF HsAt
    <3>4. CASE pc[c] = "hs_read3"
      <4>1. srv = "hs3" /\ c2s = <<[k |-> "auth"]>> /\ s2c = <<>>
        BY <2>0, <3>0, <3>4 DEF HsAt
      <4>2. Head(c2s) = [k |-> "auth"] /\ c2s' = <<>>
        BY <2>0, <4>1
      <4>3. PICK r \in {"ok", "bad_sig", "fail"} :
                 /\ s2c' = Append(s2c, [k |-> "hs", r |-> r])
                 /\ IF r = "fail"
                      THEN link' = "fin" /\ srv' = srv
                      ELSE link' = link /\ srv' = "ready"
        BY <4>1, <4>2 DEF ServerStep
      <4>4. r # "fail" /\ srv' = "ready"
        BY <1>2, <4>3
      <4>5. s2c' \in {<<Hs("ok")>>, <<Hs("bad_sig")>>}
        BY <4>1, <4>3, <4>4 DEF Hs
      <4>6. QED
        BY <2>0, <3>4, <3>0, <4>2, <4>4, <4>5 DEF HsAt
    <3>5. QED
      BY <3>1, <3>2, <3>3, <3>4 DEF HsPCs
  <2>3. QED
    BY <1>2, <2>1, <2>2 DEF HsStream
<1>3. QED
  BY <1>1, <1>2


\* Every step of the driver with one caller keeps HsStream.
LEMMA NextHsStream ==
    ASSUME TypeOK, HsStream, OneCaller, [Next]_vars
    PROVE  HsStream'
<1>1. ASSUME NEW c \in Callers, Invoke(c) PROVE HsStream'
  <2>1. \/ \E qt \in QueryTypes, nr \in BOOLEAN : Query(c, qt, nr)
        \/ \E nrw \in BOOLEAN, cont \in {"return", "reconnect"} :
             CloseOp(c, nrw, cont)
    BY <1>1, Zenon DEF Invoke, Start, NoreplyWait, ServerInfo, Close, Reconnect,
                QueryTypes
  <2>2. QED
    BY <2>1, HsQuery, HsCloseOp
<1>2. ASSUME NEW c \in Callers, Proceed(c) PROVE HsStream'
  BY <1>2, HsSend, HsConnect, HsHsRead, HsReadHeader, HsReadBody, HsGarbled
  DEF Proceed
<1>3. CASE ServerStep
  BY <1>3, HsServerStep
<1>4. CASE NetFail
  BY <1>4, HsNetFail
<1>5. CASE UNCHANGED vars
  BY <1>5 DEF vars, HsStream, HsAt
<1>6. QED
  BY <1>1, <1>2, <1>3, <1>4, <1>5 DEF Next

\* Handshake agreement (HandshakeV1_0 driven by DefaultTransport.connect):
\* with one caller thread, whenever the client holds a completed handshake
\* on a live stream, the server has accepted its authentication and its
\* session is ready.
THEOREM HandshakeAgreed ==
    ASSUME OneCaller
    PROVE  Spec => []HandshakeAgreement
<1>1. Init => HsIInv
  BY TypeInit, HsInit DEF HsIInv
<1>2. HsIInv /\ [Next]_vars => HsIInv'
  BY TypeNext, NextHsStream DEF HsIInv
<1>3. HsIInv => HandshakeAgreement
  BY DEF HsIInv, HsStream, HandshakeAgreement
<1>4. QED
  BY <1>1, <1>2, <1>3, PTL DEF Spec

=============================================================================
