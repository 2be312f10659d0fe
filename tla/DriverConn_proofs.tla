-------------------------- MODULE DriverConn_proofs --------------------------
(***************************************************************************)
(* Proofs about DriverConn that hold for every value of the constants:    *)
(* type correctness, and, for one caller thread, the uniqueness of the     *)
(* tokens written on one socket (TokenGenerator.new, reset in              *)
(* Connection.close).  With two threads the tokens are not unique: TLC     *)
(* finds the trace (MC_DriverConn_reuse.cfg).                              *)
(***************************************************************************)
EXTENDS DriverConn, TLAPS

-----------------------------------------------------------------------------
(* Facts about the sequences the streams are made of.                     *)

LEMMA EmptySeq == \A S : <<>> \in Seq(S)
OBVIOUS

LEMMA HeadTailType ==
    ASSUME NEW S, NEW sq \in Seq(S), sq # <<>>
    PROVE  Head(sq) \in S /\ Tail(sq) \in Seq(S)
OBVIOUS

LEMMA AppendType ==
    ASSUME NEW S, NEW sq \in Seq(S), NEW e \in S
    PROVE  Append(sq, e) \in Seq(S)
OBVIOUS

LEMMA ConcatType ==
    ASSUME NEW S, NEW sq \in Seq(S), NEW tq \in Seq(S)
    PROVE  sq \o tq \in Seq(S)
OBVIOUS

-----------------------------------------------------------------------------
(* Facts about the messages.                                               *)

\* A query frame built from a query type, a token and a noreply flag is a
\* client message.
LEMMA QueryType ==
    ASSUME NEW qt \in QueryTypes, NEW t \in Tokens, NEW nr \in BOOLEAN
    PROVE  [k |-> "query", qt |-> qt, tok |-> t, noreply |-> nr] \in QueryMsgs
BY DEF QueryMsgs

\* A query frame is a client message, and carries a token.
LEMMA QueryMsgsFields ==
    ASSUME NEW m \in QueryMsgs
    PROVE  m \in ClientMsgs /\ m.k = "query" /\ m.tok \in Tokens
           /\ m.qt \in QueryTypes /\ m.noreply \in BOOLEAN
BY DEF QueryMsgs, ClientMsgs

\* The fields of a query frame the server reads.
LEMMA QueryFields ==
    ASSUME NEW m \in ClientMsgs, m.k = "query"
    PROVE  m.tok \in Tokens /\ m.qt \in QueryTypes /\ m.noreply \in BOOLEAN
BY DEF ClientMsgs, QueryMsgs

\* The token of a frame header, and the type of a frame body.
LEMMA FrameFields ==
    ASSUME NEW m \in ServerMsgs
    PROVE  /\ m.k = "hdr" => m.tok \in Tokens
           /\ m.k = "body" => m.rt \in ResponseTypes
BY DEF ServerMsgs

\* A run of handshake replies the server writes is a sequence of server
\* messages.
LEMMA HsMsgsType ==
    ASSUME NEW rs \in Seq(HsReplies)
    PROVE  HsMsgs(rs) \in Seq(ServerMsgs)
<1>1. \A i \in DOMAIN rs : [k |-> "hs", r |-> rs[i]] \in ServerMsgs
  BY DEF ServerMsgs
<1>2. QED
  BY <1>1 DEF HsMsgs

\* The reply runs the server may choose to the initial message.
LEMMA HsChoices ==
    {<<"ok", "ok">>, <<"ok", "bad_nonce">>, <<"ok", "fail">>,
     <<"fail">>, <<"bad_version", "fail">>} \subseteq Seq(HsReplies)
BY DEF HsReplies

\* The outcome read_response gives a response is one of the results.
\* The response types the server answers each query type with.
LEMMA RepliesType ==
    ASSUME NEW qt \in QueryTypes
    PROVE  Replies(qt) \subseteq ResponseTypes
<1>1. CASE qt = "START"
  BY <1>1, StartRepliesAssumption DEF Replies
<1>2. CASE qt = "NOREPLY_WAIT"
  BY <1>2 DEF Replies, ResponseTypes
<1>3. CASE qt = "SERVER_INFO"
  BY <1>3 DEF Replies, ResponseTypes
<1>4. QED
  BY <1>1, <1>2, <1>3 DEF QueryTypes

LEMMA OutcomeType ==
    ASSUME NEW rt
    PROVE  Outcome(rt) \in Results
BY DEF Outcome, Results

-----------------------------------------------------------------------------
(* Type correctness: one lemma per action.                                 *)

LEMMA TypeInit == Init => TypeOK
<1> SUFFICES ASSUME Init PROVE TypeOK
  OBVIOUS
<1>1. /\ sock \in {"none", "open"}
      /\ link \in {"none", "up", "fin", "rst"}
      /\ srv \in {"none", "hs1", "hs3", "ready"}
      /\ hsDone \in BOOLEAN
  BY DEF Init
<1>2. c2s \in Seq(ClientMsgs) /\ s2c \in Seq(ServerMsgs) /\ issued \in Seq(Tokens)
  BY EmptySeq, Zenon DEF Init
<1>3. /\ pc \in [Callers -> PCs]
      /\ after \in [Callers -> {"return", "close", "reconnect"}]
      /\ res \in [Callers -> Results]
  BY DEF Init, PCs, Results
<1>4. /\ qtok \in [Callers -> Tokens]
      /\ htok \in [Callers -> Tokens]
      /\ token \in Tokens
      /\ waiting \subseteq Tokens
  BY MaxTokenAssumption DEF Init, Tokens
<1>5. conns \in 0..MaxConnects /\ fails \in 0..MaxFailures
  BY MaxConnectsAssumption, MaxFailuresAssumption DEF Init
<1>6. /\ out \in [Callers -> QueryMsgs \cup {NoQuery}]
      /\ \A c \in Callers : pc[c] = "send" => out[c] \in QueryMsgs
  BY DEF Init
<1>7. QED
  BY <1>1, <1>2, <1>3, <1>4, <1>5, <1>6 DEF TypeOK

\* A step that leaves out alone and brings no caller to the send keeps the
\* built queries typed.
LEMMA SendKept ==
    ASSUME TypeOK, out' = out,
           \A d \in Callers : pc'[d] = "send" => pc[d] = "send"
    PROVE  /\ out' \in [Callers -> QueryMsgs \cup {NoQuery}]
           /\ \A d \in Callers : pc'[d] = "send" => out'[d] \in QueryMsgs
BY DEF TypeOK

\* A caller that builds a query q keeps the built queries typed.
LEMMA DrawType ==
    ASSUME TypeOK, NEW c \in Callers, NEW q \in QueryMsgs, NEW cont,
           Draw(c, q, cont)
    PROVE  /\ pc' \in [Callers -> PCs]
           /\ out' \in [Callers -> QueryMsgs \cup {NoQuery}]
           /\ \A d \in Callers : pc'[d] = "send" => out'[d] \in QueryMsgs
           /\ qtok' \in [Callers -> Tokens]
           /\ waiting' \subseteq Tokens
<1>1. q.tok \in Tokens
  BY QueryMsgsFields
<1>2. QED
  BY <1>1 DEF TypeOK, Draw, BuildQuery, PCs

\* start, noreply_wait and server: a new token and a built query, or the
\* ReqlDriverError of a closed connection.
LEMMA TypeQuery ==
    ASSUME TypeOK, NEW c \in Callers, NEW qt \in QueryTypes, NEW nr \in BOOLEAN,
           Query(c, qt, nr)
    PROVE  TypeOK'
<1> USE DEF TypeOK
<1>1. CASE sock = "none"
  <2>1. /\ pc' = [pc EXCEPT ![c] = "idle"]
        /\ res' = [res EXCEPT ![c] = "driver_error"]
        /\ UNCHANGED <<sock, link, srv, c2s, s2c, token, waiting, after, qtok,
                       out, htok, issued, hsDone, conns, fails>>
    BY <1>1 DEF Query, Return
  <2>2. pc' \in [Callers -> PCs] /\ res' \in [Callers -> Results]
    BY <2>1 DEF PCs, Results
  <2>3. \A d \in Callers : pc'[d] = "send" => pc[d] = "send"
    BY <2>1
  <2>4. QED
    BY <2>1, <2>2, <2>3, SendKept
<1>2. CASE sock = "open"
  <2> DEFINE q == [k |-> "query", qt |-> qt, tok |-> token, noreply |-> nr]
  <2>1. /\ NewToken
        /\ Draw(c, q, "return")
        /\ UNCHANGED <<sock, link, srv, c2s, s2c, htok, res, issued, hsDone,
                       conns, fails>>
    BY <1>2 DEF Query
  <2>2. q \in QueryMsgs
    BY QueryType
  <2>3. token' \in Tokens
    BY <2>1, MaxTokenAssumption DEF NewToken, Tokens
  <2>4. after' \in [Callers -> {"return", "close", "reconnect"}]
    BY <2>1 DEF Draw
  <2>5. QED
    BY <2>1, <2>2, <2>3, <2>4, DrawType
<1>3. QED
  BY <1>1, <1>2

\* close and the first half of reconnect: nothing, a NOREPLY_WAIT built, or
\* the client closed and the generator reset at once.
LEMMA TypeCloseOp ==
    ASSUME TypeOK, NEW c \in Callers, NEW nrw \in BOOLEAN,
           NEW cont \in {"return", "reconnect"}, CloseOp(c, nrw, cont)
    PROVE  TypeOK'
<1> USE DEF TypeOK
<1>1. CASE sock = "none"
  <2>1. /\ pc' = [pc EXCEPT ![c] = IF cont = "reconnect" THEN "connect" ELSE "idle"]
        /\ res' = [res EXCEPT ![c] = "ok"]
        /\ UNCHANGED <<sock, link, srv, c2s, s2c, token, waiting, after, qtok,
                       out, htok, issued, hsDone, conns, fails>>
    BY <1>1 DEF CloseOp
  <2>2. pc' \in [Callers -> PCs] /\ res' \in [Callers -> Results]
    BY <2>1 DEF PCs, Results
  <2>3. \A d \in Callers : pc'[d] = "send" => pc[d] = "send"
    BY <2>1
  <2>4. QED
    BY <2>1, <2>2, <2>3, SendKept
<1>2. CASE sock = "open" /\ nrw
  <2> DEFINE q == [k |-> "query", qt |-> "NOREPLY_WAIT", tok |-> token,
                   noreply |-> FALSE]
  <2>1. /\ NewToken
        /\ Draw(c, q, IF cont = "reconnect" THEN "reconnect" ELSE "close")
        /\ UNCHANGED <<sock, link, srv, c2s, s2c, htok, res, issued, hsDone,
                       conns, fails>>
    BY <1>2 DEF CloseOp
  <2>2. q \in QueryMsgs
    BY QueryType DEF QueryTypes
  <2>3. token' \in Tokens
    BY <2>1, MaxTokenAssumption DEF NewToken, Tokens
  <2>4. after' \in [Callers -> {"return", "close", "reconnect"}]
    BY <2>1 DEF Draw
  <2>5. QED
    BY <2>1, <2>2, <2>3, <2>4, DrawType
<1>3. CASE sock = "open" /\ ~nrw
  <2>1. /\ sock' = "none" /\ link' = "none" /\ srv' = "none"
        /\ c2s' = <<>> /\ s2c' = <<>> /\ issued' = <<>>
        /\ hsDone' = FALSE /\ token' = 0
        /\ pc' = [pc EXCEPT ![c] = IF cont = "reconnect" THEN "connect" ELSE "idle"]
        /\ res' = [res EXCEPT ![c] = "ok"]
        /\ UNCHANGED <<waiting, after, qtok, out, htok, conns, fails>>
    BY <1>3 DEF CloseOp, FinishClose, ClientClose, ResetToken
  <2>2. /\ c2s' \in Seq(ClientMsgs) /\ s2c' \in Seq(ServerMsgs)
        /\ issued' \in Seq(Tokens) /\ token' \in Tokens
    BY <2>1, EmptySeq, MaxTokenAssumption DEF Tokens
  <2>3. pc' \in [Callers -> PCs] /\ res' \in [Callers -> Results]
    BY <2>1 DEF PCs, Results
  <2>4. \A d \in Callers : pc'[d] = "send" => pc[d] = "send"
    BY <2>1
  <2>5. QED
    BY <2>1, <2>2, <2>3, <2>4, SendKept
<1>4. QED
  BY <1>1, <1>2, <1>3

\* sendall of the query a caller built, and run_query's return or read.
LEMMA TypeSend ==
    ASSUME TypeOK, NEW c \in Callers, Send(c)
    PROVE  TypeOK'
<1> USE DEF TypeOK
<1>1. out[c] \in QueryMsgs
  BY DEF Send
<1>2. out[c] \in ClientMsgs /\ out[c].tok \in Tokens
  BY <1>1, QueryMsgsFields
<1>3. /\ c2s' = c2s \/ c2s' = Append(c2s, out[c])
      /\ issued' = issued \/ issued' = Append(issued, out[c].tok)
  BY DEF Send, RunQuery, SendReturns, SendRaises
<1>4. c2s' \in Seq(ClientMsgs) /\ issued' \in Seq(Tokens)
  <2>1. Append(c2s, out[c]) \in Seq(ClientMsgs)
    BY <1>2, AppendType
  <2>2. Append(issued, out[c].tok) \in Seq(Tokens)
    BY <1>2, AppendType
  <2>3. QED
    BY <1>3, <2>1, <2>2
<1>5. /\ pc' = [pc EXCEPT ![c] = pc'[c]] /\ pc'[c] \in {"idle", "hdr"}
      /\ res' \in [Callers -> Results]
  BY DEF Send, RunQuery, Return, Results
<1>6. pc' \in [Callers -> PCs]
  BY <1>5 DEF PCs
<1>7. out' = [out EXCEPT ![c] = NoQuery]
  BY DEF Send
<1>8. /\ out' \in [Callers -> QueryMsgs \cup {NoQuery}]
      /\ \A d \in Callers : pc'[d] = "send" => out'[d] \in QueryMsgs
  BY <1>5, <1>7
<1>9. UNCHANGED <<sock, link, srv, s2c, token, waiting, after, qtok, htok,
                  hsDone, conns, fails>>
  BY DEF Send
<1>10. QED
  BY <1>4, <1>5, <1>6, <1>8, <1>9

\* DefaultClient.connect: a fresh socket and the initial handshake message.
LEMMA TypeConnect ==
    ASSUME TypeOK, NEW c \in Callers, Connect(c)
    PROVE  TypeOK'
<1> USE DEF TypeOK
<1>1. UNCHANGED <<token, waiting, after, qtok, out, htok, fails>>
  BY DEF Connect
<1>2. /\ sock' \in {"none", "open"}
      /\ link' \in {"none", "up", "fin", "rst"}
      /\ srv' \in {"none", "hs1", "hs3", "ready"}
      /\ hsDone' \in BOOLEAN
  BY DEF Connect
<1>3. conns' \in 0..MaxConnects
  BY MaxConnectsAssumption DEF Connect
<1>4. c2s' \in Seq(ClientMsgs)
  <2>1. <<[k |-> "init"]>> \in Seq(ClientMsgs)
    BY DEF ClientMsgs
  <2>2. QED
    BY <2>1 DEF Connect
<1>5. s2c' \in Seq(ServerMsgs) /\ issued' \in Seq(Tokens)
  BY EmptySeq, Zenon DEF Connect
<1>6. pc' \in [Callers -> PCs] /\ res' \in [Callers -> Results]
  BY DEF Connect, Return, PCs, Results
<1>7. \A d \in Callers : pc'[d] = "send" => pc[d] = "send"
  BY DEF Connect, Return
<1>8. QED
  BY <1>1, <1>2, <1>3, <1>4, <1>5, <1>6, <1>7, SendKept

\* A handshake read: the next reply, a timeout, or a failed stream.
LEMMA TypeHsRead ==
    ASSUME TypeOK, NEW c \in Callers, HsRead(c)
    PROVE  TypeOK'
<1> USE DEF TypeOK
<1>1. UNCHANGED <<token, waiting, after, qtok, out, htok, conns, fails>>
  BY DEF HsRead
<1>2. /\ sock' \in {"none", "open"}
      /\ link' \in {"none", "up", "fin", "rst"}
      /\ srv' \in {"none", "hs1", "hs3", "ready"}
      /\ hsDone' \in BOOLEAN
  BY DEF HsRead, RecvFails, RecvEOF, RecvReset, RecvClosed, ClientClose
<1>3. s2c' \in Seq(ServerMsgs)
  <2>1. s2c' = s2c \/ s2c' = <<>> \/ (s2c # <<>> /\ s2c' = Tail(s2c))
    BY DEF HsRead, RecvFails, RecvEOF, RecvReset, RecvClosed, ClientClose
  <2>2. QED
    BY <2>1, HeadTailType, EmptySeq
<1>4. c2s' \in Seq(ClientMsgs) /\ issued' \in Seq(Tokens)
  <2>1. [k |-> "auth"] \in ClientMsgs
    BY DEF ClientMsgs
  <2>2. c2s' = c2s \/ c2s' = <<>> \/ c2s' = Append(c2s, [k |-> "auth"])
    BY DEF HsRead, SendReturns, SendRaises, RecvFails, RecvEOF, RecvReset, RecvClosed, ClientClose
  <2>3. issued' = issued \/ issued' = <<>>
    BY DEF HsRead, RecvFails, RecvEOF, RecvReset, RecvClosed, ClientClose
  <2>4. QED
    BY <2>1, <2>2, <2>3, AppendType, EmptySeq
<1>5. pc' \in [Callers -> PCs]
  <2>1. pc[c] \in {"hs_read1", "hs_read2", "hs_read3"} => HsNext[pc[c]] \in PCs
    BY DEF HsNext, PCs
  <2>2. QED
    BY <2>1 DEF HsRead, Return, PCs
<1>6. res' \in [Callers -> Results]
  BY DEF HsRead, Return, Results
<1>7. \A d \in Callers : pc'[d] = "send" => pc[d] = "send"
  <2>1. pc[c] \in {"hs_read1", "hs_read2", "hs_read3"} => HsNext[pc[c]] # "send"
    BY DEF HsNext
  <2>2. QED
    BY <2>1 DEF HsRead, Return
<1>8. QED
  BY <1>1, <1>2, <1>3, <1>4, <1>5, <1>6, <1>7, SendKept

------------------------------------------------------------------------

\* What a failed read (recvall's EOF, reset or closed client) does to the socket's state.
LEMMA ReadFailsShape ==
    ASSUME TypeOK, NEW c \in Callers, ReadFails(c)
    PROVE  /\ UNCHANGED <<token, waiting, after, qtok, out, htok, conns, fails>>
           /\ sock' \in {"none", "open"}
           /\ link' \in {"none", "up", "fin", "rst"}
           /\ srv' \in {"none", "hs1", "hs3", "ready"}
           /\ hsDone' \in BOOLEAN
           /\ c2s' = c2s \/ c2s' = <<>>
           /\ s2c' = s2c \/ s2c' = <<>>
           /\ issued' = issued \/ issued' = <<>>
           /\ pc' = [pc EXCEPT ![c] = "idle"]
           /\ res' = [res EXCEPT ![c] = "driver_error"]
BY DEF TypeOK, ReadFails, RecvFails, RecvEOF, RecvReset, RecvClosed, ClientClose, Return

\* A failed read keeps the types: it only closes the socket or the stream.
LEMMA TypeReadFails ==
    ASSUME TypeOK, NEW c \in Callers, ReadFails(c)
    PROVE  TypeOK'
<1> USE DEF TypeOK
<1>1. c2s' \in Seq(ClientMsgs) /\ s2c' \in Seq(ServerMsgs)
      /\ issued' \in Seq(Tokens)
  <2>1. /\ c2s' = c2s \/ c2s' = <<>>
        /\ s2c' = s2c \/ s2c' = <<>>
        /\ issued' = issued \/ issued' = <<>>
    BY ReadFailsShape
  <2>2. QED
    BY <2>1, EmptySeq, Zenon
<1>2. pc' \in [Callers -> PCs] /\ res' \in [Callers -> Results]
  <2>1. pc' = [pc EXCEPT ![c] = "idle"] /\ res' = [res EXCEPT ![c] = "driver_error"]
    BY ReadFailsShape
  <2>2. QED
    BY <2>1 DEF PCs, Results
<1>3. /\ UNCHANGED <<token, waiting, after, qtok, out, htok, conns, fails>>
      /\ sock' \in {"none", "open"}
      /\ link' \in {"none", "up", "fin", "rst"}
      /\ srv' \in {"none", "hs1", "hs3", "ready"}
      /\ hsDone' \in BOOLEAN
  BY ReadFailsShape
<1>4. /\ out' \in [Callers -> QueryMsgs \cup {NoQuery}]
      /\ \A d \in Callers : pc'[d] = "send" => out'[d] \in QueryMsgs
  <2>1. pc' = [pc EXCEPT ![c] = "idle"] /\ out' = out
    BY ReadFailsShape
  <2>2. \A d \in Callers : pc'[d] = "send" => pc[d] = "send"
    BY <2>1
  <2>3. QED
    BY <2>1, <2>2, SendKept
<1>5. QED
  BY <1>1, <1>2, <1>3, <1>4, Zenon

\* read_response's header read.
LEMMA TypeReadHeader ==
    ASSUME TypeOK, NEW c \in Callers, ReadHeader(c)
    PROVE  TypeOK'
<1> USE DEF TypeOK
<1>1. CASE ReadFails(c)
  BY <1>1, TypeReadFails
<1>2. CASE ~ReadFails(c)
  <2>1. /\ s2c # <<>>
        /\ s2c' = Tail(s2c)
        /\ \/ /\ Head(s2c).k = "hdr"
              /\ pc' = [pc EXCEPT ![c] = "body"]
              /\ htok' = [htok EXCEPT ![c] = Head(s2c).tok]
           \/ /\ pc' = [pc EXCEPT ![c] = "garbled"]
              /\ htok' = htok
        /\ UNCHANGED <<sock, link, srv, c2s, token, waiting, after, qtok,
                       out, res, issued, hsDone, conns, fails>>
    BY <1>2 DEF ReadHeader
  <2>2. Head(s2c) \in ServerMsgs /\ Tail(s2c) \in Seq(ServerMsgs)
    BY <2>1, HeadTailType
  <2>3. Head(s2c).k = "hdr" => Head(s2c).tok \in Tokens
    BY <2>2, FrameFields
  <2>4. htok' \in [Callers -> Tokens] /\ pc' \in [Callers -> PCs]
    BY <2>1, <2>3 DEF PCs
  <2>5. \A d \in Callers : pc'[d] = "send" => pc[d] = "send"
    BY <2>1
  <2>6. QED
    BY <2>1, <2>2, <2>4, <2>5, SendKept
<1>3. QED
  BY <1>1, <1>2

\* The misaligned body read that swallows what the server sends.
LEMMA TypeGarbled ==
    ASSUME TypeOK, NEW c \in Callers, Garbled(c)
    PROVE  TypeOK'
<1> USE DEF TypeOK
<1>1. CASE ReadFails(c)
  BY <1>1, TypeReadFails
<1>2. CASE ~ReadFails(c)
  <2>1. s2c # <<>> /\ s2c' = Tail(s2c)
    BY <1>2 DEF Garbled
  <2>2. Tail(s2c) \in Seq(ServerMsgs)
    BY <2>1, HeadTailType
  <2>3. UNCHANGED <<sock, link, srv, c2s, token, waiting, pc, after, qtok,
                    out, htok, res, issued, hsDone, conns, fails>>
    BY <1>2 DEF Garbled
  <2>4. QED
    BY <2>1, <2>2, <2>3
<1>3. QED
  BY <1>1, <1>2

------------------------------------------------------------------------

\* read_response's dispatch of a body through the response table.
LEMMA TypeDispatch ==
    ASSUME TypeOK, NEW c \in Callers, NEW m \in ServerMsgs, s2c # <<>>,
           UNCHANGED <<after, qtok, out, htok, conns, fails>>, Dispatch(c, m)
    PROVE  TypeOK'
<1> USE DEF TypeOK
<1>1. Tail(s2c) \in Seq(ServerMsgs)
  BY HeadTailType
<1>2. CASE /\ htok[c] \notin waiting
           /\ s2c' = Tail(s2c)
           /\ Return(c, "key_error")
           /\ UNCHANGED <<sock, link, srv, c2s, token, waiting, issued, hsDone>>
  <2>1. \A d \in Callers : pc'[d] = "send" => pc[d] = "send"
    BY <1>2 DEF Return
  <2>2. QED
    BY <1>1, <1>2, <2>1, SendKept DEF Return, PCs, Results
<1>3. CASE /\ htok[c] \in waiting
           /\ waiting' = waiting \ {htok[c]}
           /\ FinishClose(c)
           /\ pc' = [pc EXCEPT ![c] = IF after[c] = "reconnect"
                                        THEN "connect" ELSE "idle"]
           /\ res' = [res EXCEPT ![c] = "ok"]
  <2>1. /\ sock' = "none" /\ link' = "none" /\ srv' = "none"
        /\ c2s' = <<>> /\ s2c' = <<>> /\ issued' = <<>>
        /\ hsDone' = FALSE /\ token' = 0
    BY <1>3 DEF FinishClose, ClientClose, ResetToken
  <2>2. c2s' \in Seq(ClientMsgs) /\ s2c' \in Seq(ServerMsgs)
        /\ issued' \in Seq(Tokens)
    BY <2>1, EmptySeq
  <2>3. token' \in Tokens
    BY <2>1, MaxTokenAssumption DEF Tokens
  <2>4. waiting' \subseteq Tokens
    BY <1>3
  <2>5. pc' \in [Callers -> PCs] /\ res' \in [Callers -> Results]
    BY <1>3 DEF PCs, Results
  <2>6. /\ out' \in [Callers -> QueryMsgs \cup {NoQuery}]
        /\ \A d \in Callers : pc'[d] = "send" => out'[d] \in QueryMsgs
    <3>1. \A d \in Callers : pc'[d] = "send" => pc[d] = "send"
      BY <1>3
    <3>2. QED
      BY <3>1, SendKept
  <2>7. QED
    BY <2>1, <2>2, <2>3, <2>4, <2>5, <2>6, Zenon
<1>4. CASE /\ htok[c] \in waiting
           /\ waiting' = waiting \ {htok[c]}
           /\ s2c' = Tail(s2c)
           /\ Return(c, Outcome(m.rt))
           /\ UNCHANGED <<sock, link, srv, c2s, token, issued, hsDone>>
  <2>1. Outcome(m.rt) \in Results
    BY OutcomeType
  <2>2. \A d \in Callers : pc'[d] = "send" => pc[d] = "send"
    BY <1>4 DEF Return
  <2>3. QED
    BY <1>1, <1>4, <2>1, <2>2, SendKept DEF Return, PCs
<1>5. QED
  BY <1>2, <1>3, <1>4 DEF Dispatch

\* read_response's body read.
LEMMA TypeReadBody ==
    ASSUME TypeOK, NEW c \in Callers, ReadBody(c)
    PROVE  TypeOK'
<1> USE DEF TypeOK
<1>1. CASE ReadFails(c)
  BY <1>1, TypeReadFails
<1>2. CASE ~ReadFails(c)
  <2>1. /\ s2c # <<>>
        /\ UNCHANGED <<after, qtok, out, htok, conns, fails>>
        /\ IF Head(s2c).k = "body"
             THEN Dispatch(c, Head(s2c))
             ELSE /\ s2c' = Tail(s2c)
                  /\ pc' = [pc EXCEPT ![c] = "garbled"]
                  /\ UNCHANGED <<sock, link, srv, c2s, token, waiting, res,
                                 issued, hsDone>>
    BY <1>2 DEF ReadBody
  <2>2. Head(s2c) \in ServerMsgs /\ Tail(s2c) \in Seq(ServerMsgs)
    BY <2>1, HeadTailType
  <2>3. CASE Head(s2c).k = "body"
    BY <2>1, <2>2, <2>3, TypeDispatch
  <2>4. CASE Head(s2c).k # "body"
    <3>1. /\ s2c' = Tail(s2c)
          /\ pc' = [pc EXCEPT ![c] = "garbled"]
          /\ UNCHANGED <<sock, link, srv, c2s, token, waiting, res,
                         issued, hsDone>>
      BY <2>1, <2>4
    <3>2. pc' \in [Callers -> PCs]
      BY <3>1 DEF PCs
    <3>3. \A d \in Callers : pc'[d] = "send" => pc[d] = "send"
      BY <3>1
    <3>4. out' \in [Callers -> QueryMsgs \cup {NoQuery}]
          /\ \A d \in Callers : pc'[d] = "send" => out'[d] \in QueryMsgs
      BY <2>1, <3>3, SendKept
    <3>5. QED
      BY <2>1, <2>2, <3>1, <3>2, <3>4, Zenon
  <2>5. QED
    BY <2>3, <2>4
<1>3. QED
  BY <1>1, <1>2

\* The server reads the next client message and answers it.
LEMMA TypeServerStep ==
    ASSUME TypeOK, ServerStep
    PROVE  TypeOK'
<1> USE DEF TypeOK
<1> DEFINE m == Head(c2s)
<1>1. UNCHANGED <<sock, token, waiting, pc, after, qtok, out, htok, res,
                  issued, hsDone, conns, fails>>
  BY DEF ServerStep
<1>2. m \in ClientMsgs /\ c2s' \in Seq(ClientMsgs)
  BY HeadTailType DEF ServerStep
<1>3. link' \in {"none", "up", "fin", "rst"} /\ srv' \in {"none", "hs1", "hs3", "ready"}
  BY DEF ServerStep
<1>4. s2c' \in Seq(ServerMsgs)
  <2>0. CASE s2c' = s2c
    BY <2>0
  <2>1. CASE \E rs \in {<<"ok", "ok">>, <<"ok", "bad_nonce">>, <<"ok", "fail">>,
                        <<"fail">>, <<"bad_version", "fail">>} :
               s2c' = s2c \o HsMsgs(rs)
    <3>1. PICK rs \in {<<"ok", "ok">>, <<"ok", "bad_nonce">>, <<"ok", "fail">>,
                       <<"fail">>, <<"bad_version", "fail">>} :
                s2c' = s2c \o HsMsgs(rs)
      BY <2>1, Zenon
    <3>2. rs \in Seq(HsReplies)
      BY HsChoices, Zenon
    <3>3. HsMsgs(rs) \in Seq(ServerMsgs)
      BY <3>2, HsMsgsType
    <3>4. QED
      BY <3>1, <3>3, ConcatType
  <2>2. CASE \E r \in {"ok", "bad_sig", "fail"} :
               s2c' = Append(s2c, [k |-> "hs", r |-> r])
    <3>1. PICK r \in {"ok", "bad_sig", "fail"} :
                s2c' = Append(s2c, [k |-> "hs", r |-> r])
      BY <2>2
    <3>2. [k |-> "hs", r |-> r] \in ServerMsgs
      BY DEF ServerMsgs, HsReplies
    <3>3. QED
      BY <3>1, <3>2, AppendType
  <2>3. CASE s2c' = Append(s2c, [k |-> "hs", r |-> "fail"])
    <3>1. [k |-> "hs", r |-> "fail"] \in ServerMsgs
      BY DEF ServerMsgs, HsReplies
    <3>2. QED
      BY <2>3, <3>1, AppendType
  <2>4. CASE /\ m.k = "query"
             /\ \E rt \in Replies(m.qt) :
                  s2c' = s2c \o <<[k |-> "hdr", tok |-> m.tok],
                                  [k |-> "body", rt |-> rt]>>
    <3>1. m.tok \in Tokens /\ m.qt \in QueryTypes
      BY <1>2, <2>4, QueryFields
    <3>2. PICK rt \in Replies(m.qt) :
                s2c' = s2c \o <<[k |-> "hdr", tok |-> m.tok],
                                [k |-> "body", rt |-> rt]>>
      BY <2>4, Zenon
    <3>3. rt \in ResponseTypes
      BY <3>1, RepliesType
    <3>4. <<[k |-> "hdr", tok |-> m.tok], [k |-> "body", rt |-> rt]>>
            \in Seq(ServerMsgs)
      BY <3>1, <3>3 DEF ServerMsgs
    <3>5. QED
      BY <3>2, <3>4, ConcatType
  <2>5. QED
    <3>1. \/ \E rs \in {<<"ok", "ok">>, <<"ok", "bad_nonce">>, <<"ok", "fail">>,
                        <<"fail">>, <<"bad_version", "fail">>} :
               s2c' = s2c \o HsMsgs(rs)
          \/ \E r \in {"ok", "bad_sig", "fail"} :
               s2c' = Append(s2c, [k |-> "hs", r |-> r])
          \/ s2c' = Append(s2c, [k |-> "hs", r |-> "fail"])
          \/ /\ m.k = "query"
             /\ \E rt \in Replies(m.qt) :
                  s2c' = s2c \o <<[k |-> "hdr", tok |-> m.tok],
                                  [k |-> "body", rt |-> rt]>>
          \/ s2c' = s2c
      BY Zenon DEF ServerStep
    <3>2. QED
      BY <2>1, <2>2, <2>3, <2>4, <2>0, <3>1, Zenon
<1>5. QED
  BY <1>1, <1>2, <1>3, <1>4

\* The stream fails.
LEMMA TypeNetFail ==
    ASSUME TypeOK, NetFail
    PROVE  TypeOK'
<1> USE DEF TypeOK
<1>1. UNCHANGED <<sock, srv, token, waiting, pc, after, qtok, out, htok,
                  res, issued, hsDone, conns>>
  BY DEF NetFail
<1>2. link' \in {"none", "up", "fin", "rst"} /\ fails' \in 0..MaxFailures
  BY MaxFailuresAssumption DEF NetFail
<1>3. c2s' = <<>> /\ (s2c' = s2c \/ s2c' = <<>>)
  BY DEF NetFail
<1>4. QED
  BY <1>1, <1>2, <1>3, EmptySeq, Zenon

------------------------------------------------------------------------

\* Every step of the driver keeps the types.
LEMMA TypeNext == TypeOK /\ [Next]_vars => TypeOK'
<1> SUFFICES ASSUME TypeOK, [Next]_vars PROVE TypeOK'
  OBVIOUS
<1>1. ASSUME NEW c \in Callers, Invoke(c) PROVE TypeOK'
  <2>1. \/ \E qt \in QueryTypes, nr \in BOOLEAN : Query(c, qt, nr)
        \/ \E nrw \in BOOLEAN, cont \in {"return", "reconnect"} :
             CloseOp(c, nrw, cont)
    BY <1>1, Zenon DEF Invoke, Start, NoreplyWait, ServerInfo, Close, Reconnect,
                QueryTypes
  <2>2. QED
    BY <2>1, TypeQuery, TypeCloseOp
<1>2. ASSUME NEW c \in Callers, Proceed(c) PROVE TypeOK'
  BY <1>2, TypeSend, TypeConnect, TypeHsRead, TypeReadHeader, TypeReadBody,
     TypeGarbled
  DEF Proceed
<1>3. CASE ServerStep
  BY <1>3, TypeServerStep
<1>4. CASE NetFail
  BY <1>4, TypeNetFail
<1>5. CASE UNCHANGED vars
  BY <1>5 DEF vars, TypeOK
<1>6. QED
  BY <1>1, <1>2, <1>3, <1>4, <1>5 DEF Next

\* Type correctness: every reachable state of the driver is well typed.
THEOREM TypeCorrect == Spec => []TypeOK
<1>1. Init => TypeOK
  BY TypeInit
<1>2. TypeOK /\ [Next]_vars => TypeOK'
  BY TypeNext
<1>3. QED
  BY <1>1, <1>2, PTL DEF Spec

-----------------------------------------------------------------------------
(* Token uniqueness for one caller thread.  TokensUniqueOnSocket is not    *)
(* inductive by itself: a send keeps issued injective only because the     *)
(* token it writes was drawn after every token already written, and a draw *)
(* keeps that so because every token written is below the counter.        *)

\* One caller thread uses the connection.
OneCaller == \A c, d \in Callers : c = d

\* Every token written on the socket is below the counter.
TokenInv == \A i \in DOMAIN issued : issued[i] < token

\* A token drawn and not yet sent is below the counter and above every
\* token written on the socket.
DrawnInv ==
    \A c \in Callers : pc[c] = "send" =>
        /\ out[c].tok < token
        /\ \A i \in DOMAIN issued : issued[i] < out[c].tok

IInv == TypeOK /\ TokensUniqueOnSocket /\ TokenInv /\ DrawnInv

\* The four ways a step changes the tokens: not at all, with no new send
\* pending; TokenGenerator.new for the query a caller builds; the sendall of
\* that query; a new or closed socket, with no send pending.
QuietStep ==
    /\ UNCHANGED <<issued, token>>
    /\ \A d \in Callers : pc'[d] = "send" => pc[d] = "send" /\ out'[d] = out[d]

DrawStep ==
    /\ issued' = issued
    /\ token' = token + 1
    /\ \A d \in Callers : pc'[d] = "send" => out'[d].tok = token

SendStep ==
    \E c \in Callers :
        /\ pc[c] = "send"
        /\ token' = token
        /\ issued' = issued \/ issued' = Append(issued, out[c].tok)
        /\ \A d \in Callers : pc'[d] # "send"

ResetStep ==
    /\ issued' = <<>>
    /\ \A d \in Callers : pc'[d] # "send"

LEMMA QuietKeeps ==
    ASSUME TokensUniqueOnSocket, TokenInv, DrawnInv, QuietStep
    PROVE  TokensUniqueOnSocket' /\ TokenInv' /\ DrawnInv'
BY DEF QuietStep, TokensUniqueOnSocket, TokenInv, DrawnInv

LEMMA DrawKeeps ==
    ASSUME TypeOK, TokensUniqueOnSocket, TokenInv, DrawnInv, DrawStep
    PROVE  TokensUniqueOnSocket' /\ TokenInv' /\ DrawnInv'
<1>1. token \in Nat /\ issued \in Seq(Nat)
  BY MaxTokenAssumption DEF TypeOK, Tokens
<1>2. TokensUniqueOnSocket'
  BY DEF DrawStep, TokensUniqueOnSocket
<1>3. TokenInv'
  BY <1>1 DEF DrawStep, TokenInv
<1>4. DrawnInv'
  BY <1>1 DEF DrawStep, TokenInv, DrawnInv
<1>5. QED
  BY <1>2, <1>3, <1>4

------------------------------------------------------------------------

LEMMA SendKeeps ==
    ASSUME TypeOK, TokensUniqueOnSocket, TokenInv, DrawnInv, SendStep
    PROVE  TokensUniqueOnSocket' /\ TokenInv' /\ DrawnInv'
<1>1. PICK c \in Callers :
          /\ pc[c] = "send"
          /\ token' = token
          /\ issued' = issued \/ issued' = Append(issued, out[c].tok)
          /\ \A d \in Callers : pc'[d] # "send"
  BY DEF SendStep
<1>2. DrawnInv'
  BY <1>1 DEF DrawnInv
<1> DEFINE t == out[c].tok
<1>3. /\ t \in Nat /\ token \in Nat /\ issued \in Seq(Nat)
      /\ t < token /\ \A i \in DOMAIN issued : issued[i] < t
  <2>1. out[c] \in QueryMsgs
    BY <1>1 DEF TypeOK
  <2>2. QED
    BY <1>1, <2>1, QueryMsgsFields, MaxTokenAssumption DEF TypeOK, Tokens, DrawnInv
<1>4. CASE issued' = issued
  BY <1>1, <1>2, <1>4 DEF TokensUniqueOnSocket, TokenInv, IsInjective
<1>5. CASE issued' = Append(issued, t)
  <2>1. DOMAIN issued' = 1..(Len(issued) + 1)
    BY <1>3, <1>5
  <2>2. \A i \in 1..Len(issued) : issued'[i] = issued[i] /\ issued[i] < t
    BY <1>3, <1>5
  <2>3. issued'[Len(issued) + 1] = t
    BY <1>3, <1>5
  <2>4. TokenInv'
    BY <1>1, <1>3, <2>1, <2>2, <2>3 DEF TokenInv
  <2>5. TokensUniqueOnSocket'
    <3>1. \A i, j \in 1..Len(issued) : issued[i] = issued[j] => i = j
      BY <1>3 DEF TokensUniqueOnSocket, IsInjective
    <3>2. QED
      BY <1>3, <2>1, <2>2, <2>3, <3>1 DEF TokensUniqueOnSocket, IsInjective
  <2>6. QED
    BY <1>2, <2>4, <2>5
<1>6. QED
  BY <1>1, <1>2, <1>4, <1>5

LEMMA ResetKeeps ==
    ASSUME ResetStep
    PROVE  TokensUniqueOnSocket' /\ TokenInv' /\ DrawnInv'
BY DEF ResetStep, TokensUniqueOnSocket, TokenInv, DrawnInv, IsInjective

------------------------------------------------------------------------

\* With one caller, a step of that caller that does not end at the send
\* leaves no send pending.
LEMMA NoSendLeft ==
    ASSUME OneCaller, NEW c \in Callers, pc'[c] # "send"
    PROVE  \A d \in Callers : pc'[d] # "send"
BY DEF OneCaller

\* A caller that builds a query draws a token; with one caller no other
\* send is pending.
LEMMA DrawShape ==
    ASSUME TypeOK, OneCaller, NEW c \in Callers, NEW q, NEW cont,
           q.tok = token, token' = token + 1, issued' = issued, Draw(c, q, cont)
    PROVE  DrawStep
BY DEF TypeOK, OneCaller, Draw, DrawStep

\* A step of a caller that is not at the send and does not reach it, with
\* out untouched: quiet or a reset.
LEMMA CallerShape ==
    ASSUME OneCaller, NEW c \in Callers, pc[c] # "send", pc'[c] # "send",
           out' = out, UNCHANGED <<issued, token>> \/ issued' = <<>>
    PROVE  QuietStep \/ ResetStep
BY NoSendLeft DEF QuietStep, ResetStep

------------------------------------------------------------------------

\* Every step of the driver with one caller has one of the four shapes.
LEMMA NextTokenShape ==
    ASSUME TypeOK, OneCaller, [Next]_vars
    PROVE  QuietStep \/ DrawStep \/ SendStep \/ ResetStep
<1>0. pc \in [Callers -> PCs]
  BY DEF TypeOK
<1>1. ASSUME NEW c \in Callers, NEW qt \in QueryTypes, NEW nr \in BOOLEAN,
             Query(c, qt, nr)
      PROVE  QuietStep \/ DrawStep \/ SendStep \/ ResetStep
  <2>1. CASE sock = "none"
    <3>1. pc[c] # "send" /\ pc'[c] # "send" /\ out' = out /\ UNCHANGED <<issued, token>>
      BY <1>0, <1>1, <2>1 DEF Query, Return
    <3>2. QED
      BY <3>1, CallerShape
  <2>2. CASE sock = "open"
    <3>1. /\ token' = token + 1 /\ issued' = issued
          /\ Draw(c, [k |-> "query", qt |-> qt, tok |-> token, noreply |-> nr], "return")
      BY <1>1, <2>2 DEF Query, NewToken
    <3>2. QED
      BY <3>1, DrawShape
  <2>3. QED
    BY <2>1, <2>2 DEF TypeOK
<1>2. ASSUME NEW c \in Callers, NEW nrw \in BOOLEAN,
             NEW cont \in {"return", "reconnect"}, CloseOp(c, nrw, cont)
      PROVE  QuietStep \/ DrawStep \/ SendStep \/ ResetStep
  <2>1. CASE sock = "open" /\ nrw
    <3>1. /\ token' = token + 1 /\ issued' = issued
          /\ Draw(c, [k |-> "query", qt |-> "NOREPLY_WAIT", tok |-> token,
                      noreply |-> FALSE],
                  IF cont = "reconnect" THEN "reconnect" ELSE "close")
      BY <1>2, <2>1 DEF CloseOp, NewToken
    <3>2. QED
      BY <3>1, DrawShape
  <2>2. CASE ~(sock = "open" /\ nrw)
    <3>1. /\ pc[c] # "send" /\ pc'[c] # "send" /\ out' = out
          /\ UNCHANGED <<issued, token>> \/ issued' = <<>>
      BY <1>0, <1>2, <2>2 DEF CloseOp, FinishClose, ClientClose
    <3>2. QED
      BY <3>1, CallerShape
  <2>3. QED
    BY <2>1, <2>2
<1>3. ASSUME NEW c \in Callers, Send(c)
      PROVE  SendStep
  <2>1. /\ pc[c] = "send" /\ token' = token
        /\ issued' = issued \/ issued' = Append(issued, out[c].tok)
        /\ pc'[c] # "send"
    BY <1>0, <1>3 DEF Send, RunQuery, Return
  <2>2. QED
    BY <2>1, NoSendLeft DEF SendStep
<1>4. ASSUME NEW c \in Callers, ReadFails(c)
      PROVE  /\ pc'[c] # "send" /\ out' = out
             /\ UNCHANGED <<issued, token>> \/ issued' = <<>>
  BY <1>0, <1>4, ReadFailsShape
<1>5. ASSUME NEW c \in Callers, Proceed(c), ~Send(c)
      PROVE  QuietStep \/ ResetStep
  <2> DEFINE Quiet == /\ pc[c] # "send" /\ pc'[c] # "send" /\ out' = out
                      /\ UNCHANGED <<issued, token>> \/ issued' = <<>>
  <2>1. ASSUME Connect(c) PROVE Quiet
    BY <1>0, <2>1 DEF Connect, Return
  <2>2. ASSUME HsRead(c) PROVE Quiet
    <3>1. pc[c] \in {"hs_read1", "hs_read2", "hs_read3"} => HsNext[pc[c]] # "send"
      BY DEF HsNext
    <3>2. QED
      BY <1>0, <2>2, <3>1 DEF HsRead, Return, RecvFails, RecvEOF, RecvReset,
         RecvClosed, ClientClose
  <2>3. ASSUME ReadHeader(c) PROVE Quiet
    BY <1>0, <1>4, <2>3 DEF ReadHeader
  <2>4. ASSUME Garbled(c) PROVE Quiet
    BY <1>0, <1>4, <2>4 DEF Garbled
  <2>5. ASSUME ReadBody(c) PROVE Quiet
    BY <1>0, <1>4, <2>5 DEF ReadBody, Dispatch, FinishClose, ClientClose, Return
  <2>6. Quiet
    BY <1>5, <2>1, <2>2, <2>3, <2>4, <2>5 DEF Proceed
  <2>7. QED
    BY <2>6, CallerShape
<1>6. CASE ServerStep \/ NetFail \/ UNCHANGED vars
  BY <1>6 DEF ServerStep, NetFail, vars, QuietStep
<1>7. QED
  <2>1. ASSUME NEW c \in Callers, Invoke(c)
        PROVE  QuietStep \/ DrawStep \/ SendStep \/ ResetStep
    BY <2>1, <1>1, <1>2, Zenon
    DEF Invoke, Start, NoreplyWait, ServerInfo, Close, Reconnect, QueryTypes
  <2>2. ASSUME NEW c \in Callers, Proceed(c)
        PROVE  QuietStep \/ DrawStep \/ SendStep \/ ResetStep
    BY <2>2, <1>3, <1>5
  <2>3. QED
    BY <2>1, <2>2, <1>6 DEF Next

\* Token uniqueness (TokenGenerator.new, reset by Connection.close only
\* after the transport is closed): with one caller thread, no token is
\* written twice on one socket, whatever fails in between (a NOREPLY_WAIT
\* that raises, an EOF that closes the socket early).
THEOREM TokensUnique ==
    ASSUME OneCaller
    PROVE  Spec => []TokensUniqueOnSocket
<1>1. Init => IInv
  BY TypeInit DEF Init, IInv, TokensUniqueOnSocket, TokenInv, DrawnInv, IsInjective
<1>2. IInv /\ [Next]_vars => IInv'
  <2> SUFFICES ASSUME IInv, [Next]_vars PROVE IInv'
    OBVIOUS
  <2>1. TypeOK'
    BY TypeNext DEF IInv
  <2>2. QuietStep \/ DrawStep \/ SendStep \/ ResetStep
    BY NextTokenShape DEF IInv
  <2>3. TokensUniqueOnSocket' /\ TokenInv' /\ DrawnInv'
    BY <2>2, QuietKeeps, DrawKeeps, SendKeeps, ResetKeeps DEF IInv
  <2>4. QED
    BY <2>1, <2>3 DEF IInv
<1>3. IInv => TokensUniqueOnSocket
  BY DEF IInv
<1>4. QED
  BY <1>1, <1>2, <1>3, PTL DEF Spec

=============================================================================
