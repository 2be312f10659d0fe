----------------------------- MODULE DriverConn -----------------------------
(***************************************************************************)
(* The blocking driver connection, as the repository wires it up in       *)
(* connections.new_connection: a Connection (core/net/connection.py) over  *)
(* a DefaultTransport (net/default_net/transport.py), a DefaultClient      *)
(* socket wrapper (net/default_net/_client.py), the RdbProtocol framing    *)
(* and response table (core/net/protocol.py) and the HandshakeV1_0        *)
(* generator (core/net/handshake.py).  The server and the TCP stream are   *)
(* the environment.                                                        *)
(*                                                                         *)
(* Each caller thread runs one Connection operation at a time; the steps   *)
(* of an operation are the points where the thread blocks on the socket    *)
(* (a send, a header read, a body read, a handshake read).  The stream is  *)
(* a sequence of messages in each direction; a frame sent by the server is *)
(* two elements, its 12-byte header and its body, because read_response    *)
(* reads them with two separate recvall calls.                             *)
(***************************************************************************)
EXTENDS Naturals, Sequences, Functions

CONSTANTS
    Callers,       \* application threads that share the connection
    MaxToken,      \* bound on the tokens one TokenGenerator hands out
    MaxConnects,   \* bound on DefaultClient.connect calls
    MaxFailures,   \* bound on connection failures injected by the network
    StartReplies   \* response types the server may answer a START with

ResponseTypes == {"atom", "partial", "sequence", "wait_complete",
                  "server_info", "runtime_error"}

ASSUME CallersAssumption == Callers # {}
ASSUME MaxTokenAssumption == MaxToken \in Nat
ASSUME MaxConnectsAssumption == MaxConnects \in Nat
ASSUME MaxFailuresAssumption == MaxFailures \in Nat
ASSUME StartRepliesAssumption ==
    StartReplies \subseteq (ResponseTypes \ {"wait_complete", "server_info"})

Tokens == 0..MaxToken

QueryTypes == {"START", "NOREPLY_WAIT", "SERVER_INFO"}

\* Messages the client writes: the two handshake messages and query frames.
QueryMsgs == [k : {"query"}, qt : QueryTypes, tok : Tokens, noreply : BOOLEAN]

ClientMsgs == [k : {"init", "auth"}] \cup QueryMsgs

\* What out holds while a caller has no query built and unsent.
NoQuery == [k |-> "none"]

\* What a handshake reply of the server says, as the client classifies it.
HsReplies == {"ok", "fail", "bad_version", "bad_nonce", "bad_sig"}

\* Messages the server writes: null-terminated handshake JSON, and the
\* header and the body of a response frame.
ServerMsgs ==
    [k : {"hs"}, r : HsReplies] \cup
    [k : {"hdr"}, tok : Tokens] \cup
    [k : {"body"}, rt : ResponseTypes]

\* The outcome of a Connection operation: its return or the exception raised.
Results == {"none", "ok", "driver_error", "timeout", "key_error",
            "attr_error", "reql_error", "decode_error"}

PCs == {"idle", "send", "connect", "hs_read1", "hs_read2", "hs_read3",
        "hdr", "body", "garbled"}

VARIABLES
    sock,     \* DefaultClient.__socket: "none" or "open"
    link,     \* the TCP stream under the socket: "none", "up", "fin", "rst"
    srv,      \* the server's session: "none", "hs1", "hs3", "ready"
    c2s,      \* bytes written by the client not yet read by the server
    s2c,      \* bytes written by the server not yet read by the client
    token,    \* TokenGenerator: the next token new() returns
    waiting,  \* RdbProtocol._waiting_respose: tokens awaiting a response
    pc,       \* where each caller thread is blocked
    after,    \* what the caller does once its query returns: "return",
              \* "close" (the NOREPLY_WAIT of close) or "reconnect"
    qtok,     \* token of the query the caller is running (run_query's query)
    out,      \* the query the caller built and has not yet passed to sendall
    htok,     \* token unpacked from the header it read (read_response)
    res,      \* outcome of the caller's last operation
    issued,   \* tokens of the queries written on the current socket
    hsDone,   \* the handshake on the current socket completed successfully
    conns,    \* DefaultClient.connect calls that opened a socket
    fails     \* network failures so far

vars == <<sock, link, srv, c2s, s2c, token, waiting, pc, after, qtok, out,
          htok, res, issued, hsDone, conns, fails>>

-----------------------------------------------------------------------------
(* TokenGenerator (core/net/token.py is not part of the sources; modelled  *)
(* from the spec: new() returns a fresh value, reset() restarts the        *)
(* sequence).  The ghost issued records the tokens sendall wrote on the    *)
(* current socket (RunQuery).                                              *)

\* Mutant: the exhaustion guard off by one.
NewToken_offByOne ==
    /\ token <= MaxToken
    /\ token' = token + 1

NewToken ==
    /\ token < MaxToken
    /\ token' = token + 1

ResetToken == token' = 0

-----------------------------------------------------------------------------
(* DefaultClient: the socket wrapper.                                      *)

\* close(): shutdown and close (errors are only logged), forget the socket.
\* The server sees the stream end and drops the session.
ClientClose ==
    /\ sock' = "none"
    /\ link' = "none"
    /\ srv' = "none"
    /\ c2s' = <<>>
    /\ s2c' = <<>>
    /\ issued' = <<>>
    /\ hsDone' = FALSE

\* sendall() returns: on a live stream the bytes reach the server; on a
\* stream the peer has closed the first send may still be accepted and lost.
SendReturns(m) ==
    /\ link \in {"up", "fin"}
    /\ c2s' = IF link = "up" THEN Append(c2s, m) ELSE c2s

\* sendall() raises ReqlDriverError (EPIPE, ECONNRESET); the socket is kept.
\* On a client another thread has closed, self.sock raises RuntimeError,
\* which except_send_err turns into ReqlDriverError.
SendRaises ==
    /\ link \in {"fin", "rst"} \/ sock = "none"
    /\ UNCHANGED c2s

\* recvall() finds the stream at its end: it closes the socket and raises
\* "Connection is closed.".
RecvEOF ==
    /\ s2c = <<>>
    /\ link = "fin"
    /\ ClientClose

\* recvall() gets ECONNRESET: it raises, and the socket is not closed.
RecvReset ==
    /\ link = "rst"
    /\ UNCHANGED <<sock, link, srv, c2s, s2c, issued, hsDone>>

\* recvall() on a client another thread has closed: a recv blocked on the
\* old socket is woken by its shutdown with 0 bytes (close() is then a
\* no-op), and a later one finds self.sock raising RuntimeError, which
\* except_recv_err turns into ReqlDriverError.
RecvClosed ==
    /\ sock = "none"
    /\ UNCHANGED <<sock, link, srv, c2s, s2c, issued, hsDone>>

\* The ways a recvall() raises ReqlDriverError.
RecvFails == RecvEOF \/ RecvReset \/ RecvClosed

-----------------------------------------------------------------------------
(* Helpers for the caller threads.                                         *)

Return(c, r) ==
    /\ pc' = [pc EXCEPT ![c] = "idle"]
    /\ res' = [res EXCEPT ![c] = r]

\* A failed socket read ends the operation with ReqlDriverError.
ReadFails(c) ==
    /\ RecvFails
    /\ Return(c, "driver_error")
    /\ UNCHANGED <<token, waiting, after, qtok, out, htok, conns, fails>>

\* The classification of a response body by read_response: a stream makes
\* a Cursor whose print() reads the never-assigned Cursor.error and raises
\* AttributeError; get_data returns the value of an atom, a wait-complete or
\* a server-info response and raises the ReqlError of an error response.
Outcome(rt) ==
    CASE rt \in {"atom", "wait_complete", "server_info"} -> "ok"
      [] rt \in {"partial", "sequence"}                  -> "attr_error"
      [] OTHER                                           -> "reql_error"

-----------------------------------------------------------------------------
(* RdbProtocol and DefaultTransport.run_query.                             *)

\* build_query: a query that expects a reply is entered in the table.
BuildQuery(q) ==
    waiting' = IF q.noreply THEN waiting ELSE waiting \cup {q.tok}

\* build_query, with the query a caller drew its token for: the table entry,
\* then the print; the caller goes on to sendall.  Another thread may run
\* between this step and the send.
Draw(c, q, cont) ==
    /\ BuildQuery(q)
    /\ pc' = [pc EXCEPT ![c] = "send"]
    /\ out' = [out EXCEPT ![c] = q]
    /\ qtok' = [qtok EXCEPT ![c] = q.tok]
    /\ after' = [after EXCEPT ![c] = cont]

\* Mutant: run_query reads a response even for a noreply query.
RunQuery_alwaysReads(c, q) ==
    \/ /\ SendReturns(q)
       /\ issued' = Append(issued, q.tok)
       /\ pc' = [pc EXCEPT ![c] = "hdr"]
       /\ UNCHANGED res
    \/ /\ SendRaises
       /\ Return(c, "driver_error")
       /\ UNCHANGED issued

\* Mutant: run_query tests the noreply option the wrong way round: a query
\* that expects a reply returns at once, and a noreply one waits.
RunQuery_noreplyInverted(c, q) ==
    \/ /\ SendReturns(q)
       /\ issued' = Append(issued, q.tok)
       /\ IF ~q.noreply
            THEN Return(c, "ok")
            ELSE pc' = [pc EXCEPT ![c] = "hdr"] /\ UNCHANGED res
    \/ /\ SendRaises
       /\ Return(c, "driver_error")
       /\ UNCHANGED issued

\* run_query from sendall on: a noreply query returns at once, any other
\* blocks reading the response.
RunQuery(c, q) ==
    \/ /\ SendReturns(q)
       /\ issued' = Append(issued, q.tok)
       /\ IF q.noreply
            THEN Return(c, "ok")
            ELSE pc' = [pc EXCEPT ![c] = "hdr"] /\ UNCHANGED res
    \/ /\ SendRaises
       /\ Return(c, "driver_error")
       /\ UNCHANGED issued

\* The sendall of the query the caller built, and what run_query does next.
Send(c) ==
    /\ pc[c] = "send"
    /\ RunQuery(c, out[c])
    /\ out' = [out EXCEPT ![c] = NoQuery]
    /\ UNCHANGED <<sock, link, srv, s2c, token, waiting, after, qtok, htok,
                   hsDone, conns, fails>>

\* read_response, first recvall: the 12-byte header.  Bytes that are not a
\* frame header unpack to a token and a length that are garbage; the length
\* of JSON text is about 10^9, so the body read that follows never ends
\* before the stream does.
ReadHeader(c) ==
    /\ pc[c] = "hdr"
    /\ \/ /\ s2c # <<>>
          /\ link # "rst"
          /\ s2c' = Tail(s2c)
          /\ IF Head(s2c).k = "hdr"
               THEN /\ pc' = [pc EXCEPT ![c] = "body"]
                    /\ htok' = [htok EXCEPT ![c] = Head(s2c).tok]
               ELSE /\ pc' = [pc EXCEPT ![c] = "garbled"]
                    /\ UNCHANGED htok
          /\ UNCHANGED <<sock, link, srv, c2s, token, waiting, after, qtok,
                         out, res, issued, hsDone, conns, fails>>
       \/ ReadFails(c)

\* Mutant: the misaligned read gives up on a deadline and raises, leaving
\* the rest of the stream for the next read.
Garbled_deadline(c) ==
    /\ pc[c] = "garbled"
    /\ \/ /\ s2c # <<>>
          /\ link # "rst"
          /\ s2c' = Tail(s2c)
          /\ UNCHANGED <<sock, link, srv, c2s, token, waiting, pc, after,
                         qtok, out, htok, res, issued, hsDone, conns, fails>>
       \/ /\ Return(c, "timeout")
          /\ UNCHANGED <<sock, link, srv, c2s, s2c, token, waiting, after,
                         qtok, out, htok, issued, hsDone, conns, fails>>
       \/ ReadFails(c)

\* A thread whose header was garbage: recvall(length) swallows everything
\* the server sends until the stream fails.
Garbled(c) ==
    /\ pc[c] = "garbled"
    /\ \/ /\ s2c # <<>>
          /\ link # "rst"
          /\ s2c' = Tail(s2c)
          /\ UNCHANGED <<sock, link, srv, c2s, token, waiting, pc, after,
                         qtok, out, htok, res, issued, hsDone, conns, fails>>
       \/ ReadFails(c)

\* Connection.close after its NOREPLY_WAIT returned: the transport closes
\* the client, then the token generator is reset.
FinishClose(c) ==
    /\ ClientClose
    /\ ResetToken

\* The dispatch of read_response once the body m is read: pop the token from
\* the table (KeyError when it is not there) and classify the response.
\* When the query was the NOREPLY_WAIT of a close, the close goes on.
Dispatch(c, m) ==
    \/ /\ htok[c] \notin waiting
       /\ s2c' = Tail(s2c)
       /\ Return(c, "key_error")
       /\ UNCHANGED <<sock, link, srv, c2s, token, waiting, issued, hsDone>>
    \/ /\ htok[c] \in waiting
       /\ waiting' = waiting \ {htok[c]}
       /\ Outcome(m.rt) = "ok"
       /\ after[c] # "return"
       /\ FinishClose(c)
       /\ pc' = [pc EXCEPT ![c] = IF after[c] = "reconnect"
                                    THEN "connect" ELSE "idle"]
       /\ res' = [res EXCEPT ![c] = "ok"]
    \/ /\ htok[c] \in waiting
       /\ waiting' = waiting \ {htok[c]}
       /\ Outcome(m.rt) # "ok" \/ after[c] = "return"
       /\ s2c' = Tail(s2c)
       /\ Return(c, Outcome(m.rt))
       /\ UNCHANGED <<sock, link, srv, c2s, token, issued, hsDone>>

\* read_response, second recvall: the body, whose bytes are misaligned when
\* what comes next is not a body.
ReadBody(c) ==
    /\ pc[c] = "body"
    /\ \/ /\ s2c # <<>>
          /\ link # "rst"
          /\ UNCHANGED <<after, qtok, out, htok, conns, fails>>
          /\ IF Head(s2c).k = "body"
               THEN Dispatch(c, Head(s2c))
               ELSE /\ s2c' = Tail(s2c)
                    /\ pc' = [pc EXCEPT ![c] = "garbled"]
                    /\ UNCHANGED <<sock, link, srv, c2s, token, waiting, res,
                                   issued, hsDone>>
       \/ ReadFails(c)

-----------------------------------------------------------------------------
(* Connection: the operations a caller invokes.                            *)

\* start / noreply_wait / server: __check_open, a new token, and run_query
\* up to its sendall (Send).  On a closed connection __check_open raises
\* ReqlDriverError.
Query(c, qt, noreply) ==
    /\ pc[c] = "idle"
    /\ \/ /\ sock = "open"
          /\ NewToken
          /\ Draw(c, [k |-> "query", qt |-> qt, tok |-> token,
                      noreply |-> noreply], "return")
          /\ UNCHANGED <<sock, link, srv, c2s, s2c, htok, res, issued, hsDone,
                         conns, fails>>
       \/ /\ sock = "none"
          /\ Return(c, "driver_error")
          /\ UNCHANGED <<sock, link, srv, c2s, s2c, token, waiting, after,
                         qtok, out, htok, issued, hsDone, conns, fails>>

Start(c) == \E noreply \in BOOLEAN : Query(c, "START", noreply)

NoreplyWait(c) == Query(c, "NOREPLY_WAIT", FALSE)

ServerInfo(c) == Query(c, "SERVER_INFO", FALSE)

\* Mutant: close resets the token generator before the transport close,
\* so a NOREPLY_WAIT that raises leaves the socket open with a reset counter.
CloseOp_resetFirst(c, noreplyWait, cont) ==
    /\ pc[c] = "idle"
    /\ \/ /\ sock = "none"
          /\ pc' = [pc EXCEPT ![c] = IF cont = "reconnect"
                                       THEN "connect" ELSE "idle"]
          /\ res' = [res EXCEPT ![c] = "ok"]
          /\ UNCHANGED <<sock, link, srv, c2s, s2c, token, waiting, after,
                         qtok, out, htok, issued, hsDone, conns, fails>>
       \/ /\ sock = "open"
          /\ noreplyWait
          /\ token < MaxToken
          /\ token' = 0
          /\ Draw(c, [k |-> "query", qt |-> "NOREPLY_WAIT", tok |-> token,
                      noreply |-> FALSE],
                  IF cont = "reconnect" THEN "reconnect" ELSE "close")
          /\ UNCHANGED <<sock, link, srv, c2s, s2c, htok, res, issued, hsDone,
                         conns, fails>>
       \/ /\ sock = "open"
          /\ ~noreplyWait
          /\ FinishClose(c)
          /\ pc' = [pc EXCEPT ![c] = IF cont = "reconnect"
                                       THEN "connect" ELSE "idle"]
          /\ res' = [res EXCEPT ![c] = "ok"]
          /\ UNCHANGED <<waiting, after, qtok, out, htok, conns, fails>>

\* close(noreply_wait), also the first half of reconnect (cont "reconnect"):
\* nothing when the socket is already gone; otherwise a NOREPLY_WAIT query
\* whose response completes the close (ReadBody), or straight to closing
\* the client and resetting the token generator.
CloseOp(c, noreplyWait, cont) ==
    /\ pc[c] = "idle"
    /\ \/ /\ sock = "none"
          /\ pc' = [pc EXCEPT ![c] = IF cont = "reconnect"
                                       THEN "connect" ELSE "idle"]
          /\ res' = [res EXCEPT ![c] = "ok"]
          /\ UNCHANGED <<sock, link, srv, c2s, s2c, token, waiting, after,
                         qtok, out, htok, issued, hsDone, conns, fails>>
       \/ /\ sock = "open"
          /\ noreplyWait
          /\ NewToken
          /\ Draw(c, [k |-> "query", qt |-> "NOREPLY_WAIT", tok |-> token,
                      noreply |-> FALSE],
                  IF cont = "reconnect" THEN "reconnect" ELSE "close")
          /\ UNCHANGED <<sock, link, srv, c2s, s2c, htok, res, issued, hsDone,
                         conns, fails>>
       \/ /\ sock = "open"
          /\ ~noreplyWait
          /\ FinishClose(c)
          /\ pc' = [pc EXCEPT ![c] = IF cont = "reconnect"
                                       THEN "connect" ELSE "idle"]
          /\ res' = [res EXCEPT ![c] = "ok"]
          /\ UNCHANGED <<waiting, after, qtok, out, htok, conns, fails>>

Close(c) == \E nrw \in BOOLEAN : CloseOp(c, nrw, "return")

Reconnect(c) == \E nrw \in BOOLEAN : CloseOp(c, nrw, "reconnect")

-----------------------------------------------------------------------------
(* DefaultTransport.connect: open the socket, then drive the handshake     *)
(* generator: send the initial message, read two replies, send the         *)
(* authentication request, read the last reply.                            *)

\* DefaultClient.connect: a new socket (or ReqlDriverError when the server
\* cannot be reached), then the generator's first message is sent.
Connect(c) ==
    /\ pc[c] = "connect"
    /\ \/ /\ conns < MaxConnects
          /\ conns' = conns + 1
          /\ sock' = "open"
          /\ link' = "up"
          /\ srv' = "hs1"
          /\ c2s' = <<[k |-> "init"]>>
          /\ s2c' = <<>>
          /\ issued' = <<>>
          /\ hsDone' = FALSE
          /\ pc' = [pc EXCEPT ![c] = "hs_read1"]
          /\ UNCHANGED res
       \/ /\ Return(c, "driver_error")
          /\ UNCHANGED <<sock, link, srv, c2s, s2c, issued, hsDone, conns>>
    /\ UNCHANGED <<token, waiting, after, qtok, out, htok, fails>>

\* Mutant: the generator treats the version reply as the last message and
\* skips the authentication exchange.
HsNext_skipAuth == [hs_read1 |-> "hs_read3", hs_read2 |-> "hs_read3",
                    hs_read3 |-> "idle"]

\* The step each handshake read leads to when the reply is a success.
HsNext == [hs_read1 |-> "hs_read2", hs_read2 |-> "hs_read3",
           hs_read3 |-> "idle"]

\* The generator step fed with a reply (__read_response after the first
\* read, __prepare_auth_request after the second, __read_auth_response
\* after the third) decodes it and returns only when it reports success and
\* passes that step's check: the protocol version range, the nonce prefix,
\* the server signature.  Any other reply raises.
HsStepOK(r) == r = "ok"

\* readuntil(b"\0", deadline) and the generator step it feeds.  A reply
\* that is not a success raises in the generator (__decode_json_response,
\* the version, nonce or signature check); connect turns ReqlAuthError into
\* ReqlDriverError and lets the others through, and in every case the
\* socket stays open.  The deadline makes the read raise ReqlTimeoutError
\* while nothing has arrived.
HsRead(c) ==
    /\ pc[c] \in {"hs_read1", "hs_read2", "hs_read3"}
    /\ UNCHANGED <<token, waiting, after, qtok, out, htok, conns, fails>>
    /\ \/ /\ s2c # <<>>
          /\ link # "rst"
          /\ s2c' = Tail(s2c)
          /\ UNCHANGED <<sock, link, srv, issued>>
          /\ IF Head(s2c).k # "hs"
               THEN Return(c, "decode_error") /\ UNCHANGED <<c2s, hsDone>>
             ELSE IF ~HsStepOK(Head(s2c).r)
               THEN Return(c, "driver_error") /\ UNCHANGED <<c2s, hsDone>>
             ELSE IF pc[c] = "hs_read2"
               THEN \* __prepare_auth_request, then sendall of its result
                    \/ /\ SendReturns([k |-> "auth"])
                       /\ pc' = [pc EXCEPT ![c] = "hs_read3"]
                       /\ UNCHANGED <<res, hsDone>>
                    \/ /\ SendRaises
                       /\ Return(c, "driver_error")
                       /\ UNCHANGED hsDone
             ELSE /\ pc' = [pc EXCEPT ![c] = HsNext[pc[c]]]
                  /\ res' = [res EXCEPT ![c] =
                               IF pc[c] = "hs_read3" THEN "ok" ELSE @]
                  /\ hsDone' = (hsDone \/ pc[c] = "hs_read3")
                  /\ UNCHANGED c2s
       \/ /\ s2c = <<>>
          /\ link = "up"
          /\ Return(c, "timeout")
          /\ UNCHANGED <<sock, link, srv, c2s, s2c, issued, hsDone>>
       \/ /\ RecvFails
          /\ Return(c, "driver_error")

-----------------------------------------------------------------------------
(* The environment: the server and the network.                            *)

\* What the server answers to each query type.
Replies(qt) ==
    CASE qt = "START"        -> StartReplies
      [] qt = "NOREPLY_WAIT" -> {"wait_complete"}
      [] qt = "SERVER_INFO"  -> {"server_info"}

HsMsgs(rs) == [i \in DOMAIN rs |-> [k |-> "hs", r |-> rs[i]]]

\* The server reads the next client message.  To the initial message it
\* answers with its version range and then its first SCRAM message (or an
\* error, after which it closes); to the authentication request with its
\* final SCRAM message.  Binary query bytes read while it waits for
\* handshake JSON are an error that ends the session.  In a ready session it
\* answers each query that asked for a reply with a frame.
ServerStep ==
    /\ link = "up"
    /\ c2s # <<>>
    /\ c2s' = Tail(c2s)
    /\ LET m == Head(c2s) IN
       \/ /\ srv = "hs1" /\ m.k = "init"
          /\ \E rs \in {<<"ok", "ok">>, <<"ok", "bad_nonce">>, <<"ok", "fail">>,
                        <<"fail">>, <<"bad_version", "fail">>} :
               /\ s2c' = s2c \o HsMsgs(rs)
               /\ IF rs[Len(rs)] = "fail"
                    THEN link' = "fin" /\ srv' = srv
                    ELSE link' = link /\ srv' = "hs3"
       \/ /\ srv = "hs3" /\ m.k = "auth"
          /\ \E r \in {"ok", "bad_sig", "fail"} :
               /\ s2c' = Append(s2c, [k |-> "hs", r |-> r])
               /\ IF r = "fail"
                    THEN link' = "fin" /\ srv' = srv
                    ELSE link' = link /\ srv' = "ready"
       \/ /\ srv \in {"hs1", "hs3"} /\ m.k = "query"
          /\ s2c' = Append(s2c, [k |-> "hs", r |-> "fail"])
          /\ link' = "fin"
          /\ srv' = srv
       \/ /\ srv = "ready" /\ m.k = "query"
          /\ UNCHANGED <<link, srv>>
          /\ IF m.noreply
               THEN UNCHANGED s2c
               ELSE \E rt \in Replies(m.qt) :
                      s2c' = s2c \o <<[k |-> "hdr", tok |-> m.tok],
                                      [k |-> "body", rt |-> rt]>>
    /\ UNCHANGED <<sock, token, waiting, pc, after, qtok, out, htok, res,
                   issued, hsDone, conns, fails>>

\* The stream fails: the server closes it (what it sent stays readable) or
\* it is reset (everything in flight is lost).
NetFail ==
    /\ fails < MaxFailures
    /\ link \in {"up", "fin"}
    /\ fails' = fails + 1
    /\ c2s' = <<>>
    /\ \/ link' = "fin" /\ UNCHANGED s2c
       \/ link' = "rst" /\ s2c' = <<>>
    /\ UNCHANGED <<sock, srv, token, waiting, pc, after, qtok, out, htok,
                   res, issued, hsDone, conns>>

-----------------------------------------------------------------------------

Init ==
    /\ sock = "none"
    /\ link = "none"
    /\ srv = "none"
    /\ c2s = <<>>
    /\ s2c = <<>>
    /\ token = 0
    /\ waiting = {}
    /\ pc = [c \in Callers |-> "idle"]
    /\ after = [c \in Callers |-> "return"]
    /\ qtok = [c \in Callers |-> 0]
    /\ out = [c \in Callers |-> NoQuery]
    /\ htok = [c \in Callers |-> 0]
    /\ res = [c \in Callers |-> "none"]
    /\ issued = <<>>
    /\ hsDone = FALSE
    /\ conns = 0
    /\ fails = 0

\* The operations a caller chooses to invoke.
Invoke(c) ==
    \/ Start(c) \/ NoreplyWait(c) \/ ServerInfo(c)
    \/ Close(c) \/ Reconnect(c)

\* The steps of an operation in progress.
Proceed(c) ==
    \/ Send(c) \/ Connect(c) \/ HsRead(c)
    \/ ReadHeader(c) \/ ReadBody(c) \/ Garbled(c)

Next ==
    \/ \E c \in Callers : Invoke(c) \/ Proceed(c)
    \/ ServerStep
    \/ NetFail

\* A running thread is not descheduled forever and the server keeps
\* reading; the user, timeouts aside, and the network owe nothing.
Fairness ==
    /\ \A c \in Callers : WF_vars(Proceed(c))
    /\ WF_vars(ServerStep)

Spec == Init /\ [][Next]_vars

FairSpec == Spec /\ Fairness

-----------------------------------------------------------------------------
(* Properties.                                                             *)

TypeOK ==
    /\ sock \in {"none", "open"}
    /\ link \in {"none", "up", "fin", "rst"}
    /\ srv \in {"none", "hs1", "hs3", "ready"}
    /\ c2s \in Seq(ClientMsgs)
    /\ s2c \in Seq(ServerMsgs)
    /\ token \in Tokens
    /\ waiting \subseteq Tokens
    /\ pc \in [Callers -> PCs]
    /\ after \in [Callers -> {"return", "close", "reconnect"}]
    /\ qtok \in [Callers -> Tokens]
    /\ out \in [Callers -> QueryMsgs \cup {NoQuery}]
    /\ \A c \in Callers : pc[c] = "send" => out[c] \in QueryMsgs
    /\ htok \in [Callers -> Tokens]
    /\ res \in [Callers -> Results]
    /\ issued \in Seq(Tokens)
    /\ hsDone \in BOOLEAN
    /\ conns \in 0..MaxConnects
    /\ fails \in 0..MaxFailures

\* Token uniqueness (TokenGenerator.reset in Connection.close): no token is
\* handed out twice while one socket stays open, whatever fails in between
\* (a NOREPLY_WAIT that raises, an EOF that closes the socket early).
TokensUniqueOnSocket == IsInjective(issued)

\* Response routing (RdbProtocol.read_response): the frame header a caller
\* reads carries the token of the query that caller sent.
ResponseToOwnQuery ==
    \A c \in Callers : pc[c] = "body" => htok[c] = qtok[c]

\* Query frames reach the server only on a socket whose handshake the
\* client completed (DefaultTransport.connect, HandshakeV1_0.run).
QueryOnlyAfterHandshake ==
    \A i \in 1..Len(c2s) : c2s[i].k = "query" => hsDone

\* Handshake agreement (HandshakeV1_0 driven by DefaultTransport.connect):
\* whenever the client holds a completed handshake on a live stream, the
\* server has accepted the authentication and its session is ready.
HandshakeAgreement == (hsDone /\ link = "up") => srv = "ready"

\* The response table (RdbProtocol._waiting_respose) holds only tokens a
\* caller is still reading a response for: an operation that ends without
\* its response (a failed read, a close, a reconnect) fails its pending
\* entry with it, as close must fail every pending request.
PendingIsAwaited ==
    \A t \in waiting : \E c \in Callers :
        pc[c] \in {"send", "hdr", "body", "garbled"} /\ qtok[c] = t

\* A query that expects a response does not crash the driver when the server
\* answers it with a stream (read_response's Cursor branch).
StreamReplyReturns == \A c \in Callers : res[c] # "attr_error"

\* Connection.close(noreply_wait=True), and reconnect: the thread that
\* closes the socket once its NOREPLY_WAIT returned has read the server's
\* WAIT_COMPLETE, and nothing the client sent is left unread by the server,
\* so every noreply write sent before the close was applied (spec 4.4).
CloseAfterNoreplyWait ==
    [][\A c \in Callers :
         (/\ pc[c] = "body" /\ after[c] # "return"
          /\ sock = "open" /\ sock' = "none" /\ res'[c] = "ok")
           => /\ s2c # <<>>
              /\ Head(s2c) = [k |-> "body", rt |-> "wait_complete"]
              /\ c2s = <<>>]_vars

\* A query sent after a completed handshake always returns (run_query reads
\* with no deadline).
QueryAfterHandshakeReturns ==
    \A c \in Callers : (pc[c] = "hdr" /\ hsDone) ~> (pc[c] = "idle")

\* Every operation a caller starts returns or raises.
CallerReturns ==
    \A c \in Callers : (pc[c] # "idle") ~> (pc[c] = "idle")

=============================================================================
