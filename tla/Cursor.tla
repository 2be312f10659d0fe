------------------------------- MODULE Cursor -------------------------------
(***************************************************************************)
(* One Cursor object (core/net/cursor.py) and the calls made on it: the    *)
(* constructor and extend, which the response router makes with a server   *)
(* response, and next, close, raise_error and str, which a user makes.  Its *)
(* Context (Connection.resume and stop) is the environment; what a resume *)
(* or a stop call does to the connection is not part of this module.       *)
(*                                                                         *)
(* The attributes the constructor leaves unassigned (outstanding_requests, *)
(* threshold until the first batch, error) are "unset": reading one raises *)
(* AttributeError.  A batch is abstracted to its response type and the     *)
(* number of items in its data array; the items themselves to a count.     *)
(***************************************************************************)
EXTENDS Naturals

CONSTANTS
    MaxBatch,   \* bound on the items of one response
    MaxCalls    \* bound on the calls made on the cursor

Unset == "unset"

\* Response.type values (ql2.proto ResponseType), and the ErrorType values
\* of a runtime error with "other" for one the driver does not know.
ResponseTypes == {"atom", "partial", "sequence", "wait_complete",
                  "server_info", "client_error", "compile_error",
                  "runtime_error"}

ErrorTypes == {"INTERNAL", "QUERY_LOGIC", "other"}

\* The wait argument of next: a bool, a float >= 0, or anything else.
Waits == {"bool", "nonneg_float", "invalid"}

\* The outcome of a call: a return, or the exception it raises.
Results == {"none", "ok", "attr_error", "driver_error", "not_implemented",
            "decode_error"}

VARIABLES
    live,         \* the Cursor has been constructed
    items,        \* len(Cursor.items)
    completed,    \* Cursor.completed
    threshold,    \* Cursor.threshold, or Unset
    outstanding,  \* Cursor.outstanding_requests, or Unset
    error,        \* Cursor.error: Unset, or the class of the error it holds
    resumes,      \* ctx.resume calls (a CONTINUE each)
    stops,        \* ctx.stop calls (a STOP each)
    delivered,    \* items of the batches handed to the cursor before it
                  \* completed
    res,          \* outcome of the last call
    calls         \* calls made so far

vars == <<live, items, completed, threshold, outstanding, error, resumes,
          stops, delivered, res, calls>>

-----------------------------------------------------------------------------
(* Response (core/net/msg.py).                                            *)

\* Response.is_sequential.
IsSequential(rt) == rt \in {"partial", "sequence"}

\* The exception class make_error gives a runtime error of each error_type
\* (a subset of pErrorType), ReqlRuntimeError for one not in its table.
RuntimeErrorClass ==
    [INTERNAL    |-> "ReqlInternalError",
     QUERY_LOGIC |-> "ReqlQueryLogicError",
     other       |-> "ReqlRuntimeError"]

\* Response.make_error: the class of the error a response stands for; a
\* response type it does not know is a ReqlDriverError.
MakeError(rt, et) ==
    IF rt = "compile_error" THEN "ReqlServerCompileError"
    ELSE IF rt = "runtime_error" THEN RuntimeErrorClass[et]
    ELSE "ReqlDriverError"

-----------------------------------------------------------------------------
(* Cursor.                                                                 *)

\* The batch is counted as delivered when the cursor had not completed.
Deliver(rt, n) ==
    delivered' = IF ~completed /\ IsSequential(rt) THEN delivered + n
                                                   ELSE delivered

\* _extend_internal(res): threshold becomes the batch size; nothing more
\* once the cursor completed; a partial batch is buffered, a sequence is
\* buffered and completes the cursor, any other response is kept as the
\* error.
ExtendInternal(rt, et, n) ==
    /\ threshold' = n
    /\ IF completed
         THEN UNCHANGED <<items, completed, error>>
         ELSE /\ items' = IF IsSequential(rt) THEN items + n ELSE items
              /\ completed' = (rt = "sequence")
              /\ error' = IF IsSequential(rt) THEN error ELSE MakeError(rt, et)

\* A call on the cursor: counted, and its outcome recorded.
Call(r) ==
    /\ calls < MaxCalls
    /\ calls' = calls + 1
    /\ res' = r

\* Cursor(ctx, query, first_response), as read_response builds it for a
\* stream response: items empty, completed False, the other attributes
\* unassigned, then _extend_internal of the first response.
New ==
    /\ ~live
    /\ \E rt \in {"partial", "sequence"}, n \in 0..MaxBatch :
         /\ live' = TRUE
         /\ items' = n
         /\ completed' = (rt = "sequence")
         /\ threshold' = n
         /\ delivered' = n
    /\ UNCHANGED <<outstanding, error, resumes, stops, res, calls>>

\* _maybe_fetch_batch, from the point where outstanding_requests is set:
\* it reads error, then the items against the threshold, then the counter,
\* and issues one CONTINUE when all three allow it.
MaybeFetchBatch(o) ==
    IF error = Unset
      THEN /\ res' = "attr_error"
           /\ outstanding' = o
           /\ UNCHANGED resumes
      ELSE IF error = "none" /\ items < threshold /\ o = 0
             THEN /\ outstanding' = o + 1
                  /\ resumes' = resumes + 1
                  /\ res' = "ok"
             ELSE /\ outstanding' = o
                  /\ UNCHANGED resumes
                  /\ res' = "ok"

\* extend(res), the router's call for a later batch: decrement
\* outstanding_requests, _maybe_fetch_batch, then _extend_internal.  The
\* first read of an attribute that is unset raises AttributeError and ends
\* the call.
Extend ==
    /\ live
    /\ calls < MaxCalls
    /\ calls' = calls + 1
    /\ \E rt \in ResponseTypes, et \in ErrorTypes, n \in 0..MaxBatch :
         /\ Deliver(rt, n)
         /\ IF outstanding = Unset
              THEN /\ res' = "attr_error"
                   /\ UNCHANGED <<items, completed, threshold, outstanding,
                                  error, resumes>>
              ELSE /\ MaybeFetchBatch(outstanding - 1)
                   /\ IF error = Unset
                        THEN UNCHANGED <<items, completed, threshold, error>>
                        ELSE ExtendInternal(rt, et, n)
    /\ UNCHANGED <<live, stops>>

\* raise_error(message): when error is None, a runtime error is stored and
\* extend is called with DummyResponse, whose body is not JSON (single
\* quotes) and raises a decode error before extend runs.
RaiseError ==
    /\ live
    /\ \/ error = Unset /\ Call("attr_error") /\ UNCHANGED error
       \/ error = "none" /\ Call("decode_error") /\ error' = "ReqlRuntimeError"
       \/ error \notin {Unset, "none"} /\ Call("ok") /\ UNCHANGED error
    /\ UNCHANGED <<live, items, completed, threshold, outstanding, resumes,
                   stops, delivered>>

\* close(): ctx.stop(self), which raises ReqlDriverError on a closed
\* connection and otherwise sends a STOP.
Close ==
    /\ live
    /\ \/ Call("ok") /\ stops' = stops + 1
       \/ Call("driver_error") /\ UNCHANGED stops
    /\ UNCHANGED <<live, items, completed, threshold, outstanding, error,
                   resumes, delivered>>

\* _wait_to_timeout: a bool or a float >= 0 is a timeout; anything else
\* raises ReqlDriverError.
WaitToTimeoutOK(w) == w \in {"bool", "nonneg_float"}

\* next(wait): _wait_to_timeout, then _get_next, which raises
\* NotImplementedError.
Next_ ==
    /\ live
    /\ \E w \in Waits :
         Call(IF WaitToTimeoutOK(w) THEN "not_implemented" ELSE "driver_error")
    /\ UNCHANGED <<live, items, completed, threshold, outstanding, error,
                   resumes, stops, delivered>>

\* str(cursor) / repr(cursor): _fmt_cursor reads error.
Str ==
    /\ live
    /\ Call(IF error = Unset THEN "attr_error" ELSE "ok")
    /\ UNCHANGED <<live, items, completed, threshold, outstanding, error,
                   resumes, stops, delivered>>

-----------------------------------------------------------------------------

Init ==
    /\ live = FALSE
    /\ items = 0
    /\ completed = FALSE
    /\ threshold = Unset
    /\ outstanding = Unset
    /\ error = Unset
    /\ resumes = 0
    /\ stops = 0
    /\ delivered = 0
    /\ res = "none"
    /\ calls = 0

Next == New \/ Extend \/ RaiseError \/ Close \/ Next_ \/ Str

Spec == Init /\ [][Next]_vars

-----------------------------------------------------------------------------
(* Properties.                                                             *)

\* Every item of every batch the router hands to the cursor before it
\* completes is buffered for next (spec 4.5, extend; 8.7).
ItemsDelivered == items = delivered

=============================================================================
