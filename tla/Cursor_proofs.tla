------------------------------ MODULE Cursor_proofs ------------------------------
(***************************************************************************)
(* Proofs about the Cursor of core/net/cursor.py for every bound on the    *)
(* batches and the calls.  The constructor leaves outstanding_requests and *)
(* error unassigned, and nothing else assigns them before extend reads     *)
(* them: extend raises AttributeError at its first line, so                *)
(* _maybe_fetch_batch never runs and the cursor never asks for another     *)
(* batch.  The prefetch of spec section 4.5 (one CONTINUE once the buffer  *)
(* falls below the threshold) cannot happen in this code.                  *)
(***************************************************************************)
EXTENDS Cursor, TLAPS

\* The attributes the constructor leaves unset stay unset, and no CONTINUE
\* has been issued.
NeverAssigned ==
    /\ outstanding = Unset
    /\ error = Unset
    /\ resumes = 0

LEMMA InitNeverAssigned == Init => NeverAssigned
BY DEF Init, NeverAssigned

\* No step assigns outstanding_requests or error: extend stops at its
\* decrement of the unset counter, raise_error at its read of the unset
\* error, and the other calls do not touch either.
LEMMA NextNeverAssigned ==
    ASSUME NeverAssigned, [Next]_vars
    PROVE  NeverAssigned'
<1> USE DEF NeverAssigned
<1>1. CASE New
  BY <1>1 DEF New
<1>2. CASE Extend
  <2>1. PICK rt \in ResponseTypes, et \in ErrorTypes, n \in 0..MaxBatch :
            /\ Deliver(rt, n)
            /\ IF outstanding = Unset
                 THEN /\ res' = "attr_error"
                      /\ UNCHANGED <<items, completed, threshold, outstanding,
                                     error, resumes>>
                 ELSE /\ MaybeFetchBatch(outstanding - 1)
                      /\ IF error = Unset
                           THEN UNCHANGED <<items, completed, threshold, error>>
                           ELSE ExtendInternal(rt, et, n)
    BY <1>2 DEF Extend
  <2>2. QED
    BY <2>1
<1>3. CASE RaiseError
  <2>1. UNCHANGED <<outstanding, resumes>>
    BY <1>3 DEF RaiseError
  <2>2. UNCHANGED error
    BY <1>3, Zenon DEF RaiseError, Unset
  <2>3. QED
    BY <2>1, <2>2
<1>4. CASE Close \/ Next_ \/ Str
  BY <1>4 DEF Close, Next_, Str
<1>5. CASE UNCHANGED vars
  BY <1>5 DEF vars
<1>6. QED
  BY <1>1, <1>2, <1>3, <1>4, <1>5 DEF Next

\* The cursor never prefetches (Cursor.extend and _maybe_fetch_batch): in
\* every behaviour of the router and the user, ctx.resume is never called,
\* so no CONTINUE is sent and a stream ends with its first batch.
THEOREM NeverResumes == Spec => [](resumes = 0)
<1>1. NeverAssigned => resumes = 0
  BY DEF NeverAssigned
<1>2. QED
  BY <1>1, InitNeverAssigned, NextNeverAssigned, PTL DEF Spec

=============================================================================
