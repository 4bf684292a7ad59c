-------------------------- MODULE GatewayRequests --------------------------
(***************************************************************************)
(* The HTTP gateway (gateway.py): every accepted connection is a thread    *)
(* that authorizes its request, reserves one of its client's slots in a    *)
(* shared table, asks the model server and gives the slot back.  A row of  *)
(* the table is fetched under one lock and used under another, and rows    *)
(* without reservations may be evicted in between.                         *)
(*                                                                         *)
(* Headers, bodies and answers are reduced to the decision they lead to.   *)
(* `MaxConcurrent', `MaxRate', `Allowance', `TableSize' and `Admission'    *)
(* stand for 4, 20, 128 Ki tokens, 256 and 16; a request costs one token.  *)
(***************************************************************************)
EXTENDS Naturals, FiniteSets

CONSTANTS
    None,
    Requests,        \* numbers, in the order in which their connections are accepted
    Clients,
    MaxConcurrent, MaxRate, Allowance, TableSize, Admission,
    RowIds           \* more than are ever referred to: a row is a new object

\* What a client asks for: the list of models, a chat (buffered or streamed), a chat
\* without a body, or something that authorize or validate_body_bounds refuses.
Kinds == {"models", "chat", "empty", "refused"}

VARIABLES
    thread,     \* request -> where its thread stands, who asks for what, the row it has
                \* fetched (held) and the one in which it reserved (slot)
    table,      \* client -> its row, or None
    rows,       \* the rows: inflight, count, tokens, and whether the window has elapsed
    torn        \* clients whose row was evicted while a thread held it

gatewayVars == <<thread, table, rows, torn>>

Fresh == [inflight |-> 0, count |-> 0, tokens |-> 0, elapsed |-> FALSE]

At(pc) == [pc |-> pc, client |-> None, kind |-> None, held |-> None, slot |-> None]
Busy == {r \in Requests : thread[r].pc \notin {"new", "done", "failed"}}

\* The rows in the table, and those that a thread refers to.
Tabled == {table[c] : c \in {d \in Clients : table[d] # None}}
Referred == {thread[r].held : r \in Requests} \cup {thread[r].slot : r \in Requests}

Goes(r, pc) == thread' = [thread EXCEPT ![r].pc = pc]

\* The thread has answered, or an exception has left prepare_request or finish_request:
\* then nothing is released.
Answered(r) == thread' = [thread EXCEPT ![r] = At("done")]
Raised(r) == thread' = [thread EXCEPT ![r] = [At("failed") EXCEPT !.slot = thread[r].slot]]

-----------------------------------------------------------------------------
(* The table                                                               *)

\* What a full table gives up for a new row of c.
Evicted(c) ==
    IF table[c] # None \/ Cardinality(Tabled) < TableSize THEN {}
    ELSE {d \in Clients : /\ table[d] # None
                          /\ rows[table[d]].inflight = 0
                          /\ rows[table[d]].elapsed}

Full(c) == table[c] = None /\ Cardinality(Tabled) >= TableSize /\ Evicted(c) = {}

\* RateLimiter._row
FetchRow(r, next) ==
    LET c == thread[r].client
        gone == Evicted(c)
        unused == CHOOSE id \in RowIds : id \notin Tabled \cup Referred
        row == IF table[c] = None THEN unused ELSE table[c]
        freed == {table[d] : d \in gone} \ Referred IN
    /\ ~ Full(c)
    /\ thread' = [thread EXCEPT ![r] = [@ EXCEPT !.held = row, !.pc = next]]
    /\ table' = [d \in Clients |-> IF d = c THEN row ELSE IF d \in gone THEN None ELSE table[d]]
    /\ rows' = [id \in RowIds |-> IF id \in freed \/ (id = row /\ table[c] = None)
                                  THEN Fresh ELSE rows[id]]
    /\ torn' = torn \cup {d \in gone : table[d] \in Referred}

-----------------------------------------------------------------------------
(* A request                                                               *)

\* process_request: no thread without an admission.  _read_body answers ambiguous
\* framing, an oversized and an incomplete body itself.
Accept(r) ==
    /\ thread[r].pc = "new" /\ \A q \in Requests : q < r => thread[q].pc # "new"
    /\ \/ /\ Cardinality(Busy) < Admission
          /\ \E c \in Clients, k \in Kinds :
                thread' = [thread EXCEPT ![r] = [At("authorize") EXCEPT !.client = c, !.kind = k]]
       \/ Answered(r)
    /\ UNCHANGED <<table, rows, torn>>

\* authorize and validate_body_bounds, then backend_ready.  A credential may have been
\* revoked, the backend may not be verified.
Authorize(r) ==
    /\ thread[r].pc = "authorize"
    /\ \/ thread[r].kind # "refused" /\ Goes(r, "fetch")
       \/ Answered(r)
    /\ UNCHANGED <<table, rows, torn>>

FetchToCheck(r) ==
    /\ thread[r].pc = "fetch"
    /\ \/ FetchRow(r, "check")
       \/ Full(thread[r].client) /\ Answered(r) /\ UNCHANGED <<table, rows, torn>>

\* Variant: a new window begins with an empty row.
RenewedAll(row) == IF row.elapsed THEN Fresh ELSE row

\* "Time windows reset counters, never live reservations."
Renewed(row) == IF row.elapsed THEN [Fresh EXCEPT !.inflight = row.inflight] ELSE row

\* check
Check(r) ==
    /\ thread[r].pc = "check"
    /\ LET id == thread[r].held
           row == Renewed(rows[id]) IN
       IF row.inflight < MaxConcurrent /\ row.count < MaxRate
       THEN /\ rows' = [rows EXCEPT ![id] = [row EXCEPT !.inflight = @ + 1, !.count = @ + 1]]
            /\ LET next == IF thread[r].kind = "models" THEN "proxy" ELSE "price" IN
               thread' = [thread EXCEPT ![r] = [@ EXCEPT !.held = None, !.slot = id, !.pc = next]]
       ELSE /\ rows' = [rows EXCEPT ![id] = row]
            /\ Answered(r)
    /\ UNCHANGED <<table, torn>>

\* prepare_request reads max_tokens: json.loads of an empty body raises.  charge_tokens
\* fetches the row again.
Price(r) ==
    /\ thread[r].pc = "price"
    /\ \/ thread[r].kind # "empty" /\ FetchRow(r, "charge")
       \/ /\ thread[r].kind = "empty" \/ Full(thread[r].client)
          /\ Raised(r)
          /\ UNCHANGED <<table, rows, torn>>

\* charge_tokens
Charge(r) ==
    /\ thread[r].pc = "charge"
    /\ LET id == thread[r].held
           next == IF rows[id].tokens < Allowance THEN "proxy" ELSE "refused" IN
       /\ rows' = [rows EXCEPT ![id].tokens = IF next = "proxy" THEN @ + 1 ELSE @]
       /\ thread' = [thread EXCEPT ![r] = [@ EXCEPT !.held = None, !.pc = next]]
    /\ UNCHANGED <<table, torn>>

\* handle, _run_stream: whatever the answer, a failure on either side included.
Proxy(r) ==
    /\ thread[r].pc = "proxy"
    /\ Goes(r, "finish")
    /\ UNCHANGED <<table, rows, torn>>

\* release, from finish_request or after a refused charge: fetch the row ...
FetchToRelease(r) ==
    /\ thread[r].pc \in {"finish", "refused"}
    /\ \/ FetchRow(r, "release")
       \/ Full(thread[r].client) /\ Raised(r) /\ UNCHANGED <<table, rows, torn>>

\* ... and take one reservation off it.  The audit entry follows.
Release(r) ==
    /\ thread[r].pc = "release"
    /\ rows' = [rows EXCEPT ![thread[r].held].inflight = IF @ > 0 THEN @ - 1 ELSE 0]
    /\ Answered(r)
    /\ UNCHANGED <<table, torn>>

\* The windows of all rows pass.
WindowElapses ==
    /\ \E id \in Tabled : ~ rows[id].elapsed
    /\ rows' = [id \in RowIds |-> [rows[id] EXCEPT !.elapsed = id \in Tabled \cup Referred]]
    /\ UNCHANGED <<thread, table, torn>>

Init ==
    /\ thread = [r \in Requests |-> At("new")]
    /\ table = [c \in Clients |-> None]
    /\ rows = [id \in RowIds |-> Fresh]
    /\ torn = {}

Next == \/ \E r \in Requests :
              \/ Accept(r) \/ Authorize(r) \/ FetchToCheck(r) \/ Check(r)
              \/ Price(r) \/ Charge(r) \/ Proxy(r) \/ FetchToRelease(r) \/ Release(r)
        \/ WindowElapses

GatewaySpec == Init /\ [][Next]_gatewayVars

-----------------------------------------------------------------------------

\* The reservations of a row are the requests that hold one in it.
ReservationsExact ==
    \A c \in Clients \ torn :
        table[c] # None =>
            rows[table[c]].inflight = Cardinality({r \in Requests : thread[r].slot = table[c]})

\* No client has more requests at the model server than it may.
ConcurrencyHeld ==
    \A c \in Clients \ torn :
        Cardinality({r \in Requests : thread[r].client = c /\ thread[r].pc = "proxy"}) <= MaxConcurrent

\* Whatever windows pass and rows come and go, a client's reservations are those of its
\* requests under way, or of one that ended in an exception, unless its row was evicted
\* from under a thread (RateLimiter, prepare_request, finish_request).
SlotsExact == ReservationsExact /\ ConcurrencyHeld

=============================================================================
