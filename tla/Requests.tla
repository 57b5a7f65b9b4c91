------------------------------ MODULE Requests ------------------------------
(***************************************************************************)
(* Requests in flight.  A handler of the API, or of the browser, that      *)
(* awaits between a read and a write keeps what it read, and other         *)
(* handlers run in between: "request" holds that for every handler.        *)
(***************************************************************************)
CONSTANTS Handlers, None

VARIABLE request

NoRequest == [op |-> "NONE"]

RequestInit == request = [h \in Handlers |-> NoRequest]

Begin(h, r) == request[h] = NoRequest /\ request' = [request EXCEPT ![h] = r]

Continue(h, r) == request' = [request EXCEPT ![h] = r]

Finish(h) == request' = [request EXCEPT ![h] = NoRequest]
=============================================================================
