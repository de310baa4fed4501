------------------------- MODULE MCHttpConnections -------------------------
(***************************************************************************)
(* A small instance of HttpConnections: one more connection than threads, of *)
(* which one brings whatever may be wrong with a request.                    *)
(***************************************************************************)
EXTENDS HttpConnections, TLC

CONSTANTS c1, c2, c3

Good(path, size) ==
  [path |-> path, token |-> TRUE, origin |-> TRUE, json |-> TRUE, head |-> "good",
   size |-> size, body |-> "valid"]

Faulty ==
  {Good("status", 0), Good("options", 0), Good("batch", 1), Good("control", 1), Good("other", 0)}
  \cup {[Good("control", 1) EXCEPT !.token = FALSE], [Good("control", 1) EXCEPT !.origin = FALSE],
        [Good("control", 1) EXCEPT !.json = FALSE], [Good("batch", 1) EXCEPT !.body = "invalid"],
        [Good("status", 0) EXCEPT !.head = "bad"], [Good("status", 0) EXCEPT !.head = "endless"],
        [Good("batch", 1) EXCEPT !.size = 2]}

MCRequests ==
  (c1 :> Faulty) @@ (c2 :> {Good("batch", 1)}) @@ (c3 :> {Good("options", 0)})

=============================================================================
