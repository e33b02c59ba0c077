------------------------------ MODULE Exchange ------------------------------
(***************************************************************************)
(* What the router and the middleware (router/, middleware/) promise the   *)
(* client, without their layers: a request is answered once, with one of   *)
(* the codes that stand to it, and forgotten.                              *)
(***************************************************************************)
CONSTANTS
  Requests,    \* what clients may ask
  Outcomes(_), \* the codes that may answer a request
  None         \* no request

VARIABLES
  req,         \* the request
  answers      \* codes of the bodies written so far

vars == <<req, answers>>

Init == req = None /\ answers = << >>

Ask ==
  /\ req = None /\ req' \in Requests
  /\ UNCHANGED answers

Reply ==
  /\ req \in Requests /\ answers = << >>
  /\ \E code \in Outcomes(req) : answers' = <<code>>
  /\ UNCHANGED req

Forget ==
  /\ answers # << >>
  /\ req' = None /\ answers' = << >>

Next == Ask \/ Reply \/ Forget

Spec == Init /\ [][Next]_vars

=============================================================================
