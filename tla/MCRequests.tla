----------------------------- MODULE MCRequests -----------------------------
(* Small instances of Requests for TLC.                                    *)
EXTENDS Requests

CONSTANTS acme, globex

\* The first tenant sends every request but those in Others.
CONSTANT Others
TwoTenants == [r \in Reqs |-> IF r \in Others THEN globex ELSE acme]
=============================================================================
