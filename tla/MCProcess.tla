----------------------------- MODULE MCProcess -----------------------------
(* Model-checking instances of Process. *)
EXTENDS Process

(* One ordinary exit status, and the one that also marks a killed process. *)
Statuses == {0, -1}
=============================================================================
