--------------------------- MODULE MCBufferCache ---------------------------
(* Model-checking instance of BufferCache. *)
EXTENDS BufferCache
=============================================================================
