--------------------------- MODULE MCBufferCache ----------------------------
(***************************************************************************)
(* BufferCache on small instances.                                         *)
(***************************************************************************)
EXTENDS BufferCache
=============================================================================
