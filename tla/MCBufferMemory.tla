--------------------------- MODULE MCBufferMemory ---------------------------
(* The tools of BufferMemory are interchangeable, and so are the clients. *)
EXTENDS BufferMemory, TLC

Symmetry == Permutations(Tools) \cup Permutations(Clients)
=============================================================================
