---------------------------- MODULE MCFileStream ----------------------------
(***************************************************************************)
(* FileStream with a file smaller than a chunk, one larger, and one whose  *)
(* size does not fit the sender's 32 bits.                                 *)
(***************************************************************************)
EXTENDS FileStream

CONSTANTS small, large, huge

MCSize == [f \in Files |-> CASE f = small -> 1 [] f = large -> 3 [] f = huge -> 5]

MCMaxAnnounced == <<1, 2>>
=============================================================================
