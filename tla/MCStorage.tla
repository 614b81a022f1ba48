----------------------------- MODULE MCStorage -----------------------------
(* Storage for TLC: entries of one, two and three bytes.                       *)
EXTENDS Storage, TLC

CONSTANTS a, b, c

MCIds == {a, b, c}
MCSize == (a :> 1) @@ (b :> 2) @@ (c :> 3)
=============================================================================
