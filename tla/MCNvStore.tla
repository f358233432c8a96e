------------------------------ MODULE MCNvStore ------------------------------
(* Two items of two values in sectors of three entries.                      *)
EXTENDS NvStore

CONSTANTS i1, i2, v1, v2

MCItems == {i1, i2}
MCValues == {v1, v2}

=============================================================================
