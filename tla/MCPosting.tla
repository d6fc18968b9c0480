------------------------------ MODULE MCPosting ------------------------------
(* Two threads and imports of one and of two opening balances for TLC. *)
EXTENDS Posting

CONSTANTS w1, w2, usd, eur

MCBatches == {<<None>>, <<eur>>, <<usd, eur>>}

MCDeltas == {1, -2}
=============================================================================
