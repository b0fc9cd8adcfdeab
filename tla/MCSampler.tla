----------------------------- MODULE MCSampler ------------------------------
(***************************************************************************)
(* Small instances of Sampler for TLC.                                     *)
(***************************************************************************)
EXTENDS Sampler

MCRss == {1, 2}      \* a low and a high reading: a peak, and ties with it
MCFlat == {1}        \* the decimation runs look at instants only
=============================================================================
