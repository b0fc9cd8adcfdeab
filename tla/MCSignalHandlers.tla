-------------------------- MODULE MCSignalHandlers --------------------------
(***************************************************************************)
(* Small instances of SignalHandlers for TLC.                              *)
(***************************************************************************)
EXTENDS SignalHandlers

CONSTANTS a, b       \* API threads

MCOne == {a}
MCTwo == {a, b}
=============================================================================
