--------------------------- MODULE MCTicketQueue ---------------------------
(***************************************************************************)
(* Small instances of TicketQueue for TLC.  The configurations give the    *)
(* constants their values; the cron activations among themselves and the   *)
(* worker slots among themselves are interchangeable where no instance     *)
(* groups them.                                                            *)
(***************************************************************************)
EXTENDS TicketQueue, TLC

Interchangeable == Permutations(Crons) \cup Permutations(Workers)
=============================================================================
