---------------------------- MODULE MCWatchRelay ----------------------------
(***************************************************************************)
(* Model values for WatchRelay: two edges, the agent of one of which may    *)
(* stop reading.                                                            *)
(***************************************************************************)
EXTENDS WatchRelay, TLC

CONSTANTS e1, e2
=============================================================================
