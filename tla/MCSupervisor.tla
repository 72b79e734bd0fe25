---------------------------- MODULE MCSupervisor ----------------------------
(* A small instance of Supervisor for TLC: more bytes than the window      *)
(* holds on stdout; stderr is open and silent.                             *)
EXTENDS Supervisor

CONSTANTS out, err

MCStream    == {out, err}
MCMaxWrites == [s \in MCStream |-> IF s = out THEN Cap + 1 ELSE 0]
=============================================================================
