-------------------------- MODULE MCAsyncProtocol --------------------------
(* AsyncProtocol for TLC: its constants are numbers, given in the cfg.     *)
EXTENDS AsyncProtocol
============================================================================
