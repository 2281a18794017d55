-------------------------- MODULE MCPrologixLines --------------------------
(* Every sequence of a few characters, with a buffer of four.              *)
EXTENDS PrologixLines

Bang == {"BANG"}
AllKeys == {"CR", "ESC", "PLUS", "BANG"}
=============================================================================
