------------------------------ MODULE MCScript ------------------------------
(* Script for TLC: one command and one embedder. *)
EXTENDS Script

CommandGoroutines  == {"c"}
EmbedderGoroutines == {"e"}
=============================================================================
