-------------------------- MODULE MCConcurrencyPool --------------------------
(* A server process with three callers and a CLI process with one; the CLI is *)
(* configured with a smaller limit.                                           *)
EXTENDS ConcurrencyPool

CONSTANTS server, cli, a, b, c, d

MCProcOf == [x \in Callers |-> IF x = d THEN cli ELSE server]
MCMaxConcurrency == [p \in Procs |-> IF p = server THEN 2 ELSE 1]
=============================================================================
