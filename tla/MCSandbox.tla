----------------------------- MODULE MCSandbox ------------------------------
(* Two plugins and a u64 whose last value a lifetime may pass.             *)
EXTENDS Sandbox

CONSTANTS p1, p2, blank

\* fnv64 as a hash that puts all the requests for a lifetime of 1 under one id and tells
\* the others apart.
MCFnv64(text) == IF text[3] = 1 THEN <<0>> ELSE text

MCLimits == {0, 1, 2}
MCConfigs == [allowed_syscalls : {{}, Syscalls}, max_memory_bytes : MCLimits,
              max_cpu_millis : MCLimits]
MCUsages == [memory_bytes : {1, 2}, cpu_millis : {0, 2}]

\* Tokens and limits share no variable: they are explored one beside the other, and
\* together only in states that begin both.
MCOneAtATime == tokens = {} \/ config = {}

\* What the last call returned decides nothing that follows.
MCView == <<config, tokens, plugin_usage, standing, fresh>>
=============================================================================
