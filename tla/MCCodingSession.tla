---------------------------- MODULE MCCodingSession ----------------------------
(* AgentSession for TLC: the callers of prompt() are interchangeable.            *)
EXTENDS CodingSession

Symmetry == Permutations(Prompts)
================================================================================
