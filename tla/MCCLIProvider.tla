---------------------------- MODULE MCCLIProvider -----------------------------
(* Two attempts, a tool beside the leader, and streams of up to two        *)
(* events in which a step may repeat.                                      *)
EXTENDS CLIProvider

CONSTANTS tool, step

OneTool == {tool}
OneStep == {step}
SomeTokens == {1}
===============================================================================
