----------------------------- MODULE MCCommandRun -----------------------------
(***************************************************************************)
(* Every command, with arguments chosen to look like the last segment of a *)
(* path that read-only mode lets through, and zr api on every path.        *)
(***************************************************************************)
EXTENDS CommandRun

AllCommands == DOMAIN commands
===============================================================================
