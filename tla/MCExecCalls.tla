---------------------------- MODULE MCExecCalls ----------------------------
(* Instance of ExecCalls for TLC: a Bash object that enables the box and   *)
(* one that configures it off; the first to run a script decides.          *)
EXTENDS ExecCalls

MCConfig == [s \in Shells |-> IF s = "s1" THEN "on" ELSE "off"]

=============================================================================
