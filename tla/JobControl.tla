------------------------------ MODULE JobControl -----------------------------
(***************************************************************************)
(* What a shell promises of the command in its foreground: it runs one at  *)
(* a time, prompts again when the command has ended and has been waited    *)
(* for, and does not end itself while there is one.                        *)
(***************************************************************************)
VARIABLES shell, job

vars == <<shell, job>>

Init == shell = "starting" /\ job = "none"

Ready == shell = "starting" /\ shell' = "prompt" /\ UNCHANGED job

Read == shell = "prompt" /\ shell' = "busy" /\ UNCHANGED job

Launch == shell = "busy" /\ job = "none" /\ job' = "running" /\ UNCHANGED shell

Finish == job = "running" /\ job' = "done" /\ UNCHANGED shell

Reap == shell = "busy" /\ job = "done" /\ job' = "none" /\ shell' = "prompt"

\* An empty line, a command that cannot be launched.
NoJob == shell = "busy" /\ job = "none" /\ shell' = "prompt" /\ UNCHANGED job

Leave == shell # "gone" /\ job = "none" /\ shell' = "gone" /\ UNCHANGED job

Next == Ready \/ Read \/ Launch \/ Finish \/ Reap \/ NoJob \/ Leave

Spec == Init /\ [][Next]_vars
==============================================================================
