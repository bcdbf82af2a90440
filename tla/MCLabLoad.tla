----------------------------- MODULE MCLabLoad -----------------------------
(* The quick load of the lab beside what is said of it.                    *)
EXTENDS LabRun

\* apps/lab/main.cpp:617: load from a file with the application-level guarantee
\* that a failed load changes nothing (load_guarded).
FailedLoadChangesNothing == [][QuickLoad /\ refused' => sim' = sim]_labVars
=============================================================================
