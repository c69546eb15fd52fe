-------------------------------- MODULE Programs -------------------------------
(***************************************************************************)
(* The two programs outside their steady state: one command of the command *)
(* line tool (CommandLine), or any number of starts of the verifier on one *)
(* database (Startup).  They share no state.                               *)
(***************************************************************************)
EXTENDS CommandLine, Startup

ProgramsInit == CliInit /\ StartupInit

Command ==
    /\ input # NoCommand
    /\ CliNext
    /\ UNCHANGED startupVars

Verifier ==
    /\ input = NoCommand
    /\ StartupNext
    /\ UNCHANGED cliVars

ProgramsSpec == ProgramsInit /\ [][Command \/ Verifier]_<<cliVars, startupVars>>
================================================================================
