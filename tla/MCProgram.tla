----------------------------- MODULE MCProgram -----------------------------
(* An instance of Program for TLC.                                         *)
EXTENDS Program

(* Each rig meets the commands that one part of the state depends on: free *)
(* playback, playback locked to a commanded and to a steered frequency,    *)
(* and the PID.                                                            *)
MCRigs ==
    {[policy |-> "PassThrough",
      commands |-> {"table increment", "interpolation", "mode", "trigger", "activate"}],
     [policy |-> "PassThrough",
      commands |-> {"increment", "multiplier", "phase offset", "mode", "trigger", "activate"}],
     [policy |-> "Steering", commands |-> {"increment", "mode", "trigger", "activate"}],
     [policy |-> "Pid", commands |-> {"gain"}]}
=============================================================================
