------------------------------- MODULE MCPll -------------------------------
EXTENDS Pll

MCOffered ==
    [f \in Fields \cup Bounds |->
        CASE f = "centre" -> {2, 3}
          [] f = "min" -> {0, 1}
          [] f = "max" -> {3, 4}
          [] f \in {"proportional_gain", "integral_gain"} -> {1}
          [] f = "target_phase" -> {0, 1}
          [] f = "delay" -> {0}
          [] f = "dc_time_constant" -> {1}
          [] f = "demod_time_constant" -> {0}
          [] f = "lock_tolerance" -> {0}
          [] f = "unlock_tolerance" -> {0, 1}
          [] f = "frequency_tolerance" -> {1}
          [] f = "lock_dwell" -> {2}
          [] f = "unlock_dwell" -> {2}
          [] f = "acquire_timeout" -> {3}
          [] f = "saturation_dwell" -> {2}]
=============================================================================
