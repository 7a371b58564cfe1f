---------------------------- MODULE MCDashboard ----------------------------
(* Dashboard for TLC.                                                      *)
EXTENDS Dashboard

CONSTANTS a1, a2

MCAlerts  == {a1, a2}
MCLasting == {a2}
MCSlots   == 1 .. 2
MCMessage == {"created", "updated", "resolved"} \X MCAlerts

=============================================================================
