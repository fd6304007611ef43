------------------------------ MODULE Severity ------------------------------
(* Levels of diagnostic_msgs/DiagnosticStatus, shared by the three layers. *)
EXTENDS Naturals

OK == 0
WARN == 1
ERROR == 2
STALE == 3
Severities == OK..STALE
=============================================================================
