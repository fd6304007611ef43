------------------------------ MODULE Evidence ------------------------------
(***************************************************************************)
(* The two kinds of evidence that collect (fcu_audit_receipt.py) judges    *)
(* sample by sample, one after the other: first the parameters of the      *)
(* pull, then the timesync.                                                *)
(***************************************************************************)
EXTENDS ParamTrace, TimesyncProperties

vars == <<paramVars, timesyncVars>>

\* collect goes on with the verdict on the parameters and looks at none of
\* their samples again.
Reports ==
    /\ place = "judged" /\ place' = "reported"
    /\ fcu' = <<>> /\ kept' = <<>> /\ channel' = <<>> /\ trace' = <<>> /\ dump' = <<>>
    /\ budget' = [messages |-> 0, changes |-> 0]
    /\ hist' = [tables |-> {}, good |-> FALSE]
    /\ UNCHANGED timesyncVars

Init == ParamInit /\ TimesyncInit

Next ==
    \/ ParamNext /\ UNCHANGED timesyncVars
    \/ Reports
    \/ place = "reported" /\ TimesyncNext /\ UNCHANGED paramVars

Spec == Init /\ [][Next]_vars
=============================================================================
