--------------------------- MODULE ControlSession ---------------------------
(***************************************************************************)
(* What the L3 response node promises about a control session: everything  *)
(* it commands rests on what it received in the session it commands in,    *)
(* and nothing is commanded after the force-disarm latch.                  *)
(***************************************************************************)

VARIABLES
    offered,     \* a Normal command of this session is held
    held,        \* a position of this session is held for IdleHold
    admitted,    \* OFFBOARD has been admitted in this session
    terminated,  \* the force-disarm latch
    act          \* what is being commanded right now

vars == <<offered, held, admitted, terminated, act>>

Acts == {"none", "normal", "hold", "land", "handback"}

Init == /\ ~offered /\ ~held /\ ~admitted /\ ~terminated
        /\ act = "none"

NewSession == /\ offered' = FALSE /\ held' = FALSE /\ admitted' = FALSE
              /\ UNCHANGED <<terminated, act>>

Offer == offered' = TRUE /\ UNCHANGED <<held, admitted, terminated, act>>

Hold == /\ offered
        /\ held' = TRUE
        /\ UNCHANGED <<offered, admitted, terminated, act>>

Admit == /\ offered /\ ~terminated
         /\ admitted' = TRUE /\ act' = "normal"
         /\ UNCHANGED <<offered, held, terminated>>

Terminate == terminated' = TRUE /\ UNCHANGED <<offered, held, admitted, act>>

Command(a) == /\ act = "none" /\ ~terminated
              /\ a = "normal" => offered
              /\ a = "hold" => held
              /\ a = "handback" => ~admitted
              /\ act' = a
              /\ UNCHANGED <<offered, held, admitted, terminated>>

Finish == act' = "none" /\ UNCHANGED <<offered, held, admitted, terminated>>

Next == \/ NewSession \/ Offer \/ Hold \/ Admit \/ Terminate \/ Finish
        \/ \E a \in Acts : Command(a)

Spec == Init /\ [][Next]_vars
=============================================================================
