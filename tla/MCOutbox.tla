------------------------------ MODULE MCOutbox ------------------------------
(* Overlapping workers, a repeated event and, in some runs, a retry request; *)
(* or the roles of the staff; or one of them signing in with two browsers.   *)
(* They share no row: only one of the three moves in a behaviour.            *)
EXTENDS Outbox, StaffRoles, StaffSignIn

CONSTANTS view, sell

MCRoleDefault == [n \in {"Admin", "Cashier"} |-> IF n = "Admin" THEN {view, sell} ELSE {view}]

DashInit == OutInit /\ RoleInit /\ SignInInit

DashNext ==
    \/ RoleInit /\ SignInInit /\ OutNext /\ UNCHANGED <<roleVars, signInVars>>
    \/ OutInit /\ SignInInit /\ RoleNext /\ UNCHANGED <<outVars, signInVars>>
    \/ OutInit /\ RoleInit /\ SignInNext /\ UNCHANGED <<outVars, roleVars>>

DashSpec == DashInit /\ [][DashNext]_<<outVars, roleVars, signInVars>> /\ OutFairness
=============================================================================
