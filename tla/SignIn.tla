------------------------------- MODULE SignIn -------------------------------
(***************************************************************************)
(* The two ways in: for the members of an organisation, OrgMembership, and *)
(* for the people whose data it holds, PortalAccess.                       *)
(***************************************************************************)
EXTENDS OrgMembership, PortalAccess

signInVars == <<vars, accessVars>>

SignInInit == Init /\ AccessInit

\* Bound: they share no row, so either moves only while the other has not begun.
SignInNext ==
    \/ AccessInit /\ Next /\ UNCHANGED accessVars
    \/ Init /\ AccessNext /\ UNCHANGED vars

SignInSpec == SignInInit /\ [][SignInNext]_signInVars
=============================================================================
