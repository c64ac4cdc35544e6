--------------------------- MODULE Administration ---------------------------
(***************************************************************************)
(* The administration of the backend: who may act (Accounts), and what     *)
(* they administer (Provisioning).  Both are requests of one process; they *)
(* share no rows that the properties are about, so a behaviour is about    *)
(* one of them ("side").                                                   *)
(***************************************************************************)
EXTENDS Provisioning, Accounts

VARIABLE side
sides == <<side, vars, accountVars>>

AdministrationInit ==
    /\ side \in {"accounts", "server"} /\ AccountsInit
    /\ Init /\ (side = "accounts" => part = "files")

OnSide(name) ==
    /\ side = name /\ UNCHANGED side
    /\ name # "accounts" => UNCHANGED accountVars
    /\ name # "server" => UNCHANGED vars

AdministrationNext ==
    \/ OnSide("accounts") /\ AccountsNext
    \/ OnSide("server") /\ Next

AdministrationSpec == AdministrationInit /\ [][AdministrationNext]_sides

-----------------------------------------------------------------------------
(* Values of the run.                                                      *)

Symmetries == Symmetry \cup AccountSymmetry
=============================================================================
