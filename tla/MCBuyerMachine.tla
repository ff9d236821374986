--------------------------- MODULE MCBuyerMachine ---------------------------
(***************************************************************************)
(* The buyer's machine for TLC: "onecent watch" and "onecent install" are  *)
(* two processes of one program; they may run at the same time, each with  *)
(* files of its own.  Two contents of the watched page, one server of the  *)
(* user's own.                                                             *)
(***************************************************************************)
EXTENDS BuyerWatch, ClientInstaller

CONSTANTS old, new

machineVars == <<vars, installerVars>>

MachineInit == Init /\ InstallerInit

Watches == Next /\ UNCHANGED installerVars
Installing == InstallerNext /\ UNCHANGED vars

MachineNext == Watches \/ Installing

MachineSpec == MachineInit /\ [][MachineNext]_machineVars
=============================================================================
