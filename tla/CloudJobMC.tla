----------------------------- MODULE CloudJobMC -----------------------------
(***************************************************************************)
(* One PC with a folder of PPSSPP, a source marked sync_all, that the job  *)
(* and the menu of the tray synchronise.                                   *)
(***************************************************************************)
EXTENDS CloudJob

OnePc == [job |-> "desk", tray |-> "desk"]
Menu == [job |-> "job", tray |-> "tray"]
Ppsspp == [desk |-> <<"psp">>]
NoFolders == [desk |-> <<>>]
=============================================================================
