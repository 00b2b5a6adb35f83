----------------------------- MODULE IntuneRuns -----------------------------
(***************************************************************************)
(* The executions of an Intune script, of the package or of the profiles,  *)
(* and what may happen to them.                                            *)
(***************************************************************************)
CONSTANTS Run,       \* executions of the script with -Apply
          MaxLive,   \* bound: executions at the same time
          MaxDeaths, \* bound: runs killed, a confirmation declined or an inventory in pages
          MaxAdmin   \* bound: changes by an administrator
=============================================================================
