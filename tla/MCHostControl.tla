----------------------------- MODULE MCHostControl -----------------------------
(* Two leases, two keys, two stopping threads; a lease expires when the clock *)
(* leaves 1.                                                                  *)
EXTENDS HostControl

MCCaps == { "control.request", "keyboard.key" }
MCRequests == { {"keyboard.key"} }
MCConsents == { {}, {"keyboard.key"} }
MCTimes == { 1, 3 }
MCTtls == { 1 }
MCSeqs == 1 .. 2
MCLayouts == { 0 }
===============================================================================
