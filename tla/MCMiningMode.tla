--------------------------- MODULE MCMiningMode ---------------------------
(* Two devices; a second header, target and extranonce in the first epoch, *)
(* and a header of the next epoch.                                         *)
EXTENDS MiningMode

W(h, e, t, x) == [header |-> h, epoch |-> e, target |-> t, extra |-> x]
MCFirst == {W("h1", 0, "t1", "x1")}
MCWorks == MCFirst \cup {W("h1", 0, "t2", "x1"), W("h1", 0, "t1", "x2"),
                         W("h2", 0, "t1", "x1"), W("h3", 1, "t1", "x1")}
===========================================================================
