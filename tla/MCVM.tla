-------------------------------- MODULE MCVM --------------------------------
(* A small instance of VM: configurations that change the status, the      *)
(* attached group, or an attribute that forces a replacement, pinned or    *)
(* not.                                                                    *)
EXTENDS VM

W(s, i, p, g) == [present |-> TRUE, status |-> s, image |-> i, pinned |-> p, groups |-> g]

MCWants ==
    {[W("running", "debian", TRUE, {}) EXCEPT !.present = FALSE],
     W("running", "debian", TRUE, {"sg"}),
     W("stopped", "debian", TRUE, {"sg", "affinity"}),
     W("stopped", "debian", FALSE, {}),
     W(Unset, "alpine", FALSE, {"sg"}),
     W("paused", "debian", TRUE, {})}
=============================================================================
