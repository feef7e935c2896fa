------------------------------- MODULE MCVPC -------------------------------
(* A small instance of VPC: lists that grow and shrink at either end and   *)
(* change in place, with each setting of the default action, and a change  *)
(* of the address block.                                                   *)
EXTENDS VPC, TLC

W(n, d, pf, fw) ==
    [present |-> TRUE, name |-> n, cidr |-> "10.0", default |-> d,
     lists |-> ("port forward" :> pf @@ "firewall rule" :> fw)]

MCWants ==
    {[W("blue", "drop", << >>, << >>) EXCEPT !.present = FALSE],
     W("blue", Unset, << >>, <<"ssh">>),
     W("blue", "drop", <<"ssh">>, << >>),
     W("green", Unset, <<"ssh", "web">>, << >>),
     W("green", "drop", <<"ssh", "web">>, <<"ssh">>),
     W("blue", "accept", <<"web">>, <<"web">>),
     [W("blue", "accept", <<"web">>, << >>) EXCEPT !.cidr = "10.1"]}

(* Three port forwards, and the same without the one in the middle. *)
MCMiddleOut ==
    {W("blue", "drop", <<"ssh", "web", "dns">>, << >>),
     W("blue", "drop", <<"ssh", "dns">>, << >>)}
=============================================================================
