-------------------------- MODULE MCSecurityGroup --------------------------
(* A small instance of SecurityGroup: configurations that add, remove,     *)
(* move and rewrite a rule, with and without an explicit priority.         *)
EXTENDS SecurityGroup

R(m, p) == [match |-> m, prio |-> p]

MCConfigs ==
    {<< >>,
     << R("ssh", 1) >>,
     << R("web", Unset) >>,
     << R("ssh", 1), R("web", Unset) >>,
     << R("web", Unset), R("ssh", 1) >>}
=============================================================================
