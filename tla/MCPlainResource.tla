-------------------------- MODULE MCPlainResource --------------------------
(***************************************************************************)
(* PlainResource on small instances: for every kind the configurations     *)
(* that differ in what its handlers tell apart.                            *)
(***************************************************************************)
EXTENDS PlainResource

Config(ident, value, opt) == [present |-> TRUE, ident |-> ident, value |-> value, opt |-> opt]

(* The first configuration, taken out again. *)
Absent == [Config("x", 1, Unset) EXCEPT !.present = FALSE]

(* Two values of everything, with and without the optional attribute. *)
Usual == {Absent, Config("x", 1, Unset), Config("x", 1, "a"), Config("x", 2, Unset),
          Config("y", 2, "a"), Config("x", 2, "b")}

(* With HalfRange = 4 the last two overflow: 9 is sent as 1, and 4 as a    *)
(* negative size.                                                          *)
Sizes == {Absent} \cup {Config("x", n, Unset) : n \in {1, 2, 3, 4, 9}} \cup {Config("y", 2, Unset)}

(* What is replaced for any change needs fewer: for a lease and a balancer *)
(* with the optional attribute, for a group and a pool without.            *)
Replaced == {Absent, Config("x", 1, Unset), Config("x", 1, "a"), Config("y", 1, "b")}
Bare == {Absent, Config("x", 1, Unset), Config("y", 1, Unset)}

(* The last one has overcommitted preallocated storage. *)
Backends == Replaced \cup {Config(Unsafe, 1, "a")}

Configurations ==
    [affinity_group |-> Bare, ipam_lease |-> Replaced, ipam_pool |-> Usual,
     lb_certificate |-> Usual, vpc_load_balancer |-> Replaced, public_ip_pool |-> Bare,
     storage_backend |-> Backends, storage_volume |-> Sizes]

AllWants == [k \in Kinds |-> Configurations[k]]
=============================================================================
