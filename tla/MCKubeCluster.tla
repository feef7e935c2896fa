--------------------------- MODULE MCKubeCluster ---------------------------
(***************************************************************************)
(* KubeCluster for TLC: a small and a large control plane, and a newer     *)
(* version with more workers, so that one edit is refused for the control  *)
(* plane and another for the version; the upgrade a controller supports;   *)
(* and the controllers.                                                    *)
(***************************************************************************)
EXTENDS KubeCluster

Config(c, w, v) == [cp |-> c, workers |-> w, version |-> v]

MCConfigurations ==
    {Config(1, 1, "r1"), Config(3, 1, "r1"), Config(3, 2, "r2")}

MCUpgrades == {<<"r1", "r2">>}

MCControllers ==
    {[records |-> "actual", lags |-> FALSE], [records |-> "goal", lags |-> FALSE],
     [records |-> "actual", lags |-> TRUE]}
=============================================================================
