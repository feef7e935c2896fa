---------------------------- MODULE MCK3sKernel ----------------------------
(* A small instance of K3sKernel: two resources for the same architecture, *)
(* one with a pinned version, a kernel without a version that is published *)
(* later, and kernels imported by hand: a generic one, one for another     *)
(* architecture, one with the published version under another name, and    *)
(* one without a version.                                                  *)
EXTENDS K3sKernel, TLC

K(n, v, a) == [name |-> n, version |-> v, arch |-> a]
P(n, v, a, k) == [name |-> n, version |-> v, arch |-> a, k3s |-> k]

MCArch == "pinned" :> "amd64" @@ "any" :> "amd64"
MCVersion == "pinned" :> "6.1.175" @@ "any" :> AnyVersion

MCPublications ==
    << <<K("k175-arm", "6.1.175", "arm64"), K("k175", "6.1.175", "amd64")>>,
       <<K("edge", Unversioned, "amd64"), K("k175", "6.1.175", "amd64")>> >>

MCPreexisting ==
    {P("k175", "6.1.175", "amd64", FALSE), P("k175-arm", "6.1.175", "arm64", TRUE),
     P("renamed", "6.1.175", "amd64", TRUE), P("local", Unversioned, "amd64", TRUE)}
=============================================================================
