----------------------- MODULE MCKernelCatalogImport -----------------------
(* A small instance of KernelCatalogImport: two resources, so that two can *)
(* name one entry, and two entries, so that one can be replaced.           *)
EXTENDS KernelCatalogImport

(* A controller that starts every import again, one that refuses to while  *)
(* it runs (as in client_extended_test.go:442), and one that refuses to    *)
(* also afterwards.                                                        *)
MCRefusals == {{}, {"running"}, {"running", "imported"}}
=============================================================================
