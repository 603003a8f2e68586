--------------------------- MODULE MCBundleExport ---------------------------
(* Two URLs.                                                               *)
EXTENDS BundleExport

CONSTANTS a, b
=============================================================================
