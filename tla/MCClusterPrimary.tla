--------------------------- MODULE MCClusterPrimary ---------------------------
(* Two workers at a time, and two more for the crashes.                    *)
EXTENDS ClusterPrimary

CONSTANTS w1, w2, w3, w4
=============================================================================
