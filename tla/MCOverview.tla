----------------------------- MODULE MCOverview -----------------------------
(* Small instances of Overview: one page. *)
EXTENDS Overview

CONSTANTS p1, p2, ann, none, g1
=============================================================================
