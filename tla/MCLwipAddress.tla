--------------------------- MODULE MCLwipAddress ---------------------------
(***************************************************************************)
(* LwipAddress with three link-local addresses, so that a client can       *)
(* retreat from two of them and come back to the first.                    *)
(***************************************************************************)
EXTENDS LwipAddress

ThreeLinkLocals == <<"l1", "l2", "l3">>
=============================================================================
