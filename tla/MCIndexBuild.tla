----------------------------- MODULE MCIndexBuild -----------------------------
(* Small instance of IndexBuild: the two indices and two earlier builds.   *)
EXTENDS IndexBuild

MCIndices == <<"idx_customer_name", "idx_order">>
=============================================================================
