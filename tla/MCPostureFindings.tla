------------------------- MODULE MCPostureFindings -------------------------
(* One vault and one storage account, each there or not. *)
EXTENDS PostureFindings

MCCommandOrder == <<"keyvault", "resource-trusts", "storage">>
=============================================================================
