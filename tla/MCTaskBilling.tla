--------------------------- MODULE MCTaskBilling ---------------------------
(* Instances of the task; see the .cfg files for the bounds.                *)
EXTENDS TaskBilling
=============================================================================
