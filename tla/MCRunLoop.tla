----------------------------- MODULE MCRunLoop -----------------------------
(* Inputs of the model-checking runs of RunLoop: four triangles in a pool  *)
(* of two, so that the loop waits for a slot, and five jobs in a pool of two.     *)
EXTENDS RunLoop

FourTriangles == {"t1", "t2", "t3", "t4"}
=============================================================================
