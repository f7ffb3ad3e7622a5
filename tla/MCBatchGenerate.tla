--------------------------- MODULE MCBatchGenerate ---------------------------
(* Five requests, so that batches of 2, 3 and 4 leave a shorter last one.     *)
EXTENDS BatchGenerate

MCBatchSizes == 0..5
=============================================================================
