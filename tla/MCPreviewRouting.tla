--------------------------- MODULE MCPreviewRouting ---------------------------
(* An instance of PreviewRouting: two developers of one requirement, a call *)
(* of an API and the worker.                                                *)
EXTENDS PreviewRouting
===============================================================================
