---------------------------- MODULE MCDefaultClient ----------------------------
(* Three tasks, one of which may be cancelled.                              *)
EXTENDS DefaultClient
================================================================================
