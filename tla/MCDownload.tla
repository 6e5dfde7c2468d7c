------------------------------- MODULE MCDownload -------------------------------
(* Two processes of two versions, or of one, race for the same directory.   *)
EXTENDS Download
================================================================================
