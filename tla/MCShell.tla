------------------------------- MODULE MCShell -------------------------------
(* One change by the platform, at any moment; besides the request for the  *)
(* modules, one other at a time.  The business never has online payment.   *)
EXTENDS Shell
=============================================================================
