------------------------------ MODULE MCApiServer ------------------------------
(***************************************************************************)
(* ApiServer for TLC: three searches and a probe share two threads, so     *)
(* that clients are built in a race while others wait for a thread.        *)
(***************************************************************************)
EXTENDS ApiServer
===============================================================================
