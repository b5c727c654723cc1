-------------------------------- MODULE Data --------------------------------
(***************************************************************************)
(* The data structures hiredis is built on, side by side: the hash table   *)
(* of the channels' callbacks and the strings.  They share nothing.        *)
(***************************************************************************)
EXTENDS Dict, Sds

\* A dictionary finds what was put there last and its iterator visits all; a string is
\* what was put into it and stays within its memory (dict.c:88-290, sds.c:87-738).
DataRight == FindsLast /\ VisitsAll /\ StringRight
=============================================================================
