------------------------------ MODULE Replica -------------------------------
(***************************************************************************)
(* What the parts that run in the background of every replica share: the   *)
(* processes of one deployment, which have the database in common and      *)
(* nothing else.                                                           *)
(***************************************************************************)
CONSTANTS Replicas, None     \* None: no value, SQL's NULL
=============================================================================
