---------------------------- MODULE MCDeployment ----------------------------
(***************************************************************************)
(* Three commits, the second of which migrates the schema.  The names of   *)
(* their tags are in another order.                                        *)
(***************************************************************************)
EXTENDS Deployment

MCRevision == [c \in Commit |-> <<1, 2, 2>>[c]]

MCRank == [c \in Commit |-> <<1, 3, 2>>[c]]
=============================================================================
