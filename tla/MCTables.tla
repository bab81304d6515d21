------------------------------ MODULE MCTables ------------------------------
(***************************************************************************)
(* Instances of BranchPred and Cache for TLC.  The two tables of the front *)
(* end share no state: a behaviour uses one of them.                       *)
(***************************************************************************)
EXTENDS BranchPred, Cache, TLC

VARIABLE unit

TablesInit ==
    /\ unit \in {"predictor", "cache"}
    /\ PredictorInit
    /\ CacheInit
    /\ unit = "cache" => ~history

TablesNext ==
    /\ UNCHANGED unit
    /\ \/ unit = "predictor" /\ PredictorNext /\ UNCHANGED cacheVars
       \/ unit = "cache" /\ CacheNext /\ UNCHANGED predictorVars

TablesSpec == TablesInit /\ [][TablesNext]_<<unit, predictorVars, cacheVars>>

\* The types of both tables: every counter of the predictor is within its
\* bits and every block is in the set of its address.
TablesTypeOK == PredictorTypeOK /\ CacheTypeOK

Symmetry == Permutations(Processors)

\* Two blocks fit into a first level; the second one is direct mapped.
SmallSets == [c \in CacheIds |-> IF c = SecondLevel THEN 2 ELSE 1]
SmallWays == [c \in CacheIds |-> IF c = SecondLevel THEN 1 ELSE 2]
=============================================================================
