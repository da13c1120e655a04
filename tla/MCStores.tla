------------------------------ MODULE MCStores ------------------------------
(***************************************************************************)
(* The two stores that outlive a command, one per behaviour: the cache of  *)
(* incremental builds, or the local registry and the cache of packages.    *)
(***************************************************************************)
EXTENDS MCIncrementalBuild, MCPackageStore

VARIABLE store        \* which of the two is used

storeVars == <<store, ibVars, vars>>

BuildIdle ==
  /\ src = [m \in Modules |-> IF m = lib THEN l1 ELSE m1] /\ key = k1
  /\ IBInit

StoresInit ==
  \/ store = "builds" /\ IBInit /\ Init
  \/ store = "packages" /\ BuildIdle /\ Init

StoresNext ==
  /\ UNCHANGED store
  /\ \/ store = "builds" /\ IBNext /\ UNCHANGED vars
     \/ store = "packages" /\ Next /\ UNCHANGED ibVars

StoresSpec == StoresInit /\ [][StoresNext]_storeVars
=============================================================================
