--------------------------- MODULE AssetDirectory ---------------------------
(***************************************************************************)
(* What the registry promises whoever registers an asset: between the      *)
(* arrival of the request and its response the declaration takes effect    *)
(* once, whole and at one moment, and makes a record only where there was  *)
(* none.  AssetRegistry implements this module.                            *)
(***************************************************************************)
EXTENDS Naturals

CONSTANTS Key, Field, Request, Nobody

VARIABLES
    shown,     \* for each registered key, who declared each field
    creator,   \* who created the record of a key
    open,      \* registrations that have arrived: the request and its key
    served     \* the requests whose registration has taken effect

directoryVars == <<shown, creator, open, served>>

DirInit ==
    /\ shown = [k \in {} |-> [f \in Field |-> Nobody]]
    /\ creator = [k \in Key |-> Nobody]
    /\ open = {}
    /\ served = {}

Arrive(r, k) ==
    /\ r \notin served
    /\ \A p \in open : p[1] # r
    /\ open' = open \cup {<<r, k>>}
    /\ UNCHANGED <<shown, creator, served>>

Upsert(r, k) ==
    /\ <<r, k>> \in open
    /\ shown' = [j \in DOMAIN shown \cup {k} |->
                    IF j = k THEN [f \in Field |-> r] ELSE shown[j]]
    /\ creator' = IF k \in DOMAIN shown THEN creator
                  ELSE [creator EXCEPT ![k] = r]
    /\ open' = open \ {<<r, k>>}
    /\ served' = served \cup {r}

DirNext == \E r \in Request, k \in Key : Arrive(r, k) \/ Upsert(r, k)

DirSpec == DirInit /\ [][DirNext]_directoryVars

=============================================================================
