--------------------------- MODULE AssetRegistry ----------------------------
(***************************************************************************)
(* The backend's registry: requests handled in parallel, a concurrent map  *)
(* whose compute() serialises the registrations of one asset, and readers  *)
(* that take the fields of a shared, mutable Asset without any lock.       *)
(*                                                                         *)
(* A request that registers stands for all that it declares: the value of  *)
(* a field is the request that wrote it, and so is lastSeenAt, which is    *)
(* the time that request read.  The Java memory model lets plain writes be *)
(* seen, and plain reads be done, in any order: both go field by field.    *)
(***************************************************************************)
EXTENDS Naturals

CONSTANTS
    Key,        \* pairs of site and asset id
    Site,       \* for each site, the keys that belong to it
    Field,      \* the fields of Asset that applyRegistration assigns
    Request,    \* the HTTP requests
    Nobody

ASSUME SiteAssumption == Site \subseteq SUBSET Key
ASSUME NobodyAssumption == Nobody \notin Request

VARIABLES
    assets,     \* for each registered key, who declared each field
    creator,    \* who created the record of a key: registeredAt
    computing,  \* who is inside compute() for a key
    pc,         \* how far a request is
    registers,  \* the requests that register; the others look up or list
    wanted,     \* the keys a request is about
    left,       \* a registration: fields not yet assigned
    unvisited,  \* a lookup: keys not yet looked at
    found,      \* a request: keys whose Asset it has in hand
    unread,     \* fields that its response still lacks
    got,        \* fields that its response has, with their values
    latest,     \* history: who completed compute() for a key last
    known,      \* history: keys registered when a request came in
    stale       \* history: declarations overwritten when a request came in

records == <<assets, creator, computing, latest>>
request == <<registers, wanted, known, stale>>
response == <<unvisited, found, unread, got>>
vars == <<records, pc, request, left, response>>

Registered == DOMAIN assets

Init ==
    /\ assets = [k \in {} |-> [f \in Field |-> Nobody]]
    /\ creator = [k \in Key |-> Nobody]
    /\ computing = [k \in Key |-> Nobody]
    /\ pc = [r \in Request |-> "new"]
    /\ registers = {}
    /\ wanted = [r \in Request |-> {}]
    /\ left = [r \in Request |-> {}]
    /\ unvisited = [r \in Request |-> {}]
    /\ found = [r \in Request |-> {}]
    /\ unread = [r \in Request |-> {}]
    /\ got = [r \in Request |-> {}]
    /\ latest = [k \in Key |-> Nobody]
    /\ known = [r \in Request |-> {}]
    /\ stale = [r \in Request |-> {}]

\* The registrations that were applied, and then overwritten by another one.
Overwritten ==
    {r \in registers :
        /\ pc[r] \in {"reading", "done"}
        /\ \A k \in wanted[r] : latest[k] # r}

Arrives(r) ==
    /\ pc[r] = "new"
    /\ known' = [known EXCEPT ![r] = Registered]
    /\ stale' = [stale EXCEPT ![r] = Overwritten]

-----------------------------------------------------------------------------
(* register                                                                *)

RegisterArrives(r) ==
    /\ Arrives(r)
    /\ \E k \in Key : wanted' = [wanted EXCEPT ![r] = {k}]
    /\ registers' = registers \cup {r}
    /\ pc' = [pc EXCEPT ![r] = "entering"]
    /\ UNCHANGED <<records, left, response>>

\* What remains after compute(): the response is read from the Asset.
Holds(r, k) ==
    /\ pc' = [pc EXCEPT ![r] = "reading"]
    /\ found' = [found EXCEPT ![r] = {k}]
    /\ unread' = [unread EXCEPT ![r] = {k} \X Field]
    /\ latest' = [latest EXCEPT ![k] = r]
    /\ UNCHANGED <<request, unvisited, got>>

\* Broken variant: whoever saw no record puts a new one.
CreateBlindly(r) ==
    /\ pc[r] = "entering"
    /\ \E k \in wanted[r] :
          /\ computing[k] = Nobody
          /\ k \notin known[r]
          /\ assets' = [j \in Registered \cup {k} |->
                           IF j = k THEN [f \in Field |-> r] ELSE assets[j]]
          /\ creator' = [creator EXCEPT ![k] = r]
          /\ Holds(r, k)
    /\ UNCHANGED <<computing, left>>

\* compute() for a key that is not there: the new Asset is complete before
\* the map shows it.
Create(r) ==
    /\ pc[r] = "entering"
    /\ \E k \in wanted[r] \ Registered :
          /\ computing[k] = Nobody
          /\ assets' = [j \in Registered \cup {k} |->
                           IF j = k THEN [f \in Field |-> r] ELSE assets[j]]
          /\ creator' = [creator EXCEPT ![k] = r]
          /\ Holds(r, k)
    /\ UNCHANGED <<computing, left>>

\* Broken variant: found with get(), and then updated without the lock.
BeginUpdateUnlocked(r) ==
    /\ pc[r] = "entering"
    /\ \E k \in wanted[r] \cap Registered :
          computing' = [computing EXCEPT ![k] = r]
    /\ left' = [left EXCEPT ![r] = Field]
    /\ pc' = [pc EXCEPT ![r] = "writing"]
    /\ UNCHANGED <<assets, creator, latest, request, response>>

\* Broken variant: applyRegistration forgets one of the fields.
BeginUpdateForgetful(r) ==
    /\ pc[r] = "entering"
    /\ \E k \in wanted[r] \cap Registered :
          /\ computing[k] = Nobody
          /\ computing' = [computing EXCEPT ![k] = r]
    /\ \E f \in Field : left' = [left EXCEPT ![r] = Field \ {f}]
    /\ pc' = [pc EXCEPT ![r] = "writing"]
    /\ UNCHANGED <<assets, creator, latest, request, response>>

\* compute() for a key that is there keeps others out until it returns.
BeginUpdate(r) ==
    /\ pc[r] = "entering"
    /\ \E k \in wanted[r] \cap Registered :
          /\ computing[k] = Nobody
          /\ computing' = [computing EXCEPT ![k] = r]
    /\ left' = [left EXCEPT ![r] = Field]
    /\ pc' = [pc EXCEPT ![r] = "writing"]
    /\ UNCHANGED <<assets, creator, latest, request, response>>

\* applyRegistration, one field after the other.
Assign(r) ==
    /\ pc[r] = "writing"
    /\ \E f \in left[r], k \in wanted[r] :
          /\ assets' = [assets EXCEPT ![k][f] = r]
          /\ left' = [left EXCEPT ![r] = @ \ {f}]
    /\ UNCHANGED <<creator, computing, latest, pc, request, response>>

EndUpdate(r) ==
    /\ pc[r] = "writing"
    /\ left[r] = {}
    /\ \E k \in wanted[r] :
          /\ computing' = [computing EXCEPT ![k] = Nobody]
          /\ Holds(r, k)
    /\ UNCHANGED <<assets, creator, left>>

-----------------------------------------------------------------------------
(* find and findBySite                                                     *)

LookupArrives(r) ==
    /\ Arrives(r)
    /\ \E keys \in {{k} : k \in Key} \cup Site :
          /\ wanted' = [wanted EXCEPT ![r] = keys]
          /\ unvisited' = [unvisited EXCEPT ![r] = keys]
    /\ pc' = [pc EXCEPT ![r] = "visiting"]
    /\ UNCHANGED <<records, registers, left, found, unread, got>>

\* Broken variant: an asset that was never registered is found, too.
VisitUnchecked(r) ==
    /\ pc[r] = "visiting"
    /\ \E k \in unvisited[r] :
          /\ unvisited' = [unvisited EXCEPT ![r] = @ \ {k}]
          /\ found' = [found EXCEPT ![r] = @ \cup {k}]
    /\ UNCHANGED <<records, pc, request, left, unread, got>>

\* Broken variant: an asset that is being updated is passed over.
VisitTimidly(r) ==
    /\ pc[r] = "visiting"
    /\ \E k \in unvisited[r] :
          /\ unvisited' = [unvisited EXCEPT ![r] = @ \ {k}]
          /\ found' = [found EXCEPT ![r] =
                          @ \cup {j \in {k} \cap Registered :
                                     computing[j] = Nobody}]
    /\ UNCHANGED <<records, pc, request, left, unread, got>>

\* The map is looked at key by key, without a lock.  What a listing has
\* passed already is not noticed any more.
Visit(r) ==
    /\ pc[r] = "visiting"
    /\ \E k \in unvisited[r] :
          /\ unvisited' = [unvisited EXCEPT ![r] = @ \ {k}]
          /\ found' = [found EXCEPT ![r] = @ \cup ({k} \cap Registered)]
    /\ UNCHANGED <<records, pc, request, left, unread, got>>

EndVisit(r) ==
    /\ pc[r] = "visiting"
    /\ unvisited[r] = {}
    /\ unread' = [unread EXCEPT ![r] = found[r] \X Field]
    /\ pc' = [pc EXCEPT ![r] = "reading"]
    /\ UNCHANGED <<records, request, left, unvisited, found, got>>

-----------------------------------------------------------------------------
(* AssetResponse.from, of any request.                                     *)

ReadField(r) ==
    /\ pc[r] = "reading"
    /\ \E p \in unread[r] :
          /\ unread' = [unread EXCEPT ![r] = @ \ {p}]
          /\ got' = [got EXCEPT ![r] = @ \cup {<<p, assets[p[1]][p[2]]>>}]
    /\ UNCHANGED <<records, pc, request, left, unvisited, found>>

Respond(r) ==
    /\ pc[r] = "reading"
    /\ unread[r] = {}
    /\ pc' = [pc EXCEPT ![r] = "done"]
    /\ UNCHANGED <<records, request, left, response>>

-----------------------------------------------------------------------------
Handle(r) ==
    \/ RegisterArrives(r)
    \/ Create(r)
    \/ BeginUpdate(r)
    \/ Assign(r)
    \/ EndUpdate(r)
    \/ LookupArrives(r)
    \/ Visit(r)
    \/ EndVisit(r)
    \/ ReadField(r)
    \/ Respond(r)

Next == \E r \in Request : Handle(r)

Spec == Init /\ [][Next]_vars

-----------------------------------------------------------------------------
Maybe == Request \cup {Nobody}

TypeOK ==
    /\ Registered \subseteq Key
    /\ assets \in [Registered -> [Field -> Request]]
    /\ creator \in [Key -> Maybe]
    /\ computing \in [Key -> Maybe]
    /\ pc \in [Request -> {"new", "entering", "writing", "visiting",
                           "reading", "done"}]
    /\ registers \subseteq Request
    /\ wanted \in [Request -> SUBSET Key]
    /\ left \in [Request -> SUBSET Field]
    /\ unvisited \in [Request -> SUBSET Key]
    /\ found \in [Request -> SUBSET Registered]
    /\ unread \in [Request -> SUBSET (Key \X Field)]
    /\ got \in [Request -> SUBSET ((Key \X Field) \X Request)]
    /\ latest \in [Key -> Maybe]
    /\ known \in [Request -> SUBSET Registered]
    /\ stale \in [Request -> SUBSET Request]

\* Registration is an idempotent upsert (AssetController.java:28): two
\* registrations of one asset never leave a mixture of their declarations
\* behind.  While nobody is inside compute(), all the fields come from one
\* registration, the last one.
SettledAssetIsWhole ==
    \A k \in Registered :
        computing[k] = Nobody => \A f \in Field : assets[k][f] = latest[k]

\* "Identity and registration time are fixed once created" (Asset.java:10),
\* also when several requests register the same new asset at the same time.
RegistrationTimeFixed ==
    [][\A k \in Registered : k \in Registered' /\ creator'[k] = creator[k]]_vars

\* A response may mix registrations that run beside it, but no field in it
\* is older than the request: what a client was told once is not taken back.
ResponsesAreFresh ==
    \A r \in Request, p \in Key \X Field, q \in Request :
        <<p, q>> \in got[r] => q \notin stale[r]

\* A lookup finds every asset that was registered before it came in, even if
\* it is being registered again meanwhile.
KnownAssetsAreFound ==
    \A r \in Request :
        pc[r] \in {"reading", "done"} => wanted[r] \cap known[r] \subseteq found[r]

\* What the map shows of an asset while nobody is inside compute() for it,
\* and until a registration that is inside leaves: the one before it.
Shown ==
    [k \in Registered |->
        IF computing[k] = Nobody THEN assets[k]
        ELSE [f \in Field |-> latest[k]]]

Directory == INSTANCE AssetDirectory WITH
                shown  <- Shown,
                open   <- {p \in Request \X Key :
                              /\ pc[p[1]] \in {"entering", "writing"}
                              /\ p[2] \in wanted[p[1]]},
                served <- {r \in registers : pc[r] \in {"reading", "done"}}

\* Registration is atomic although its fields are assigned one by one: each
\* request takes effect once, before its response is read, as one upsert
\* that creates no second record (AssetRegistry.java:31).
DirectorySpec == Directory!DirSpec

=============================================================================
