--------------------------- MODULE RegistryProofs ---------------------------
(***************************************************************************)
(* The backend's registry for any number of requests, assets and fields.   *)
(* At its centre is ValuesInv: a field is declared either by the last      *)
(* registration that was completed or by the one that is inside compute(). *)
(***************************************************************************)
EXTENDS AssetRegistry, TLAPS

\* The types, and that a response is only read from assets in hand.
RTypeOK ==
    /\ TypeOK
    /\ \A r \in Request : unread[r] \subseteq found[r] \X Field

\* compute() and the requests agree on who is inside.
LockInv ==
    /\ \A k \in Key :
          computing[k] # Nobody =>
              /\ pc[computing[k]] = "writing"
              /\ wanted[computing[k]] = {k}
              /\ k \in Registered
    /\ \A r \in Request :
          /\ pc[r] = "entering" => \E k \in Key : wanted[r] = {k}
          /\ pc[r] = "writing" =>
                \E k \in Registered : wanted[r] = {k} /\ computing[k] = r

Applied == {"reading", "done"}

\* Where the fields of an asset come from.
ValuesInv ==
    /\ \A k \in Registered, f \in Field : assets[k][f] \in {latest[k], computing[k]}
    /\ \A r \in Request, k \in Key, f \in Field :
          pc[r] = "writing" /\ computing[k] = r /\ f \notin left[r]
              => assets[k][f] = r
    /\ \A k \in Key :
          latest[k] # Nobody =>
              pc[latest[k]] \in Applied /\ k \in wanted[latest[k]]

\* What was overwritten when a request came in is nowhere any more.
FreshInv ==
    /\ \A r \in Request : pc[r] = "new" => got[r] = {}
    /\ \A r \in Request : \A q \in stale[r] : pc[q] \in Applied
    /\ \A r \in Request, k \in Registered, f \in Field :
          assets[k][f] \notin stale[r]
    /\ ResponsesAreFresh

\* A lookup has found what was known of the keys that it has passed.
LookupInv(r) ==
    /\ pc[r] = "visiting" =>
          (wanted[r] \ unvisited[r]) \cap known[r] \subseteq found[r]
    /\ pc[r] \in Applied => wanted[r] \cap known[r] \subseteq found[r]

FoundInv == \A r \in Request : LookupInv(r)

-----------------------------------------------------------------------------
(* Types.                                                                  *)

LEMMA InitTypeOK == Init => RTypeOK
  BY SMT, NobodyAssumption DEF Init, RTypeOK, TypeOK, Registered, Maybe

LEMMA NextTypeOK == RTypeOK /\ LockInv /\ [Next]_vars => RTypeOK'
<1> USE NobodyAssumption, SiteAssumption
<1> SUFFICES ASSUME RTypeOK, LockInv, [Next]_vars PROVE RTypeOK'
    OBVIOUS
<1>0. CASE UNCHANGED vars
  BY <1>0, SMTT(30) DEF RTypeOK, TypeOK, Registered, Maybe, vars, records,
                        request, response
<1> SUFFICES ASSUME NEW r \in Request, Handle(r) PROVE RTypeOK'
    BY <1>0 DEF Next
<1>1. CASE RegisterArrives(r)
  BY <1>1, SMTT(30) DEF RTypeOK, TypeOK, Registered, Maybe, RegisterArrives,
        Arrives, Overwritten, records, response
<1>2. CASE Create(r)
  <2>1. PICK k \in wanted[r] \ Registered :
           /\ assets' = [j \in Registered \cup {k} |->
                            IF j = k THEN [f \in Field |-> r] ELSE assets[j]]
           /\ creator' = [creator EXCEPT ![k] = r]
           /\ Holds(r, k)
      BY <1>2 DEF Create
  <2>2. k \in Key
      BY DEF RTypeOK, TypeOK
  <2>3. Registered' = Registered \cup {k}
      BY <2>1 DEF Registered
  <2>4. assets' \in [Registered' -> [Field -> Request]]
      BY <2>1, <2>3 DEF RTypeOK, TypeOK
  <2> QED
      BY <1>2, <2>1, <2>2, <2>3, <2>4, SMTT(30)
      DEF RTypeOK, TypeOK, Maybe, Create, Holds, request
<1>3. CASE BeginUpdate(r)
  BY <1>3, SMTT(30) DEF RTypeOK, TypeOK, Registered, Maybe, BeginUpdate, request,
        response
<1>4. CASE Assign(r)
  <2>1. PICK f \in left[r], k \in wanted[r] :
           /\ assets' = [assets EXCEPT ![k][f] = r]
           /\ left' = [left EXCEPT ![r] = @ \ {f}]
      BY <1>4 DEF Assign
  <2>2. f \in Field /\ assets \in [Registered -> [Field -> Request]]
      BY DEF RTypeOK, TypeOK
  <2>3. Registered' = Registered /\ assets' \in [Registered -> [Field -> Request]]
      BY <2>1, <2>2, Zenon DEF Registered
  <2> QED
      BY <1>4, <2>1, <2>3, SMTT(30) DEF RTypeOK, TypeOK, Maybe, Assign, request, response
<1>5. CASE EndUpdate(r)
  <2>1. PICK k \in wanted[r] :
           computing' = [computing EXCEPT ![k] = Nobody] /\ Holds(r, k)
      BY <1>5 DEF EndUpdate
  <2>2. k \in Registered
      BY <1>5 DEF EndUpdate, LockInv
  <2>3. assets' = assets /\ Registered' = Registered
      BY <1>5 DEF EndUpdate, Registered
  <2>4. k \in Key /\ {k} \X Field \subseteq Key \X Field
      BY <2>2 DEF RTypeOK, TypeOK
  <2>5. /\ found' \in [Request -> SUBSET Registered]
        /\ unread' \in [Request -> SUBSET (Key \X Field)]
      BY <2>1, <2>2, <2>4 DEF RTypeOK, TypeOK, Holds
  <2>6. \A q \in Request : unread'[q] \subseteq found'[q] \X Field
      BY <2>1 DEF RTypeOK, TypeOK, Holds
  <2>7. /\ creator' = creator /\ left' = left
        /\ UNCHANGED <<registers, wanted, known, stale, unvisited, got>>
        /\ computing' \in [Key -> Maybe] /\ latest' \in [Key -> Maybe]
        /\ pc' \in [Request -> {"new", "entering", "writing", "visiting",
                                "reading", "done"}]
      BY <1>5, <2>1, <2>4 DEF EndUpdate, Holds, request, RTypeOK, TypeOK, Maybe
  <2> QED
      BY <2>3, <2>5, <2>6, <2>7 DEF RTypeOK, TypeOK
<1>6. CASE LookupArrives(r)
  BY <1>6, SMTT(30) DEF RTypeOK, TypeOK, Registered, Maybe, LookupArrives,
        Arrives, Overwritten, records
<1>7. CASE Visit(r)
  BY <1>7, SMTT(30) DEF RTypeOK, TypeOK, Registered, Maybe, Visit, records, request
<1>8. CASE EndVisit(r)
  BY <1>8, SMTT(30) DEF RTypeOK, TypeOK, Registered, Maybe, EndVisit, records,
        request
<1>9. CASE ReadField(r)
  <2>1. PICK p \in unread[r] :
           /\ unread' = [unread EXCEPT ![r] = @ \ {p}]
           /\ got' = [got EXCEPT ![r] = @ \cup {<<p, assets[p[1]][p[2]]>>}]
      BY <1>9 DEF ReadField
  <2>2. p \in Registered \X Field
      BY DEF RTypeOK, TypeOK
  <2>3. assets[p[1]][p[2]] \in Request /\ p \in Key \X Field
      BY <2>2 DEF RTypeOK, TypeOK
  <2> QED
      BY <1>9, <2>1, <2>3, SMTT(30)
      DEF RTypeOK, TypeOK, Registered, Maybe, ReadField, records, request
<1>10. CASE Respond(r)
  BY <1>10, SMTT(30) DEF RTypeOK, TypeOK, Registered, Maybe, Respond, records,
        request, response
<1> QED
  BY <1>1, <1>2, <1>3, <1>4, <1>5, <1>6, <1>7, <1>8, <1>9, <1>10 DEF Handle

-----------------------------------------------------------------------------
(* The lock of compute().                                                  *)

LEMMA InitLock == Init => LockInv
  BY DEF Init, LockInv

LEMMA NextLock == RTypeOK /\ LockInv /\ [Next]_vars => LockInv'
<1> USE NobodyAssumption
<1> SUFFICES ASSUME RTypeOK, LockInv, [Next]_vars PROVE LockInv'
    OBVIOUS
<1>0. CASE UNCHANGED vars
  BY <1>0 DEF LockInv, Registered, vars, records, request, response
<1> SUFFICES ASSUME NEW r \in Request, Handle(r) PROVE LockInv'
    BY <1>0 DEF Next
<1> USE DEF RTypeOK, TypeOK, Maybe
<1>1. CASE RegisterArrives(r)
  BY <1>1, SMTT(30) DEF LockInv, Registered, RegisterArrives, Arrives, records
<1>2. CASE Create(r)
  <2>1. PICK k \in wanted[r] \ Registered :
           /\ computing[k] = Nobody
           /\ assets' = [j \in Registered \cup {k} |->
                            IF j = k THEN [f \in Field |-> r] ELSE assets[j]]
           /\ pc' = [pc EXCEPT ![r] = "reading"]
      BY <1>2 DEF Create, Holds
  <2>2. Registered' = Registered \cup {k}
      BY <2>1 DEF Registered
  <2> QED
      BY <1>2, <2>1, <2>2, SMTT(30) DEF LockInv, Create, Holds, request
<1>3. CASE BeginUpdate(r)
  <2>1. PICK k \in wanted[r] \cap Registered :
           /\ computing[k] = Nobody
           /\ computing' = [computing EXCEPT ![k] = r]
      BY <1>3 DEF BeginUpdate
  <2>2. wanted[r] = {k} /\ k \in Key
      BY <1>3, <2>1 DEF BeginUpdate, LockInv
  <2>3. /\ pc' = [pc EXCEPT ![r] = "writing"]
        /\ wanted' = wanted
        /\ Registered' = Registered
        /\ pc[r] = "entering"
      BY <1>3 DEF BeginUpdate, request, Registered
  <2>4. ASSUME NEW j \in Key, computing'[j] # Nobody
        PROVE  /\ pc'[computing'[j]] = "writing"
               /\ wanted'[computing'[j]] = {j}
               /\ j \in Registered'
    <3>1. CASE j = k
      BY <3>1, <2>1, <2>2, <2>3
    <3>2. CASE j # k
      <4>1. computing'[j] = computing[j] /\ computing[j] \in Request
          BY <3>2, <2>1, <2>4
      <4>2. pc[computing[j]] = "writing" /\ computing[j] # r
          BY <4>1, <2>3, <2>4 DEF LockInv
      <4> QED
          BY <4>1, <4>2, <2>3, <2>4 DEF LockInv
    <3> QED
      BY <3>1, <3>2
  <2>5. ASSUME NEW q \in Request
        PROVE  /\ pc'[q] = "entering" => \E j \in Key : wanted'[q] = {j}
               /\ pc'[q] = "writing" =>
                     \E j \in Registered' : wanted'[q] = {j} /\ computing'[j] = q
    <3>1. CASE q = r
      BY <3>1, <2>1, <2>2, <2>3
    <3>2. CASE q # r
      <4>1. pc'[q] = pc[q]
          BY <3>2, <2>3
      <4>2. \A j \in Registered : computing[j] = q => computing'[j] = q
          BY <2>1
      <4> QED
          BY <4>1, <4>2, <2>3 DEF LockInv
    <3> QED
      BY <3>1, <3>2
  <2> QED
      BY <2>4, <2>5 DEF LockInv
<1>4. CASE Assign(r)
  <2>1. Registered' = Registered
      BY <1>4, Zenon DEF Assign, Registered
  <2> QED
      BY <1>4, <2>1 DEF LockInv, Assign, request
<1>5. CASE EndUpdate(r)
  <2>1. PICK k \in wanted[r] :
           /\ computing' = [computing EXCEPT ![k] = Nobody]
           /\ pc' = [pc EXCEPT ![r] = "reading"]
      BY <1>5 DEF EndUpdate, Holds
  <2>2. k \in Registered /\ wanted[r] = {k} /\ computing[k] = r
      BY <1>5 DEF EndUpdate, LockInv
  <2>3. wanted' = wanted /\ Registered' = Registered
      BY <1>5 DEF EndUpdate, Holds, request, Registered
  <2>4. ASSUME NEW j \in Key, computing'[j] # Nobody
        PROVE  /\ pc'[computing'[j]] = "writing"
               /\ wanted'[computing'[j]] = {j}
               /\ j \in Registered'
    <3>1. j # k /\ computing'[j] = computing[j] /\ computing[j] \in Request
        BY <2>1, <2>2, <2>4
    <3>2. wanted[computing[j]] = {j}
        BY <3>1, <2>4 DEF LockInv
    <3>3. computing[j] # r
        BY <3>1, <3>2, <2>2
    <3> QED
        BY <3>1, <3>2, <3>3, <2>1, <2>3, <2>4 DEF LockInv
  <2>5. ASSUME NEW q \in Request
        PROVE  /\ pc'[q] = "entering" => \E j \in Key : wanted'[q] = {j}
               /\ pc'[q] = "writing" =>
                     \E j \in Registered' : wanted'[q] = {j} /\ computing'[j] = q
    <3>1. CASE q = r
      BY <3>1, <2>1
    <3>2. CASE q # r
      <4>1. pc'[q] = pc[q]
          BY <3>2, <2>1
      <4>2. \A j \in Registered : computing[j] = q => computing'[j] = q
          BY <3>2, <2>1, <2>2
      <4> QED
          BY <4>1, <4>2, <2>3 DEF LockInv
    <3> QED
      BY <3>1, <3>2
  <2> QED
      BY <2>4, <2>5 DEF LockInv
<1>6. CASE LookupArrives(r)
  BY <1>6, SMTT(30) DEF LockInv, Registered, LookupArrives, Arrives, records
<1>7. CASE Visit(r)
  BY <1>7 DEF LockInv, Registered, Visit, records, request
<1>8. CASE EndVisit(r)
  BY <1>8, SMTT(30) DEF LockInv, Registered, EndVisit, records, request
<1>9. CASE ReadField(r)
  BY <1>9 DEF LockInv, Registered, ReadField, records, request
<1>10. CASE Respond(r)
  BY <1>10, SMTT(30) DEF LockInv, Registered, Respond, records, request
<1> QED
  BY <1>1, <1>2, <1>3, <1>4, <1>5, <1>6, <1>7, <1>8, <1>9, <1>10 DEF Handle

-----------------------------------------------------------------------------
(* Values.                                                                 *)

LEMMA InitValues == Init => ValuesInv
  BY DEF Init, ValuesInv, Registered

LEMMA NextValues ==
    RTypeOK /\ LockInv /\ ValuesInv /\ [Next]_vars => ValuesInv'
<1> USE NobodyAssumption
<1> SUFFICES ASSUME RTypeOK, LockInv, ValuesInv, [Next]_vars PROVE ValuesInv'
    OBVIOUS
<1>0. CASE UNCHANGED vars
  BY <1>0 DEF ValuesInv, Applied, Registered, vars, records, request, response
<1> SUFFICES ASSUME NEW r \in Request, Handle(r) PROVE ValuesInv'
    BY <1>0 DEF Next
<1> USE DEF RTypeOK, TypeOK, Maybe, Applied
<1>1. CASE RegisterArrives(r)
  BY <1>1, SMTT(30) DEF ValuesInv, Registered, RegisterArrives, Arrives, records
<1>2. CASE Create(r)
  <2>1. PICK k \in wanted[r] \ Registered :
           /\ computing[k] = Nobody
           /\ assets' = [j \in Registered \cup {k} |->
                            IF j = k THEN [f \in Field |-> r] ELSE assets[j]]
           /\ Holds(r, k)
      BY <1>2 DEF Create
  <2>2. /\ Registered' = Registered \cup {k}
        /\ \A f \in Field : assets'[k][f] = r
        /\ \A j \in Registered : assets'[j] = assets[j]
      BY <2>1 DEF Registered
  <2>3. /\ k \in Key /\ computing' = computing /\ left' = left
        /\ wanted' = wanted
        /\ pc[r] = "entering"
        /\ pc' = [pc EXCEPT ![r] = "reading"]
        /\ latest' = [latest EXCEPT ![k] = r]
      BY <1>2, <2>1 DEF Create, Holds, request
  <2>4. \A j \in Key : computing[j] # Nobody => j \in Registered
      BY DEF LockInv
  <2> QED
      BY <2>1, <2>2, <2>3, <2>4, SMTT(30) DEF ValuesInv
<1>3. CASE BeginUpdate(r)
  <2>1. PICK k \in wanted[r] \cap Registered :
           /\ computing[k] = Nobody
           /\ computing' = [computing EXCEPT ![k] = r]
      BY <1>3 DEF BeginUpdate
  <2>2. /\ k \in Key /\ pc[r] = "entering" /\ assets' = assets
        /\ Registered' = Registered /\ latest' = latest /\ wanted' = wanted
        /\ left' = [left EXCEPT ![r] = Field]
        /\ pc' = [pc EXCEPT ![r] = "writing"]
      BY <1>3, <2>1 DEF BeginUpdate, request, Registered
  <2>3. \A f \in Field : assets[k][f] \in Request
      BY <2>1
  <2> QED
      BY <2>1, <2>2, <2>3, SMTT(30) DEF ValuesInv
<1>4. CASE Assign(r)
  <2>1. PICK f \in left[r], k \in wanted[r] :
           /\ assets' = [assets EXCEPT ![k][f] = r]
           /\ left' = [left EXCEPT ![r] = @ \ {f}]
      BY <1>4 DEF Assign
  <2>2. k \in Registered /\ computing[k] = r /\ f \in Field
      BY <1>4 DEF Assign, LockInv
  <2>3. /\ Registered' = Registered
        /\ \A j \in Registered, g \in Field :
              assets'[j][g] = IF j = k /\ g = f THEN r ELSE assets[j][g]
      BY <2>1, <2>2 DEF Registered
  <2>4. /\ computing' = computing /\ latest' = latest /\ pc' = pc
        /\ wanted' = wanted
      BY <1>4 DEF Assign, request
  <2>5. \A j \in Key : computing[j] # Nobody => j \in Registered
      BY DEF LockInv
  <2>6. \A j \in Registered', g \in Field : assets'[j][g] \in {latest'[j], computing'[j]}
      BY <2>2, <2>3, <2>4 DEF ValuesInv
  <2>7. ASSUME NEW q \in Request, NEW j \in Key, NEW g \in Field,
               pc'[q] = "writing", computing'[j] = q, g \notin left'[q]
        PROVE  assets'[j][g] = q
    <3>1. j \in Registered
        BY <2>4, <2>5, <2>7
    <3>2. CASE q = r /\ g = f
      <4>1. j = k
        <5>1. computing[j] = r /\ r # Nobody
            BY <3>2, <2>4, <2>7
        <5>2. wanted[r] = {j} /\ k \in wanted[r]
            BY <5>1, <2>1 DEF LockInv
        <5> QED
            BY <5>2
      <4> QED
          BY <3>1, <3>2, <4>1, <2>3
    <3>3. CASE ~(q = r /\ g = f)
      <4>1. g \notin left[q]
          BY <3>3, <2>1, <2>7
      <4>2. assets[j][g] = q
          BY <4>1, <2>4, <2>7 DEF ValuesInv
      <4>3. ~(j = k /\ g = f)
          BY <3>3, <2>2, <2>4, <2>7
      <4> QED
          BY <3>1, <4>2, <4>3, <2>3
    <3> QED
      BY <3>2, <3>3
  <2> QED
      BY <2>4, <2>6, <2>7 DEF ValuesInv
<1>5. CASE EndUpdate(r)
  <2>1. PICK k \in wanted[r] :
           computing' = [computing EXCEPT ![k] = Nobody] /\ Holds(r, k)
      BY <1>5 DEF EndUpdate
  <2>2. k \in Registered /\ computing[k] = r /\ k \in Key
      BY <1>5 DEF EndUpdate, LockInv
  <2>3. /\ wanted' = wanted /\ left' = left /\ assets' = assets
        /\ Registered' = Registered
        /\ pc[r] = "writing" /\ left[r] = {}
        /\ pc' = [pc EXCEPT ![r] = "reading"]
        /\ latest' = [latest EXCEPT ![k] = r]
      BY <1>5, <2>1 DEF EndUpdate, Holds, request, Registered
  <2>4. \A f \in Field : assets[k][f] = r
      BY <2>2, <2>3 DEF ValuesInv
  <2> QED
      BY <2>1, <2>2, <2>3, <2>4, SMTT(30) DEF ValuesInv
<1>6. CASE LookupArrives(r)
  BY <1>6, SMTT(30) DEF ValuesInv, Registered, LookupArrives, Arrives, records
<1>7. CASE Visit(r)
  BY <1>7 DEF ValuesInv, Registered, Visit, records, request
<1>8. CASE EndVisit(r)
  BY <1>8, SMTT(30) DEF ValuesInv, Registered, EndVisit, records, request
<1>9. CASE ReadField(r)
  BY <1>9 DEF ValuesInv, Registered, ReadField, records, request
<1>10. CASE Respond(r)
  BY <1>10, SMTT(30) DEF ValuesInv, Registered, Respond, records, request
<1> QED
  BY <1>1, <1>2, <1>3, <1>4, <1>5, <1>6, <1>7, <1>8, <1>9, <1>10 DEF Handle

-----------------------------------------------------------------------------
(* What requests learn.                                                    *)

LEMMA InitFresh == Init => FreshInv
  BY DEF Init, FreshInv, ResponsesAreFresh, Registered

\* An arriving request finds no field from a registration that it will hold
\* to be overwritten.
LEMMA NoneOverwritten ==
  ASSUME RTypeOK, LockInv, ValuesInv,
         NEW k \in Registered, NEW f \in Field
  PROVE  assets[k][f] \notin Overwritten
<1> USE DEF RTypeOK, TypeOK, Maybe, Applied
<1>1. k \in Key /\ assets[k][f] \in Request
    OBVIOUS
<1>2. assets[k][f] # Nobody
    BY <1>1, NobodyAssumption
<1>3. CASE assets[k][f] = latest[k]
  BY <1>1, <1>2, <1>3 DEF ValuesInv, Overwritten
<1>4. CASE assets[k][f] = computing[k]
  BY <1>1, <1>2, <1>4 DEF LockInv, Overwritten
<1> QED
  BY <1>3, <1>4 DEF ValuesInv

LEMMA NextFresh ==
    RTypeOK /\ LockInv /\ ValuesInv /\ FreshInv /\ [Next]_vars => FreshInv'
<1> SUFFICES ASSUME RTypeOK, LockInv, ValuesInv, FreshInv, [Next]_vars
             PROVE  FreshInv'
    OBVIOUS
<1>0. CASE UNCHANGED vars
  BY <1>0 DEF FreshInv, ResponsesAreFresh, Applied, Registered, vars, records,
              request, response
<1> SUFFICES ASSUME NEW r \in Request, Handle(r) PROVE FreshInv'
    BY <1>0 DEF Next
<1> USE DEF RTypeOK, TypeOK, Maybe, Applied
\* A registration that was applied stays so, and no request is new again.
<1>1. ASSUME NEW q \in Request
      PROVE  /\ pc[q] \in Applied => pc'[q] \in Applied
             /\ pc'[q] = "new" => pc[q] = "new" /\ q # r
  <2>1. CASE q # r
    BY <1>1, <2>1 DEF Handle, RegisterArrives, Arrives, Create, Holds,
       BeginUpdate, Assign, EndUpdate, LookupArrives, Visit, EndVisit,
       ReadField, Respond
  <2>2. CASE q = r
    <3>1. CASE RegisterArrives(r) \/ LookupArrives(r)
      BY <2>2, <3>1 DEF RegisterArrives, LookupArrives, Arrives
    <3>2. CASE Create(r) \/ BeginUpdate(r) \/ Assign(r) \/ EndUpdate(r)
      BY <2>2, <3>2 DEF Create, Holds, BeginUpdate, Assign, EndUpdate
    <3>3. CASE Visit(r) \/ EndVisit(r) \/ ReadField(r) \/ Respond(r)
      BY <2>2, <3>3 DEF Visit, EndVisit, ReadField, Respond
    <3>4. QED
      BY <3>1, <3>2, <3>3 DEF Handle
  <2> QED
    BY <2>1, <2>2
<1>2. CASE RegisterArrives(r) \/ LookupArrives(r)
  <2>1. /\ stale' = [stale EXCEPT ![r] = Overwritten]
        /\ got' = got /\ assets' = assets /\ Registered' = Registered
        /\ pc[r] = "new"
      BY <1>2 DEF RegisterArrives, LookupArrives, Arrives, records, response,
                  Registered
  <2>2. \A q \in Overwritten : q \in Request /\ pc[q] \in Applied
      BY DEF Overwritten
  <2>3. got[r] = {}
      BY <2>1 DEF FreshInv
  <2> QED
      BY <1>1, <2>1, <2>2, <2>3, NoneOverwritten DEF FreshInv, ResponsesAreFresh
<1>3. CASE Create(r)
  <2>1. PICK k \in wanted[r] \ Registered :
           assets' = [j \in Registered \cup {k} |->
                         IF j = k THEN [f \in Field |-> r] ELSE assets[j]]
      BY <1>3 DEF Create
  <2>2. /\ stale' = stale /\ got' = got /\ pc[r] = "entering"
        /\ Registered' = Registered \cup {k}
      BY <1>3, <2>1 DEF Create, Holds, request, Registered
  <2>3. \A q \in Request : r \notin stale[q]
      BY <2>2 DEF FreshInv
  <2>4. \A q \in Request, j \in Registered', f \in Field :
            assets'[j][f] \notin stale'[q]
      BY <2>1, <2>2, <2>3 DEF FreshInv
  <2> QED
      BY <1>1, <2>2, <2>4 DEF FreshInv, ResponsesAreFresh
<1>4. CASE Assign(r)
  <2>1. PICK f \in left[r], k \in wanted[r] :
           assets' = [assets EXCEPT ![k][f] = r]
      BY <1>4 DEF Assign
  <2>2. /\ stale' = stale /\ got' = got /\ pc[r] = "writing"
        /\ Registered' = Registered
      BY <1>4, <2>1 DEF Assign, request, response, Registered
  <2>3. \A q \in Request : r \notin stale[q]
      BY <2>2 DEF FreshInv
  <2>4. \A j \in Registered, g \in Field : assets'[j][g] \in {r, assets[j][g]}
      BY <2>1, <1>4 DEF Registered
  <2>5. \A q \in Request, j \in Registered', g \in Field :
            assets'[j][g] \notin stale'[q]
    <3> SUFFICES ASSUME NEW q \in Request, NEW j \in Registered, NEW g \in Field
                 PROVE  assets'[j][g] \notin stale[q]
        BY <2>2
    <3>1. assets[j][g] \notin stale[q] /\ r \notin stale[q]
        BY <2>3 DEF FreshInv
    <3> QED
        BY <3>1, <2>4
  <2> QED
      BY <1>1, <2>2, <2>5 DEF FreshInv, ResponsesAreFresh
<1>5. CASE ReadField(r)
  <2>1. PICK p \in unread[r] :
           got' = [got EXCEPT ![r] = @ \cup {<<p, assets[p[1]][p[2]]>>}]
      BY <1>5 DEF ReadField
  <2>2. /\ stale' = stale /\ assets' = assets /\ Registered' = Registered
        /\ pc' = pc /\ pc[r] = "reading"
      BY <1>5 DEF ReadField, records, request, Registered
  <2>3. p[1] \in Registered /\ p[2] \in Field
      BY <2>1
  <2>4. assets[p[1]][p[2]] \notin stale[r]
      BY <2>3 DEF FreshInv
  <2>5. ResponsesAreFresh'
      BY <2>1, <2>2, <2>4 DEF FreshInv, ResponsesAreFresh
  <2>6. \A q \in Request : pc'[q] = "new" => got'[q] = {}
      BY <2>1, <2>2 DEF FreshInv
  <2> QED
      BY <2>2, <2>5, <2>6 DEF FreshInv
<1>6. CASE \/ BeginUpdate(r) \/ EndUpdate(r) \/ Visit(r) \/ EndVisit(r)
           \/ Respond(r)
  <2>1. /\ stale' = stale /\ assets' = assets /\ got' = got
        /\ Registered' = Registered
      BY <1>6 DEF BeginUpdate, EndUpdate, Holds, Visit, EndVisit, Respond,
                  records, request, response, Registered
  <2> QED
      BY <1>1, <2>1 DEF FreshInv, ResponsesAreFresh
<1> QED
  BY <1>2, <1>3, <1>4, <1>5, <1>6 DEF Handle

LEMMA InitFound == Init => FoundInv
  BY DEF Init, FoundInv, LookupInv, Applied

LEMMA NextFound == RTypeOK /\ LockInv /\ FoundInv /\ [Next]_vars => FoundInv'
<1> SUFFICES ASSUME RTypeOK, LockInv, FoundInv, [Next]_vars PROVE FoundInv'
    OBVIOUS
<1>0. CASE UNCHANGED vars
  BY <1>0 DEF FoundInv, LookupInv, Applied, vars, records, request, response
<1> SUFFICES ASSUME NEW r \in Request, Handle(r), NEW q \in Request
             PROVE  LookupInv(q)'
    BY <1>0 DEF Next, FoundInv
<1> USE DEF RTypeOK, TypeOK, Maybe, Applied, LookupInv
<1>1. CASE q # r
  <2>1. /\ pc'[q] = pc[q] /\ wanted'[q] = wanted[q] /\ known'[q] = known[q]
        /\ unvisited'[q] = unvisited[q] /\ found'[q] = found[q]
    <3>1. CASE RegisterArrives(r) \/ LookupArrives(r)
      BY <1>1, <3>1 DEF RegisterArrives, LookupArrives, Arrives, response
    <3>2. CASE Create(r) \/ EndUpdate(r)
      <4>1. PICK k \in wanted[r] : Holds(r, k)
          BY <3>2 DEF Create, EndUpdate
      <4> QED
          BY <1>1, <4>1 DEF Holds, request
    <3>3. CASE BeginUpdate(r) \/ Assign(r)
      BY <1>1, <3>3 DEF BeginUpdate, Assign, request, response
    <3>4. CASE Visit(r) \/ EndVisit(r)
      BY <1>1, <3>4 DEF Visit, EndVisit, request
    <3>5. CASE ReadField(r) \/ Respond(r)
      BY <1>1, <3>5 DEF ReadField, Respond, request, response
    <3> QED
      BY <3>1, <3>2, <3>3, <3>4, <3>5 DEF Handle
  <2> QED
      BY <2>1 DEF FoundInv
<1>2. CASE q = r /\ (RegisterArrives(r) \/ BeginUpdate(r) \/ Assign(r))
  BY <1>2 DEF FoundInv, RegisterArrives, BeginUpdate, Assign, Arrives
<1>3. CASE q = r /\ (Create(r) \/ EndUpdate(r))
  <2>1. PICK k \in wanted[r] : Holds(r, k)
      BY <1>3 DEF Create, EndUpdate
  <2>2. wanted[r] = {k}
      BY <1>3 DEF LockInv, Create, EndUpdate
  <2> QED
      BY <1>3, <2>1, <2>2 DEF Holds, request
<1>4. CASE q = r /\ LookupArrives(r)
  BY <1>4, SMTT(30), SiteAssumption DEF LookupArrives, Arrives
<1>5. CASE q = r /\ Visit(r)
  BY <1>5 DEF FoundInv, Visit, request
<1>6. CASE q = r /\ EndVisit(r)
  BY <1>6 DEF FoundInv, EndVisit, request
<1>7. CASE q = r /\ (ReadField(r) \/ Respond(r))
  BY <1>7 DEF FoundInv, ReadField, Respond, request, response
<1> QED
  BY <1>1, <1>2, <1>3, <1>4, <1>5, <1>6, <1>7 DEF Handle

-----------------------------------------------------------------------------
RegistryInv == RTypeOK /\ LockInv /\ ValuesInv /\ FreshInv /\ FoundInv

LEMMA RegistryInvariant == Spec => []RegistryInv
<1>1. Init => RegistryInv
  BY InitTypeOK, InitLock, InitValues, InitFresh, InitFound DEF RegistryInv
<1>2. RegistryInv /\ [Next]_vars => RegistryInv'
  BY NextTypeOK, NextLock, NextValues, NextFresh, NextFound DEF RegistryInv
<1> QED
  BY <1>1, <1>2, PTL DEF Spec

\* The variables keep their types, for any number of requests, assets and
\* fields: in particular, whatever was found is registered.
THEOREM RegistryTypeCorrect == Spec => []TypeOK
<1>1. RegistryInv => TypeOK
  BY DEF RegistryInv, RTypeOK
<1> QED
  BY <1>1, RegistryInvariant, PTL

\* However registrations, lookups and listings overlap: once compute() is
\* left an asset is what its last registration declared, a response has
\* nothing older than its request, and a lookup overlooks nothing.
THEOREM RegistrySafe ==
    Spec => [](SettledAssetIsWhole /\ ResponsesAreFresh /\ KnownAssetsAreFound)
<1>1. RegistryInv => SettledAssetIsWhole
  <2> SUFFICES ASSUME RegistryInv, NEW k \in Registered, computing[k] = Nobody,
                      NEW f \in Field
               PROVE  assets[k][f] = latest[k]
      BY DEF SettledAssetIsWhole
  <2>1. assets[k][f] # Nobody
      BY NobodyAssumption DEF RegistryInv, RTypeOK, TypeOK
  <2> QED
      BY <2>1 DEF RegistryInv, ValuesInv
<1>2. RegistryInv => ResponsesAreFresh /\ KnownAssetsAreFound
  BY DEF RegistryInv, FreshInv, FoundInv, LookupInv, KnownAssetsAreFound, Applied
<1> QED
  BY <1>1, <1>2, RegistryInvariant, PTL

\* A record is created once (Asset.java:10): its identity and the time of its
\* registration never change, however many requests register it at once.
THEOREM RegisteredOnce == Spec => RegistrationTimeFixed
<1>1. RegistryInv /\ [Next]_vars =>
          [\A k \in Registered : k \in Registered' /\ creator'[k] = creator[k]]_vars
  <2> SUFFICES ASSUME RegistryInv, NEW r \in Request, Handle(r),
                      NEW k \in Registered
               PROVE  k \in Registered' /\ creator'[k] = creator[k]
      BY DEF Next
  <2> USE DEF RegistryInv, RTypeOK, TypeOK
  <2>1. CASE Create(r)
    BY <2>1 DEF Create, Registered
  <2>2. CASE Assign(r)
    BY <2>2 DEF Assign, Registered
  <2>3. CASE \/ RegisterArrives(r) \/ BeginUpdate(r) \/ EndUpdate(r)
             \/ LookupArrives(r) \/ Visit(r) \/ EndVisit(r) \/ ReadField(r)
             \/ Respond(r)
    BY <2>3 DEF RegisterArrives, BeginUpdate, EndUpdate, LookupArrives, Visit,
                EndVisit, ReadField, Respond, records, Registered
  <2> QED
    BY <2>1, <2>2, <2>3 DEF Handle
<1> QED
  BY <1>1, RegistryInvariant, PTL DEF Spec, RegistrationTimeFixed

-----------------------------------------------------------------------------
(* The registry implements AssetDirectory.                                 *)

\* What a request is for, as far as it is told by how far it is.
RolesInv ==
    \A r \in Request :
        /\ pc[r] \in {"new", "visiting"} => r \notin registers
        /\ pc[r] \in {"entering", "writing"} => r \in registers

LEMMA NextRoles == RTypeOK /\ RolesInv /\ [Next]_vars => RolesInv'
<1> SUFFICES ASSUME RTypeOK, RolesInv, [Next]_vars PROVE RolesInv'
    OBVIOUS
<1> USE DEF RTypeOK, TypeOK, RolesInv
<1>0. CASE UNCHANGED vars
  BY <1>0 DEF vars, request
<1> SUFFICES ASSUME NEW r \in Request, Handle(r) PROVE RolesInv'
    BY <1>0 DEF Next
<1>1. CASE RegisterArrives(r)
  BY <1>1 DEF RegisterArrives, Arrives
<1>2. CASE Create(r) \/ EndUpdate(r)
  <2>1. PICK k \in wanted[r] : Holds(r, k)
      BY <1>2 DEF Create, EndUpdate
  <2> QED
      BY <2>1 DEF Holds, request
<1>3. CASE BeginUpdate(r)
  BY <1>3 DEF BeginUpdate, request
<1>4. CASE LookupArrives(r)
  BY <1>4 DEF LookupArrives, Arrives
<1>5. CASE EndVisit(r) \/ Respond(r)
  BY <1>5 DEF EndVisit, Respond, request
<1>6. CASE Assign(r) \/ Visit(r) \/ ReadField(r)
  BY <1>6 DEF Assign, Visit, ReadField, request
<1> QED
  BY <1>1, <1>2, <1>3, <1>4, <1>5, <1>6 DEF Handle

\* What the refinement mapping makes of open and served.
Open == {p \in Request \X Key :
            pc[p[1]] \in {"entering", "writing"} /\ p[2] \in wanted[p[1]]}

Served == {r \in registers : pc[r] \in Applied}

\* A registration moves from open to served in the step that ends compute().
LEMMA HoldsServes ==
    ASSUME RTypeOK, RolesInv, NEW r \in Request, NEW k \in Key,
           wanted[r] = {k}, pc[r] \in {"entering", "writing"}, Holds(r, k)
    PROVE  /\ <<r, k>> \in Open
           /\ Open' = Open \ {<<r, k>>}
           /\ Served' = Served \cup {r}
<1> USE DEF RTypeOK, TypeOK
<1>1. /\ wanted' = wanted /\ registers' = registers
      /\ \A q \in Request : pc'[q] = IF q = r THEN "reading" ELSE pc[q]
  BY DEF Holds, request
<1>2. \A p \in Request \X Key : p[1] = r /\ p[2] \in wanted[p[1]] <=> p = <<r, k>>
  OBVIOUS
<1>3. <<r, k>> \in Open
  BY DEF Open
<1>4. Open' = Open \ {<<r, k>>}
  <2>1. ASSUME NEW p \in Request \X Key
        PROVE  p \in Open' <=> p \in Open /\ p # <<r, k>>
    <3>1. CASE p[1] = r
      BY <1>1, <1>2, <3>1 DEF Open
    <3>2. CASE p[1] # r
      BY <1>1, <3>2 DEF Open
    <3> QED
      BY <3>1, <3>2
  <2> QED
    BY <2>1 DEF Open
<1>5. Served' = Served \cup {r}
  BY <1>1 DEF Served, Applied, RolesInv
<1> QED
  BY <1>3, <1>4, <1>5

LEMMA UpsertParts ==
    ASSUME NEW r \in Request, NEW k \in Key,
           <<r, k>> \in Open,
           Shown' = [j \in DOMAIN Shown \cup {k} |->
                        IF j = k THEN [f \in Field |-> r] ELSE Shown[j]],
           creator' = IF k \in DOMAIN Shown THEN creator
                      ELSE [creator EXCEPT ![k] = r],
           Open' = Open \ {<<r, k>>},
           Served' = Served \cup {r}
    PROVE  Directory!Upsert(r, k)
  BY DEF Directory!Upsert, Open, Served, Applied

LEMMA RegistryStepIsDirectoryStep ==
    ASSUME RegistryInv, RolesInv, [Next]_vars
    PROVE  \/ \E r \in Request, k \in Key :
                 Directory!Arrive(r, k) \/ Directory!Upsert(r, k)
           \/ UNCHANGED <<Shown, creator, Open, Served>>
<1> USE DEF RegistryInv, RTypeOK, TypeOK, Maybe, Applied
<1> DEFINE Goal == \/ \E r \in Request, k \in Key :
                         Directory!Arrive(r, k) \/ Directory!Upsert(r, k)
                   \/ UNCHANGED <<Shown, creator, Open, Served>>
<1>0. CASE UNCHANGED vars
  BY <1>0 DEF Shown, Registered, Open, Served, vars, records, request
<1> SUFFICES ASSUME NEW r \in Request, Handle(r) PROVE Goal
    BY <1>0 DEF Next
<1>1. CASE RegisterArrives(r)
  <2>1. PICK k \in Key : wanted' = [wanted EXCEPT ![r] = {k}]
      BY <1>1 DEF RegisterArrives
  <2>2. /\ UNCHANGED <<assets, creator, computing, latest>>
        /\ registers' = registers \cup {r} /\ pc[r] = "new"
        /\ \A q \in Request : pc'[q] = IF q = r THEN "entering" ELSE pc[q]
      BY <1>1 DEF RegisterArrives, Arrives, records
  <2>3. UNCHANGED <<Shown, creator>>
      BY <2>2 DEF Shown, Registered
  <2>4. r \notin Served /\ (\A p \in Open : p[1] # r)
      BY <2>2 DEF Served, Open
  <2>5. Served' = Served
      BY <2>2 DEF Served, RolesInv
  <2>6. Open' = Open \cup {<<r, k>>}
    <3>1. ASSUME NEW p \in Request \X Key
          PROVE  p \in Open' <=> p \in Open \/ p = <<r, k>>
      <4>1. CASE p[1] = r
        BY <2>1, <2>2, <4>1 DEF Open
      <4>2. CASE p[1] # r
        BY <2>1, <2>2, <4>2 DEF Open
      <4> QED
        BY <4>1, <4>2
    <3> QED
      BY <3>1 DEF Open
  <2> QED
      BY <2>3, <2>4, <2>5, <2>6 DEF Directory!Arrive, Open, Served
<1>2. CASE Create(r)
  <2>1. PICK k \in wanted[r] \ Registered :
           /\ computing[k] = Nobody
           /\ assets' = [j \in Registered \cup {k} |->
                            IF j = k THEN [f \in Field |-> r] ELSE assets[j]]
           /\ creator' = [creator EXCEPT ![k] = r]
           /\ Holds(r, k)
      BY <1>2 DEF Create
  <2>2. /\ k \in Key /\ wanted[r] = {k}
        /\ pc[r] = "entering" /\ computing' = computing
        /\ latest' = [latest EXCEPT ![k] = r]
    <3>1. pc[r] = "entering" /\ computing' = computing
        BY <1>2 DEF Create
    <3>2. k \in Key /\ wanted[r] = {k}
        BY <2>1, <3>1 DEF LockInv
    <3> QED
        BY <2>1, <3>1, <3>2 DEF Holds
  <2>3. Registered' = Registered \cup {k}
      BY <2>1 DEF Registered
  <2>4. Shown' = [j \in Registered \cup {k} |->
                     IF j = k THEN [f \in Field |-> r] ELSE Shown[j]]
      BY <2>1, <2>2, <2>3 DEF Shown
  <2>5. DOMAIN Shown = Registered
      BY DEF Shown
  <2>6. creator' = IF k \in DOMAIN Shown THEN creator
                   ELSE [creator EXCEPT ![k] = r]
      BY <2>1, <2>5
  <2>7. /\ <<r, k>> \in Open /\ Open' = Open \ {<<r, k>>}
        /\ Served' = Served \cup {r}
      BY <2>1, <2>2, HoldsServes
  <2> QED
      BY <2>2, <2>4, <2>5, <2>6, <2>7, UpsertParts
<1>3. CASE BeginUpdate(r)
  <2>1. PICK k \in wanted[r] \cap Registered :
           computing[k] = Nobody /\ computing' = [computing EXCEPT ![k] = r]
      BY <1>3 DEF BeginUpdate
  <2>2. /\ UNCHANGED <<assets, creator, latest, wanted, registers>>
        /\ Registered' = Registered /\ pc[r] = "entering"
        /\ \A q \in Request : pc'[q] = IF q = r THEN "writing" ELSE pc[q]
      BY <1>3 DEF BeginUpdate, request, Registered
  <2>3. assets[k] = [f \in Field |-> latest[k]]
    <3>1. assets[k] \in [Field -> Request]
        BY <2>1
    <3>2. \A f \in Field : assets[k][f] = latest[k]
        BY <2>1, <3>1, NobodyAssumption DEF ValuesInv
    <3> QED
        BY <3>1, <3>2
  <2>4. Shown' = Shown
      BY <2>1, <2>2, <2>3 DEF Shown
  <2>5. Open' = Open /\ Served' = Served
      BY <2>2 DEF Open, Served
  <2> QED
      BY <2>2, <2>4, <2>5
<1>4. CASE Assign(r)
  <2>1. PICK f \in left[r], k \in wanted[r] :
           assets' = [assets EXCEPT ![k][f] = r]
      BY <1>4 DEF Assign
  <2>2. computing[k] = r /\ r # Nobody
      BY <1>4, NobodyAssumption DEF Assign, LockInv
  <2>3. UNCHANGED <<creator, computing, latest, pc, registers, wanted>>
      BY <1>4 DEF Assign, request
  <2>4. Registered' = Registered /\ \A j \in Registered \ {k} : assets'[j] = assets[j]
      BY <2>1 DEF Registered
  <2>5. Shown' = Shown
      BY <2>2, <2>3, <2>4 DEF Shown
  <2> QED
      BY <2>3, <2>5 DEF Open, Served
<1>5. CASE EndUpdate(r)
  <2>1. PICK k \in wanted[r] :
           computing' = [computing EXCEPT ![k] = Nobody] /\ Holds(r, k)
      BY <1>5 DEF EndUpdate
  <2>2. /\ k \in Registered /\ k \in Key /\ computing[k] = r /\ wanted[r] = {k}
        /\ pc[r] = "writing" /\ left[r] = {}
        /\ UNCHANGED <<assets, creator>> /\ Registered' = Registered
        /\ latest' = [latest EXCEPT ![k] = r]
    <3>1. /\ pc[r] = "writing" /\ left[r] = {}
          /\ UNCHANGED <<assets, creator>> /\ Registered' = Registered
        BY <1>5 DEF EndUpdate, Registered
    <3>2. /\ k \in Registered /\ k \in Key /\ computing[k] = r
          /\ wanted[r] = {k}
        BY <2>1, <3>1 DEF LockInv
    <3> QED
        BY <2>1, <3>1, <3>2 DEF Holds
  <2>3. assets[k] = [f \in Field |-> r]
    <3>1. assets[k] \in [Field -> Request]
        BY <2>2
    <3>2. \A f \in Field : assets[k][f] = r
        BY <2>2 DEF ValuesInv
    <3> QED
        BY <3>1, <3>2
  <2>4. Shown' = [j \in Registered \cup {k} |->
                     IF j = k THEN [f \in Field |-> r] ELSE Shown[j]]
    <3>1. Registered \cup {k} = Registered
        BY <2>2
    <3>2. ASSUME NEW j \in Registered
          PROVE  (IF computing'[j] = Nobody THEN assets'[j]
                  ELSE [f \in Field |-> latest'[j]])
                 = IF j = k THEN [f \in Field |-> r] ELSE Shown[j]
      <4>1. CASE j = k
        BY <2>1, <2>2, <2>3, <4>1
      <4>2. CASE j # k
        BY <2>1, <2>2, <4>2 DEF Shown
      <4> QED
        BY <4>1, <4>2
    <3> QED
        BY <2>2, <3>1, <3>2 DEF Shown
  <2>5. DOMAIN Shown = Registered
      BY DEF Shown
  <2>6. creator' = IF k \in DOMAIN Shown THEN creator
                   ELSE [creator EXCEPT ![k] = r]
      BY <2>2, <2>5
  <2>7. /\ <<r, k>> \in Open /\ Open' = Open \ {<<r, k>>}
        /\ Served' = Served \cup {r}
      BY <2>1, <2>2, HoldsServes
  <2> QED
      BY <2>2, <2>4, <2>5, <2>6, <2>7, UpsertParts
<1>6. CASE LookupArrives(r)
  <2>1. /\ UNCHANGED <<assets, creator, computing, latest, registers>>
        /\ pc[r] = "new" /\ pc' = [pc EXCEPT ![r] = "visiting"]
        /\ \A q \in Request : q # r => wanted'[q] = wanted[q]
      BY <1>6 DEF LookupArrives, Arrives, records
  <2>2. Open' = Open /\ Served' = Served
    <3>1. \A p \in Request \X Key : p \in Open' <=> p \in Open
        BY <2>1 DEF Open
    <3>2. Served' = Served
        BY <2>1 DEF Served
    <3> QED
        BY <3>1, <3>2 DEF Open
  <2> QED
      BY <2>1, <2>2 DEF Shown, Registered
<1>7. CASE EndVisit(r) \/ Respond(r)
  <2>1. /\ UNCHANGED <<assets, creator, computing, latest, registers, wanted>>
        /\ \A q \in Request : q # r => pc'[q] = pc[q]
        /\ \/ pc[r] = "visiting" /\ pc'[r] = "reading"
           \/ pc[r] = "reading" /\ pc'[r] = "done"
      BY <1>7 DEF EndVisit, Respond, records, request
  <2>2. Open' = Open
    <3>1. \A p \in Request \X Key : p \in Open' <=> p \in Open
        BY <2>1 DEF Open
    <3> QED
        BY <3>1 DEF Open
  <2>3. Served' = Served
      BY <2>1 DEF Served, RolesInv
  <2> QED
      BY <2>1, <2>2, <2>3 DEF Shown, Registered
<1>8. CASE Visit(r) \/ ReadField(r)
  BY <1>8 DEF Visit, ReadField, records, request, Shown, Registered, Open, Served
<1> QED
  BY <1>1, <1>2, <1>3, <1>4, <1>5, <1>6, <1>7, <1>8 DEF Handle

\* Registration is an atomic upsert that takes effect once between request
\* and response (AssetRegistry.java:31), for any number of requests: the
\* lock of compute() hides the assignments one by one from other
\* registrations, and nobody creates a record that is there.
THEOREM RegistryImplementsDirectory == Spec => DirectorySpec
<1>1. Init => RolesInv /\ Directory!DirInit
  BY DEF Init, RolesInv, Directory!DirInit, Shown, Registered
<1>2. ASSUME RegistryInv, RolesInv, [Next]_vars
      PROVE  [Directory!DirNext]_Directory!directoryVars
  BY <1>2, RegistryStepIsDirectoryStep
     DEF Directory!DirNext, Directory!directoryVars, Open, Served, Applied
<1>3. RegistryInv /\ RolesInv /\ [Next]_vars => RolesInv'
  BY NextRoles DEF RegistryInv
<1> QED
  BY <1>1, <1>2, <1>3, RegistryInvariant, PTL
     DEF Spec, DirectorySpec, Directory!DirSpec

=============================================================================
