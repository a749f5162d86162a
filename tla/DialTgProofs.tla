---------------------------- MODULE DialTgProofs ----------------------------
(***************************************************************************)
(* Proofs about DialTg, for every set of names, numbers and users, every   *)
(* contact list, and every setting of the waits.                           *)
(***************************************************************************)
EXTENDS DialTg, TLAPS

(* What the flood control rests on: the block covers every demand made in  *)
(* answer to a dial query, and such a query is outstanding only once the   *)
(* block is over.                                                          *)
BlockInv ==
    /\ embargo <= block_until
    /\ query \in {"lookup", "createCall"} => block_until <= now

(* What the caches rest on: an entry is a pair TDLib reported, a lookup is *)
(* only made for a name or a number, and it is the right cache's.          *)
CacheInv ==
    /\ \A n \in Usernames :
          username_cache[n] # None => <<n, username_cache[n]>> \in told
    /\ \A p \in Phones :
          phone_cache[p] # None => <<p, phone_cache[p]>> \in told
    /\ query = "lookup" => ext.kind \in {"username", "phone"}

Inv == TypeOK /\ BlockInv /\ CacheInv /\ CallsWhoWasAsked

-----------------------------------------------------------------------------
(* emplace returns a cache of the same type. *)
LEMMA EmplacedType ==
    ASSUME NEW K, NEW cache \in [K -> Users \cup {None}], NEW key,
           NEW id \in Users
    PROVE  Emplaced(cache, key, id) \in [K -> Users \cup {None}]
  BY DEF Emplaced

(* emplace changes no entry but an absent one of the given key. *)
LEMMA EmplacedValue ==
    ASSUME NEW K, NEW cache \in [K -> Users \cup {None}], NEW key,
           NEW id \in Users, NEW k \in K
    PROVE  \/ Emplaced(cache, key, id)[k] = cache[k]
           \/ k = key /\ Emplaced(cache, key, id)[k] = id
  BY DEF Emplaced

(* What the cached id of an extension can be. *)
LEMMA CachedType ==
    ASSUME TypeOK, NEW e \in Ext
    PROVE  /\ Cached(e) \in Users \cup {None}
           /\ e.kind = "username" => Cached(e) = username_cache[e.key]
           /\ e.kind = "phone" => Cached(e) = phone_cache[e.key]
           /\ e.kind = "id" => Cached(e) = e.key
           /\ e.kind = "username" => e.key \in Usernames
           /\ e.kind = "phone" => e.key \in Phones
           /\ e.kind = "id" => e.key \in Users
           /\ e.kind \in {"username", "phone", "id"}
  BY DEF TypeOK, Ext, Cached

(* A reply's demand is a number of seconds. *)
LEMMA DemandType ==
    ASSUME NEW r \in Reply
    PROVE  Demand(r) \in Nat /\ r.type \in {"retry_after", "PEER_FLOOD", "other"}
           /\ (r.type = "other" => Demand(r) = 0)
  BY DialAssumption DEF Reply, Demand

-----------------------------------------------------------------------------
(* The reply to a lookup: whom it names, and which cache learns it. *)
LookupAnswer(u) ==
    /\ told' = told \cup {<<ext.key, u>>}
    /\ target' = u
    /\ \/ /\ ext.kind = "username"
          /\ ext.key \in Usernames
          /\ username_cache' = Emplaced(username_cache, ext.key, u)
          /\ UNCHANGED phone_cache
       \/ /\ ext.kind = "phone"
          /\ ext.key \in Phones
          /\ phone_cache' = Emplaced(phone_cache, ext.key, u)
          /\ UNCHANGED username_cache

(* LookupFound gives exactly such an answer. *)
LEMMA LookupAnswered ==
    ASSUME TypeOK, CacheInv, LookupFound
    PROVE  \E u \in Users : LookupAnswer(u)
<1>1. ext \in Ext
  BY DEF TypeOK, CacheInv, LookupFound, NoExt
<1>2. \/ ext.kind = "username" /\ ext.key \in Usernames
      \/ ext.kind = "phone" /\ ext.key \in Phones
  BY <1>1 DEF CacheInv, LookupFound, Ext
<1> QED
  BY <1>2 DEF LookupFound, LookupAnswer

(* Every variable of DialTg keeps its type, whatever TDLib replies and in  *)
(* whatever order load_cache, DialTg and the other handlers run.           *)
LEMMA TypeStep == TypeOK /\ CacheInv /\ [Next]_vars => TypeOK'
<1> SUFFICES ASSUME TypeOK, CacheInv, [Next]_vars PROVE TypeOK'
  OBVIOUS
<1> USE DialAssumption
<1>1. CASE LoadContact
  <2> DEFINE u == Contacts[loaded + 1]
  <2>1. u \in Contact /\ loaded' \in 0 .. Len(Contacts)
    BY <1>1 DEF LoadContact, TypeOK
  <2>2. u.id \in Users /\ u.username \in Usernames \cup {None}
        /\ u.phone \in Phones \cup {None}
    BY <2>1 DEF Contact
  <2>3. CASE u.status = "ok"
    <3>1. username_cache' \in [Usernames -> Users \cup {None}]
      BY <1>1, <2>2, <2>3, EmplacedType DEF LoadContact, TypeOK
    <3>2. phone_cache' \in [Phones -> Users \cup {None}]
      BY <1>1, <2>2, <2>3, EmplacedType DEF LoadContact, TypeOK
    <3>3. told' \in SUBSET ((Usernames \cup Phones) \X Users)
      BY <1>1, <2>2, <2>3 DEF LoadContact, TypeOK
    <3> QED
      BY <1>1, <2>1, <2>3, <3>1, <3>2, <3>3 DEF LoadContact, TypeOK
  <2>4. CASE u.status # "ok"
    BY <1>1, <2>1, <2>4 DEF LoadContact, TypeOK, cacheVars
  <2> QED
    BY <2>3, <2>4
<1>2. CASE LoadDone
  BY <1>2 DEF LoadDone, TypeOK, cacheVars
<1>3. CASE DropBlocked
  BY <1>3 DEF DropBlocked, TypeOK, cacheVars
<1>4. CASE StartDial
  BY <1>4, CachedType DEF StartDial, TypeOK, cacheVars
<1>5. CASE LookupFound
  <2>1. PICK u \in Users : LookupAnswer(u)
    BY <1>5, LookupAnswered
  <2>2. username_cache' \in [Usernames -> Users \cup {None}]
        /\ phone_cache' \in [Phones -> Users \cup {None}]
    BY <2>1, EmplacedType DEF LookupAnswer, TypeOK
  <2>3. told' \in SUBSET ((Usernames \cup Phones) \X Users)
    BY <2>1 DEF LookupAnswer, TypeOK
  <2> QED
    BY <1>5, <2>1, <2>2, <2>3 DEF LookupFound, LookupAnswer, TypeOK
<1>6. CASE LookupNobody
  BY <1>6 DEF LookupNobody, TypeOK, cacheVars
<1>7. CASE CallCreated
  BY <1>7 DEF CallCreated, TypeOK, cacheVars
<1>8. CASE DialError
  <2>1. PICK r \in Reply :
          ParseError(r) /\ embargo' = Embargoed(r)
    BY <1>8 DEF DialError
  <2>2. block_until' \in Nat /\ embargo' \in Nat
    BY <2>1, DemandType DEF ParseError, Embargoed, TypeOK
  <2> QED
    BY <1>8, <2>2 DEF DialError, TypeOK, cacheVars
<1>9. CASE OtherQuery \/ OtherReply
  BY <1>9 DEF OtherQuery, OtherReply, TypeOK, cacheVars
<1>10. CASE Tick
  BY <1>10 DEF Tick, TypeOK, cacheVars
<1>11. CASE UNCHANGED vars
  BY <1>11 DEF vars, cacheVars, TypeOK
<1> QED
  BY <1>1, <1>2, <1>3, <1>4, <1>5, <1>6, <1>7, <1>8, <1>9, <1>10, <1>11
  DEF Next

(* The flood block: only StartDial, DialError and the clock touch what     *)
(* BlockInv relates.                                                       *)
LEMMA BlockStep == TypeOK /\ BlockInv /\ [Next]_vars => BlockInv'
<1> SUFFICES ASSUME TypeOK, BlockInv, [Next]_vars PROVE BlockInv'
  OBVIOUS
<1> USE DialAssumption DEF TypeOK, BlockInv
<1>1. CASE StartDial
  BY <1>1 DEF StartDial, Blocked
<1>2. CASE DialError
  <2>1. PICK r \in Reply :
          ParseError(r) /\ embargo' = Embargoed(r)
    BY <1>2 DEF DialError
  <2>2. block_until <= now /\ now \in Nat
    BY <1>2 DEF DialError
  <2>3. CASE r.type = "other"
    BY <1>2, <2>1, <2>2, <2>3, DemandType DEF DialError, ParseError, Embargoed
  <2>4. CASE r.type # "other"
    BY <1>2, <2>1, <2>2, <2>4, DemandType DEF DialError, ParseError, Embargoed
  <2> QED
    BY <2>3, <2>4
<1>3. CASE Tick
  BY <1>3 DEF Tick
<1>4. CASE \/ LoadContact \/ LoadDone \/ DropBlocked \/ LookupFound
           \/ LookupNobody \/ CallCreated \/ OtherQuery \/ OtherReply
           \/ UNCHANGED vars
  BY <1>4 DEF LoadContact, LoadDone, DropBlocked, LookupFound, LookupNobody,
              CallCreated, OtherQuery, OtherReply, vars
<1> QED
  BY <1>1, <1>2, <1>3, <1>4 DEF Next

(* The caches and the call in progress. *)
LEMMA CacheStep ==
    TypeOK /\ CacheInv /\ CallsWhoWasAsked /\ [Next]_vars
        => CacheInv' /\ CallsWhoWasAsked'
<1> SUFFICES ASSUME TypeOK, CacheInv, CallsWhoWasAsked, [Next]_vars
             PROVE  CacheInv' /\ CallsWhoWasAsked'
  OBVIOUS
<1> USE DialAssumption
<1>1. CASE LoadContact
  <2> DEFINE u == Contacts[loaded + 1]
  <2>1. u.id \in Users
    <3>1. u \in Contact
      BY <1>1 DEF LoadContact, TypeOK
    <3> QED
      BY <3>1 DEF Contact
  <2>2. query' \in {"load", "none"} /\ ext' = ext
    BY <1>1 DEF LoadContact, cacheVars
  <2>3. CASE u.status = "ok"
    <3>1. /\ told' = told \cup {<<n, u.id>> : n \in {u.username, u.phone} \ {None}}
          /\ username_cache' = Emplaced(username_cache, u.username, u.id)
          /\ phone_cache' = Emplaced(phone_cache, u.phone, u.id)
      BY <1>1, <2>3 DEF LoadContact
    <3>2. ASSUME NEW n \in Usernames, username_cache'[n] # None
          PROVE  <<n, username_cache'[n]>> \in told'
      <4>1. CASE username_cache'[n] = username_cache[n]
        BY <3>1, <3>2, <4>1 DEF CacheInv
      <4>2. CASE username_cache'[n] # username_cache[n]
        <5>1. n = u.username /\ username_cache'[n] = u.id
          BY <2>1, <3>1, <4>2, EmplacedValue DEF TypeOK
        <5>2. n # None
          OBVIOUS
        <5> QED
          BY <3>1, <5>1, <5>2
      <4> QED
        BY <4>1, <4>2
    <3>3. ASSUME NEW n \in Phones, phone_cache'[n] # None
          PROVE  <<n, phone_cache'[n]>> \in told'
      <4>1. CASE phone_cache'[n] = phone_cache[n]
        BY <3>1, <3>3, <4>1 DEF CacheInv
      <4>2. CASE phone_cache'[n] # phone_cache[n]
        <5>1. n = u.phone /\ phone_cache'[n] = u.id
          BY <2>1, <3>1, <4>2, EmplacedValue DEF TypeOK
        <5>2. n # None
          OBVIOUS
        <5> QED
          BY <3>1, <5>1, <5>2
      <4> QED
        BY <4>1, <4>2
    <3> QED
      BY <2>2, <3>2, <3>3 DEF CacheInv, CallsWhoWasAsked
  <2>4. CASE u.status # "ok"
    BY <1>1, <2>2, <2>4 DEF LoadContact, CacheInv, CallsWhoWasAsked, cacheVars
  <2> QED
    BY <2>3, <2>4
<1>2. CASE StartDial
  <2>1. PICK e \in Ext :
          /\ ext' = e
          /\ target' = Cached(e)
          /\ query' = IF Cached(e) # None THEN "createCall" ELSE "lookup"
    BY <1>2 DEF StartDial
  <2>2. UNCHANGED cacheVars
    BY <1>2 DEF StartDial
  <2>3. query' = "lookup" => ext'.kind \in {"username", "phone"}
    BY <2>1, CachedType
  <2>4. CallsWhoWasAsked'
    BY <2>1, <2>2, CachedType DEF CallsWhoWasAsked, CacheInv, cacheVars
  <2> QED
    BY <2>2, <2>3, <2>4 DEF CacheInv, cacheVars
<1>3. CASE LookupFound
  <2>1. PICK u \in Users : LookupAnswer(u)
    BY <1>3, LookupAnswered
  <2>2. ASSUME NEW n \in Usernames, username_cache'[n] # None
        PROVE  <<n, username_cache'[n]>> \in told'
    BY <2>1, <2>2, EmplacedValue DEF LookupAnswer, TypeOK, CacheInv
  <2>3. ASSUME NEW n \in Phones, phone_cache'[n] # None
        PROVE  <<n, phone_cache'[n]>> \in told'
    BY <2>1, <2>3, EmplacedValue DEF LookupAnswer, TypeOK, CacheInv
  <2>4. CallsWhoWasAsked'
    BY <1>3, <2>1 DEF LookupFound, LookupAnswer, CallsWhoWasAsked
  <2> QED
    BY <1>3, <2>2, <2>3, <2>4 DEF LookupFound, CacheInv
<1>4. CASE \/ LoadDone \/ DropBlocked \/ LookupNobody \/ CallCreated
           \/ DialError \/ OtherQuery \/ OtherReply
  BY <1>4 DEF LoadDone, DropBlocked, LookupNobody, CallCreated, DialError,
              OtherQuery, OtherReply, CacheInv, CallsWhoWasAsked, cacheVars
<1>5. CASE Tick \/ UNCHANGED vars
  BY <1>5 DEF Tick, vars, CacheInv, CallsWhoWasAsked, cacheVars
<1> QED
  BY <1>1, <1>2, <1>3, <1>4, <1>5 DEF Next

-----------------------------------------------------------------------------
(* The inductive invariant holds in every behaviour. *)
LEMMA Invariance == Spec => []Inv
<1>1. Init => Inv
  BY DialAssumption
  DEF Init, Inv, TypeOK, BlockInv, CacheInv, CallsWhoWasAsked
<1>2. Inv /\ [Next]_vars => Inv'
  BY TypeStep, BlockStep, CacheStep DEF Inv
<1> QED
  BY <1>1, <1>2, PTL DEF Spec

(* The types of the dialling state: caches map names and numbers to users, *)
(* the block is a point in time.                                           *)
THEOREM TypeCorrect == Spec => []TypeOK
<1>1. Inv => TypeOK
  BY DEF Inv
<1> QED
  BY <1>1, Invariance, PTL

(* Whoever DialTg calls is the user the extension names, or one TDLib      *)
(* reported for the extension's name or number: the two caches and         *)
(* load_cache never mix keys up.                                           *)
THEOREM CallsTheRightUser == Spec => []CallsWhoWasAsked
<1>1. Inv => CallsWhoWasAsked
  BY DEF Inv
<1> QED
  BY <1>1, Invariance, PTL

(* A lookup or createCall is sent only when every pause that the answer to *)
(* an earlier one demanded is over, for every extra_wait_time and          *)
(* peer_flood_time; a demand in the answer to another query is not         *)
(* covered, since the code forgets it.                                     *)
THEOREM FloodControl == Spec => NoDialUnderEmbargo
<1>1. Inv /\ [Next]_vars
        => [Sends({"lookup", "createCall"}) => now >= embargo]_vars
  <2> SUFFICES ASSUME Inv, [Next]_vars, Sends({"lookup", "createCall"})
               PROVE  now >= embargo
    OBVIOUS
  <2> USE DEF Inv, BlockInv, TypeOK
  <2>1. CASE StartDial
    BY <2>1 DEF StartDial, Blocked
  <2>2. CASE LookupFound
    BY <2>2 DEF LookupFound
  <2>3. CASE \/ LoadContact \/ LoadDone \/ DropBlocked \/ LookupNobody
             \/ CallCreated \/ DialError \/ OtherQuery \/ OtherReply \/ Tick
             \/ UNCHANGED vars
    BY <2>3 DEF LoadContact, LoadDone, DropBlocked, LookupNobody, CallCreated,
                DialError, OtherQuery, OtherReply, Tick, vars, Sends
  <2> QED
    BY <2>1, <2>2, <2>3 DEF Next
<1> QED
  BY <1>1, Invariance, PTL DEF Spec, NoDialUnderEmbargo

(* parse_error's plain assignment never shortens the block.                *)
THEOREM BlockMonotone == Spec => BlockNeverShortened
<1>1. Inv /\ [Next]_vars => [block_until' >= block_until]_vars
  <2> SUFFICES ASSUME Inv, [Next]_vars
               PROVE  block_until' >= block_until
    OBVIOUS
  <2> USE DEF Inv, BlockInv, TypeOK
  <2>1. CASE DialError
    <3>1. PICK r \in Reply : ParseError(r)
      BY <2>1 DEF DialError
    <3>2. block_until <= now
      BY <2>1 DEF DialError
    <3> QED
      BY <3>1, <3>2, DemandType, DialAssumption DEF ParseError
  <2>2. CASE \/ LoadContact \/ LoadDone \/ DropBlocked \/ StartDial
             \/ LookupFound \/ LookupNobody \/ CallCreated
             \/ OtherQuery \/ OtherReply \/ Tick \/ UNCHANGED vars
    BY <2>2 DEF LoadContact, LoadDone, DropBlocked, StartDial, LookupFound,
                LookupNobody, CallCreated, OtherQuery, OtherReply, Tick, vars
  <2> QED
    BY <2>1, <2>2 DEF Next
<1> QED
  BY <1>1, Invariance, PTL DEF Spec, BlockNeverShortened
=============================================================================
