------------------------------- MODULE DialTg -------------------------------
(***************************************************************************)
(* How the gateway thread reaches a Telegram user: Gateway::load_cache,    *)
(* the state machine's DialTg action with its directory lookups, the two   *)
(* caches it shares with every bridge, and the block it puts on itself     *)
(* when Telegram asks it to slow down (parse_error).                       *)
(*                                                                         *)
(* The thread has at most one query outstanding, and `query' says which.   *)
(* Time is counted in seconds, the unit of every wait; it passes while a   *)
(* query is outstanding.  ExtraWait and the replies are below 2^31 (a      *)
(* std::stoi result; a sane setting), so `seconds + extra_wait_time' does  *)
(* not wrap in 32 unsigned bits.                                           *)
(***************************************************************************)
EXTENDS Integers, Sequences

CONSTANTS
    Usernames, Phones,  \* extensions: tg#name, +number
    Users,              \* Telegram user ids
    None,               \* no user id, no name: id 0, the empty string
    Contacts,           \* the replies load_cache gets, in order
    ExtraWait,          \* settings.extra_wait_time()
    PeerFloodTime,      \* settings.peer_flood_time()
    RetryAfter,         \* the N of "Too Many Requests: retry after N"
    MaxTime             \* bound: the clock stops here

Contact == [status : {"ok", "no_access", "error"}, id : Users,
            username : Usernames \cup {None}, phone : Phones \cup {None}]

ASSUME DialAssumption ==
    /\ None \notin Users \cup Usernames \cup Phones
    /\ Contacts \in Seq(Contact)
    /\ ExtraWait \in Nat /\ PeerFloodTime \in Nat
    /\ RetryAfter \subseteq Nat
    /\ MaxTime \in Nat

VARIABLES
    now,             \* steady_clock::now()
    block_until,     \* Gateway::block_until
    username_cache,  \* Cache::username_cache
    phone_cache,     \* Cache::phone_cache
    loaded,          \* load_cache: replies consumed
    query,           \* the query the thread waits for
    ext,             \* the extension DialTg is dialling
    target,          \* the user id given to createCall
    told,            \* history: (name, id) pairs TDLib reported
    embargo          \* history: when the longest pause that the answer to
                     \* a lookup or createCall asked for runs out

cacheVars == <<username_cache, phone_cache, told>>
vars == <<now, block_until, loaded, query, ext, target, embargo, cacheVars>>

Ext == [kind : {"username"}, key : Usernames]
       \cup [kind : {"phone"}, key : Phones]
       \cup [kind : {"id"}, key : Users]
NoExt == [kind |-> "none", key |-> None]

Reply == [type : {"retry_after"}, seconds : RetryAfter]
         \cup [type : {"PEER_FLOOD", "other"}, seconds : {0}]

TypeOK ==
    /\ now \in 0 .. MaxTime
    /\ block_until \in Nat
    /\ username_cache \in [Usernames -> Users \cup {None}]
    /\ phone_cache \in [Phones -> Users \cup {None}]
    /\ loaded \in 0 .. Len(Contacts)
    /\ query \in {"load", "none", "lookup", "createCall", "other"}
    /\ ext \in Ext \cup {NoExt}
    /\ target \in Users \cup {None}
    /\ told \in SUBSET ((Usernames \cup Phones) \X Users)
    /\ embargo \in Nat

(* block_until is initialised with the current time. *)
Init ==
    /\ now = 0
    /\ block_until = now
    /\ username_cache = [n \in Usernames |-> None]
    /\ phone_cache = [p \in Phones |-> None]
    /\ loaded = 0
    /\ query = "load"
    /\ ext = NoExt
    /\ target = None
    /\ told = {}
    /\ embargo = 0

-----------------------------------------------------------------------------
(* unordered_map::emplace keeps an entry that is there. *)
Emplaced(cache, key, id) ==
    IF key \in DOMAIN cache /\ cache[key] = None
    THEN [cache EXCEPT ![key] = id]
    ELSE cache

(* load_cache: one contact's reply.  A failed one is skipped; one without  *)
(* access returns from the whole function, so what follows it is not read. *)
LoadContact ==
    /\ query = "load"
    /\ loaded < Len(Contacts)
    /\ loaded' = loaded + 1
    /\ LET u == Contacts[loaded + 1]
       IN  \/ /\ u.status = "ok"
              /\ username_cache' = Emplaced(username_cache, u.username, u.id)
              /\ phone_cache' = Emplaced(phone_cache, u.phone, u.id)
              /\ told' = told \cup {<<n, u.id>> :
                             n \in {u.username, u.phone} \ {None}}
              /\ UNCHANGED query
           \/ /\ u.status = "error"
              /\ UNCHANGED <<cacheVars, query>>
           \/ /\ u.status = "no_access"
              /\ query' = "none"
              /\ UNCHANGED cacheVars
    /\ UNCHANGED <<now, block_until, ext, target, embargo>>

(* load_cache: all replies are in, or the contact search itself failed. *)
LoadDone ==
    /\ query = "load"
    /\ loaded \in {0, Len(Contacts)}
    /\ query' = "none"
    /\ UNCHANGED <<now, block_until, loaded, ext, target, embargo, cacheVars>>

-----------------------------------------------------------------------------
(* DialTg::operator() *)

(* block_until > now *)
Blocked == block_until > now

(* The call is dropped with FLOOD_WAIT: an InternalError and no query. *)
DropBlocked ==
    /\ query = "none"
    /\ Blocked
    /\ \E e \in Ext : ext' = e
    /\ target' = None
    /\ UNCHANGED <<now, block_until, loaded, query, embargo, cacheVars>>

Cached(e) ==
    CASE e.kind = "username" -> username_cache[e.key]
      [] e.kind = "phone" -> phone_cache[e.key]
      [] e.kind = "id" -> e.key

(* mutant: the block is not consulted *)
StartDialAlways ==
    /\ query = "none"
    /\ \E e \in Ext :
          /\ ext' = e
          /\ target' = Cached(e)
          /\ query' = IF Cached(e) # None THEN "createCall" ELSE "lookup"
    /\ UNCHANGED <<now, block_until, loaded, embargo, cacheVars>>

(* dial_by_username, dial_by_phone, dial_by_id up to their first query:    *)
(* createCall when the id is known, else searchPublicChat or               *)
(* importContacts.                                                         *)
StartDial ==
    /\ query = "none"
    /\ ~Blocked
    /\ \E e \in Ext :
          /\ ext' = e
          /\ target' = Cached(e)
          /\ query' = IF Cached(e) # None THEN "createCall" ELSE "lookup"
    /\ UNCHANGED <<now, block_until, loaded, embargo, cacheVars>>

(* The lookup names a user: cache it and dial it. *)
LookupFound ==
    /\ query = "lookup"
    /\ \E u \in Users :
          /\ told' = told \cup {<<ext.key, u>>}
          /\ target' = u
          /\ IF ext.kind = "username"
             THEN /\ username_cache' = Emplaced(username_cache, ext.key, u)
                  /\ UNCHANGED phone_cache
             ELSE /\ phone_cache' = Emplaced(phone_cache, ext.key, u)
                  /\ UNCHANGED username_cache
    /\ query' = "createCall"
    /\ UNCHANGED <<now, block_until, loaded, ext, embargo>>

(* mutant: user id 0 is dialled *)
LookupNobodyDials ==
    /\ query = "lookup"
    /\ query' = "createCall"
    /\ UNCHANGED <<now, block_until, loaded, ext, target, embargo, cacheVars>>

(* Not registered (user id 0), or a chat that is not private. *)
LookupNobody ==
    /\ query = "lookup"
    /\ query' = "none"
    /\ UNCHANGED <<now, block_until, loaded, ext, target, embargo, cacheVars>>

(* createCall returned a call id. *)
CallCreated ==
    /\ query = "createCall"
    /\ query' = "none"
    /\ UNCHANGED <<now, block_until, loaded, ext, target, embargo, cacheVars>>

(* What a reply asks of the gateway: N plus the configured extra, a flat   *)
(* wait, or nothing.                                                       *)
Demand(r) == CASE r.type = "retry_after" -> r.seconds + ExtraWait
               [] r.type = "PEER_FLOOD" -> PeerFloodTime
               [] r.type = "other" -> 0

(* mutant: extra_wait_time is left out *)
ParseErrorNoExtra(r) ==
    block_until' = CASE r.type = "retry_after" -> now + r.seconds
                     [] r.type = "PEER_FLOOD" -> now + PeerFloodTime
                     [] r.type = "other" -> block_until

(* parse_error assigns block_until, whatever it was. *)
ParseError(r) ==
    block_until' = IF r.type = "other" THEN block_until ELSE now + Demand(r)

(* The history of dial demands keeps the latest end any of them had. *)
Embargoed(r) ==
    IF r.type = "other" \/ embargo > now + Demand(r) THEN embargo
    ELSE now + Demand(r)

(* A lookup or createCall failed. *)
DialError ==
    /\ query \in {"lookup", "createCall"}
    /\ \E r \in Reply :
          /\ ParseError(r)
          /\ embargo' = Embargoed(r)
    /\ query' = "none"
    /\ UNCHANGED <<now, loaded, ext, target, cacheVars>>

-----------------------------------------------------------------------------
(* The other handlers (DialSip's getUser, AnswerTg's acceptCall, CleanUp's *)
(* discardCall) do not consult the block: their queries go out under it.   *)
OtherQuery ==
    /\ query = "none"
    /\ query' = "other"
    /\ UNCHANGED <<now, block_until, loaded, ext, target, embargo, cacheVars>>

(* Their errors are not given to parse_error: the gateway forgets a pause  *)
(* that one of them asks for.                                              *)
OtherReply ==
    /\ query = "other"
    /\ query' = "none"
    /\ UNCHANGED <<now, block_until, loaded, ext, target, embargo, cacheVars>>

Tick ==
    /\ now < MaxTime
    /\ now' = now + 1
    /\ UNCHANGED <<block_until, loaded, query, ext, target, embargo, cacheVars>>

Next ==
    \/ LoadContact \/ LoadDone
    \/ DropBlocked \/ StartDial
    \/ LookupFound \/ LookupNobody \/ CallCreated \/ DialError
    \/ OtherQuery \/ OtherReply
    \/ Tick

Spec == Init /\ [][Next]_vars

-----------------------------------------------------------------------------
(* Correctness. *)

Sends(kinds) == query' # query /\ query' \in kinds

(* Once the answer to a lookup or a createCall has asked for a pause,      *)
(* DialTg sends neither before the longest such pause so far is over,      *)
(* extra_wait_time included: neither a later, shorter demand nor a wait    *)
(* that a query was already pending through cuts it short                  *)
(* (gateway.cpp:564-577).  It says nothing of the other queries, nor of a  *)
(* pause their answers ask for.                                            *)
NoDialUnderEmbargo ==
    [][Sends({"lookup", "createCall"}) => now >= embargo]_vars

(* block_until is assigned, not maximised, and yet never moves back.       *)
BlockNeverShortened == [][block_until' >= block_until]_vars

(* The user who is called is one TDLib reported for the name or number the *)
(* extension asks for; no cache entry is filed under another's key.        *)
CallsWhoWasAsked ==
    query = "createCall" =>
        \/ ext.kind = "id" /\ target = ext.key
        \/ ext.kind # "id" /\ <<ext.key, target>> \in told
=============================================================================
