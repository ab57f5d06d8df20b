---------------------------- MODULE ResolverCache ----------------------------
(***************************************************************************)
(* The cache of src/ZSI/resolvers.py: two dictionaries of the module,      *)
(* _CACHE_URL_TO_KEY and _CACHE_CONTENT, which every thread of a process   *)
(* reads and fills through Opaque without a lock, and which                *)
(* ClearNetworkResolverCache empties one after the other.                  *)
(*                                                                         *)
(* Each action is one access to a dictionary or to the network, the grain  *)
(* at which threads interleave.  A key is the uri with the digest of the   *)
(* content, here the uri with the content itself.                          *)
(*                                                                         *)
(* Entries never expire: once a uri has a key its content is served until  *)
(* somebody clears the cache, whatever the uri has become, and a fetch     *)
(* under way during a clear stores what it got after it.                   *)
(*                                                                         *)
(* A definition Mut... is the one that follows it with a fault seeded in;  *)
(* no action uses it.                                                      *)
(***************************************************************************)

CONSTANTS
    Requests,   \* who looks up: a request served, one thread or process each
    Processes,  \* the processes, each with dictionaries of its own
    Uris,
    Contents    \* what a uri may serve

VARIABLES
    keyOf,      \* _CACHE_URL_TO_KEY of each process: uri -> key
    contentOf,  \* _CACHE_CONTENT of each process: key -> content
    lookup,     \* the call of Opaque of each request
    clearing    \* the processes amid ClearNetworkResolverCache

cacheVars == <<keyOf, contentOf, lookup, clearing>>

Empty == [x \in {} |-> {}]
With(f, k, v) == [x \in DOMAIN f \cup {k} |-> IF x = k THEN v ELSE f[x]]

Nothing == <<>>

(* f"{uri}#{digest}" *)
CacheKey(uri, content) == <<uri, content>>

NoLookup(step) ==
    [step |-> step, uri |-> Nothing, key |-> Nothing, content |-> Nothing,
     cleared |-> FALSE]

CacheInit ==
    /\ keyOf = [p \in Processes |-> Empty]
    /\ contentOf = [p \in Processes |-> Empty]
    /\ lookup = [r \in Requests |-> NoLookup("none")]
    /\ clearing = {}

(* Opaque is running for the request.  *)
Busy(r) == lookup[r].step \notin {"none", "done", "KeyError", "URLError"}

(* A request's lookup goes on, or is over; the dictionaries stay.  *)
Proceed(r, from, to) ==
    /\ lookup[r].step = from
    /\ lookup' = [lookup EXCEPT ![r].step = to]
    /\ UNCHANGED <<keyOf, contentOf, clearing>>

Done(r, from, to) ==
    /\ lookup[r].step = from
    /\ lookup' = [lookup EXCEPT ![r] = NoLookup(to)]

(***************************************************************************)
(* Opaque.  "cleared" is for the properties alone: whether the contents    *)
(* have been cleared since the lookup began.                               *)
(***************************************************************************)
(* Fault seeded: a key is taken to have a content.                         *)
MutGetKey(r, p, uri) ==
    /\ lookup[r].step = "none"
    /\ lookup' = [lookup EXCEPT ![r] =
            [step |-> IF uri \in DOMAIN keyOf[p] THEN "read" ELSE "fetch",
             uri |-> uri,
             key |-> IF uri \in DOMAIN keyOf[p] THEN keyOf[p][uri] ELSE Nothing,
             content |-> Nothing, cleared |-> FALSE]]
    /\ UNCHANGED <<keyOf, contentOf, clearing>>

(* cache_key = _CACHE_URL_TO_KEY.get(uri) *)
GetKey(r, p, uri) ==
    /\ lookup[r].step = "none"
    /\ lookup' = [lookup EXCEPT ![r] =
            [step |-> IF uri \in DOMAIN keyOf[p] THEN "check" ELSE "fetch",
             uri |-> uri,
             key |-> IF uri \in DOMAIN keyOf[p] THEN keyOf[p][uri] ELSE Nothing,
             content |-> Nothing, cleared |-> FALSE]]
    /\ UNCHANGED <<keyOf, contentOf, clearing>>

(* "cache_key in _CACHE_CONTENT" *)
Cached(r, p) == lookup[r].key \in DOMAIN contentOf[p]

CheckContent(r, p) ==
    Proceed(r, "check", IF Cached(r, p) THEN "read" ELSE "fetch")

(* "return _CACHE_CONTENT[cache_key]", a second access to the dictionary,  *)
(* which finds the key gone when contents were cleared in between          *)
ReadContent(r, p) ==
    /\ Cached(r, p)
    /\ Done(r, "read", "done")
    /\ UNCHANGED <<keyOf, contentOf, clearing>>

MissContent(r, p) == ~Cached(r, p) /\ Proceed(r, "read", "KeyError")

(* urlopen and read: the resource changes as it likes *)
Fetch(r) ==
    /\ lookup[r].step = "fetch"
    /\ \E content \in Contents :
        lookup' = [lookup EXCEPT ![r].step = "store", ![r].content = content]
    /\ UNCHANGED <<keyOf, contentOf, clearing>>

(* URLError: nothing is stored *)
FailFetch(r) ==
    /\ Done(r, "fetch", "URLError")
    /\ UNCHANGED <<keyOf, contentOf, clearing>>

(* _CACHE_URL_TO_KEY[uri] = cache_key *)
StoreKey(r, p) ==
    /\ lookup[r].step = "store"
    /\ LET k == CacheKey(lookup[r].uri, lookup[r].content)
       IN  /\ keyOf' = [keyOf EXCEPT ![p] = With(@, lookup[r].uri, k)]
           /\ lookup' = [lookup EXCEPT ![r].step = "stored key", ![r].key = k]
    /\ UNCHANGED <<contentOf, clearing>>

(* _CACHE_CONTENT[cache_key] = value *)
StoreContent(r, p) ==
    /\ contentOf' = [contentOf EXCEPT ![p] =
                        With(@, lookup[r].key, lookup[r].content)]
    /\ Done(r, "stored key", "done")
    /\ UNCHANGED <<keyOf, clearing>>

Opaque(r, p) ==
    \/ CheckContent(r, p) \/ ReadContent(r, p) \/ MissContent(r, p)
    \/ Fetch(r) \/ FailFetch(r) \/ StoreKey(r, p) \/ StoreContent(r, p)

(***************************************************************************)
(* ClearNetworkResolverCache, by some other thread of the process          *)
(***************************************************************************)
(* _CACHE_URL_TO_KEY.clear() *)
(* Only a clear that some lookup of the process is in the middle of matters. *)
ClearKeys(p, ProcessOf) ==
    /\ \E r \in Requests : ProcessOf[r] = p /\ Busy(r)
    /\ p \notin clearing
    /\ keyOf' = [keyOf EXCEPT ![p] = Empty]
    /\ clearing' = clearing \cup {p}
    /\ UNCHANGED <<contentOf, lookup>>

(* _CACHE_CONTENT.clear() *)
ClearContents(p, ProcessOf) ==
    /\ p \in clearing
    /\ contentOf' = [contentOf EXCEPT ![p] = Empty]
    /\ clearing' = clearing \ {p}
    /\ lookup' = [r \in Requests |->
            [lookup[r] EXCEPT !.cleared = @ \/ (ProcessOf[r] = p /\ Busy(r))]]
    /\ UNCHANGED keyOf
=============================================================================
