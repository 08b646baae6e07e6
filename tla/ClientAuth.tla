----------------------------- MODULE ClientAuth -----------------------------
(***************************************************************************)
(* private_key_jwt (oauth/client-assertion.ts) for one client: the cache   *)
(* of its key set and the store of the assertions already used, both in    *)
(* memory.  The client is external: it publishes one key, signs assertions *)
(* with it and may change it.  Claims that cannot hold are refused with no *)
(* trace and left out.  Between the check of exp and that of the jti there *)
(* is no timer, so Verify is one step.                                     *)
(***************************************************************************)
EXTENDS Naturals, FiniteSets

CONSTANTS
  Calls,          \* requests that authenticate the client
  Jtis, None,
  JwksTTL,        \* the longest max-age of a key set
  KidInterval,    \* KID_REFETCH_MIN_INTERVAL_MS
  Lifetime,       \* MAX_ASSERTION_LIFETIME_S
  Skew,           \* CLOCK_SKEW_S
  MaxSeen,        \* MAX_SEEN_JTI
  FetchTime,      \* a fetch, or a verification, ends within this time
  MaxKeys,        \* bound: the keys the client ever has
  MaxTime         \* bound: the clock

ASSUME ClientAuthAssumption ==
  /\ {JwksTTL, KidInterval, Lifetime, Skew, MaxSeen, FetchTime, MaxKeys, MaxTime} \subseteq Nat
  /\ 0 < JwksTTL /\ 0 < MaxKeys
  /\ None \notin Nat

VARIABLES
  now,
  published,    \* the number of the key that jwks_uri shows
  withdrawn,    \* history: withdrawn[k]: when the client withdrew k
  signed,       \* signed[j]: exp and key of the assertion with that jti, and whether it names the key
  jwksCache,    \* the key and until when, or None
  lastRefetch,  \* lastKidRefetch
  seenJti,      \* seenJti[j]: until when it is kept, or None
  call,         \* call[r]: its pc, its assertion, the key it has been given
  accepted,     \* history: how often j was accepted since the start
  overstay      \* history: the longest that a withdrawn key was accepted

memory == << jwksCache, lastRefetch, seenJti >>
client == << published, withdrawn, signed >>
vars == << now, client, memory, call, accepted, overstay >>

-----------------------------------------------------------------------------
NoCall == [pc |-> "idle", jti |-> None, key |-> None, at |-> 0]

Init ==
  /\ now = 0
  /\ published = 1
  /\ withdrawn = [k \in 1..MaxKeys |-> None]
  /\ signed = [j \in Jtis |-> None]
  /\ jwksCache = None /\ lastRefetch = None
  /\ seenJti = [j \in Jtis |-> None]
  /\ call = [r \in Calls |-> NoCall]
  /\ accepted = [j \in Jtis |-> 0]
  /\ overstay = 0

Goes(r, pc, jti, key) == call' = [call EXCEPT ![r] = [pc |-> pc, jti |-> jti, key |-> key, at |-> now]]
Return(r) == call' = [call EXCEPT ![r] = NoCall]

-----------------------------------------------------------------------------
(* The client, or whoever has got hold of a key that it has withdrawn.     *)

Sign(j) ==
  /\ signed[j] = None
  /\ \E exp \in now .. now + Lifetime + Skew, key \in 1..published, kid \in BOOLEAN :
       signed' = [signed EXCEPT ![j] = [exp |-> exp, key |-> key, kid |-> kid]]
  /\ UNCHANGED << now, published, withdrawn, memory, call, accepted, overstay >>

Rotate ==
  /\ published < MaxKeys
  /\ published' = published + 1
  /\ withdrawn' = [withdrawn EXCEPT ![published] = now]
  /\ UNCHANGED << now, signed, memory, call, accepted, overstay >>

-----------------------------------------------------------------------------
(* getClientJwks, and the refetch for an unknown kid.                      *)

EverFetched == jwksCache # None

Fresh == jwksCache # None /\ now < jwksCache.expiresAt

PresentCold(r, j) ==
  /\ call[r].pc = "idle" /\ signed[j] # None /\ ~Fresh
  /\ Goes(r, "fetches", j, None)
  /\ UNCHANGED << now, client, memory, accepted, overstay >>

UnknownKid(j) == signed[j].kid /\ jwksCache.key # signed[j].key

MayRefetch == lastRefetch # None => now >= lastRefetch + KidInterval

PresentCached(r, j) ==
  /\ call[r].pc = "idle" /\ signed[j] # None /\ Fresh
  /\ UnknownKid(j) => ~MayRefetch
  /\ Goes(r, "verifies", j, jwksCache.key)
  /\ UNCHANGED << now, client, memory, accepted, overstay >>

PresentUnknownKid(r, j) ==
  /\ call[r].pc = "idle" /\ signed[j] # None /\ Fresh
  /\ UnknownKid(j) /\ MayRefetch
  /\ lastRefetch' = now
  /\ Goes(r, "fetches", j, None)
  /\ UNCHANGED << now, client, jwksCache, seenJti, accepted, overstay >>

(* jwks_uri is read, and later its answer arrives.  No call shares the     *)
(* fetch of another. *)
FetchReads(r) ==
  /\ call[r].pc = "fetches"
  /\ Goes(r, "arrives", call[r].jti, published)
  /\ UNCHANGED << now, client, memory, accepted, overstay >>

FetchArrives(r) ==
  /\ call[r].pc = "arrives"
  /\ \E ttl \in 0..JwksTTL :
       jwksCache' = IF ttl > 0 THEN [key |-> call[r].key, expiresAt |-> now + ttl] ELSE None
  /\ Goes(r, "verifies", call[r].jti, call[r].key)
  /\ UNCHANGED << now, client, lastRefetch, seenJti, accepted, overstay >>

(* Unreachable, no key set, or no slot of the pool is free. *)
FetchFails(r) ==
  /\ call[r].pc \in {"fetches", "arrives"}
  /\ Return(r)
  /\ UNCHANGED << now, client, memory, accepted, overstay >>

(* The newer entries of 500 other clients push out this one's. *)
Evict ==
  /\ jwksCache' \in {jwksCache, None} /\ lastRefetch' \in {lastRefetch, None}
  /\ UNCHANGED << now, client, seenJti, call, accepted, overstay >>

-----------------------------------------------------------------------------
(* jwtVerify, then the jti.                                                *)

Verifies(r) ==
  LET a == signed[call[r].jti] IN
  /\ a.key = call[r].key
  /\ now < a.exp + Skew
  /\ a.exp <= now + Lifetime + Skew

Swept == [j \in Jtis |-> IF seenJti[j] # None /\ seenJti[j] <= now THEN None ELSE seenJti[j]]
Entries(seen) == {j \in Jtis : seen[j] # None}

(* A full store is swept first. *)
Room == IF Cardinality(Entries(seenJti)) >= MaxSeen THEN Swept ELSE seenJti

UntilExp(a) == a.exp

KeptUntil(a) == a.exp + Skew

Longer(m, n) == IF m > n THEN m ELSE n

Accept(r) ==
  LET j == call[r].jti
      k == call[r].key IN
  /\ call[r].pc = "verifies" /\ Verifies(r)
  /\ seenJti[j] = None
  /\ Cardinality(Entries(Room)) < MaxSeen
  /\ seenJti' = [Room EXCEPT ![j] = KeptUntil(signed[j])]
  /\ accepted' = [accepted EXCEPT ![j] = @ + 1]
  /\ overstay' = IF withdrawn[k] = None THEN overstay ELSE Longer(overstay, now - withdrawn[k])
  /\ Return(r)
  /\ UNCHANGED << now, client, jwksCache, lastRefetch >>

(* Not verified, already used, or the store is full of live entries. *)
Refuse(r) ==
  LET used == seenJti[call[r].jti] # None
      full == Cardinality(Entries(Room)) >= MaxSeen IN
  /\ call[r].pc = "verifies"
  /\ (Verifies(r) /\ ~used) => full
  /\ seenJti' = IF Verifies(r) /\ ~used THEN Room ELSE seenJti
  /\ Return(r)
  /\ UNCHANGED << now, client, jwksCache, lastRefetch, accepted, overstay >>

-----------------------------------------------------------------------------
(* The timer of the store, the end of the process, the time.               *)

Sweep ==
  /\ seenJti' = Swept
  /\ UNCHANGED << now, client, jwksCache, lastRefetch, call, accepted, overstay >>

Restart ==
  /\ jwksCache' = None /\ lastRefetch' = None
  /\ seenJti' = [j \in Jtis |-> None]
  /\ call' = [r \in Calls |-> NoCall]
  /\ accepted' = [j \in Jtis |-> 0]
  /\ UNCHANGED << now, client, overstay >>

Tick ==
  /\ now < MaxTime /\ now' = now + 1
  /\ \A r \in Calls : call[r].pc # "idle" => now < call[r].at + FetchTime
  /\ UNCHANGED << client, memory, call, accepted, overstay >>

-----------------------------------------------------------------------------
Authenticate(r) ==
  \/ \E j \in Jtis : PresentCold(r, j) \/ PresentCached(r, j) \/ PresentUnknownKid(r, j)
  \/ FetchReads(r) \/ FetchArrives(r) \/ FetchFails(r)
  \/ Accept(r) \/ Refuse(r)

Next ==
  \/ \E r \in Calls : Authenticate(r)
  \/ (\E j \in Jtis : Sign(j)) \/ Rotate
  \/ Sweep \/ Evict \/ Restart \/ Tick

Spec == Init /\ [][Next]_vars

-----------------------------------------------------------------------------
(* As long as the process lives an assertion is accepted at most once: no  *)
(* sweep and no full store forgets it while it would still verify, and two *)
(* requests with it at once do not both pass (client-assertion.ts:222-240).*)
AssertionOnce == \A j \in Jtis : accepted[j] <= 1

(* A key is accepted for at most the life of a cached key set after the    *)
(* client withdrew it, but for the time of the fetch that read it and of   *)
(* the verification, even if an older answer overwrites a newer one in the *)
(* cache (client-assertion.ts:12-18, 84-89). *)
WithdrawnKeyDies == overstay < JwksTTL + 2 * FetchTime
=============================================================================
