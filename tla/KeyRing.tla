------------------------------ MODULE KeyRing ------------------------------
(***************************************************************************)
(* The signing keys of the proxy (crypto/) and the cache in which a        *)
(* verifier keeps their public halves (asterism-verify).  Signers are      *)
(* handlers that mint an access token, rotations are processes of the CLI. *)
(* A deadline is an instant on the one clock; signature checks are a       *)
(* library's.                                                              *)
(*                                                                         *)
(* The callers of getKey that await the same fetch resume together when it *)
(* ends: they are the set of the kids they asked for.                      *)
(***************************************************************************)
EXTENDS Naturals

CONSTANTS
  Kids,
  Signers, Rotations, None,
  TokenLife,     \* DEFAULT_TTL_SECONDS
  Retention,     \* RETIRED_KEY_RETENTION_MS
  MaxAge,        \* of the JWKS response
  MaxStale,      \* of the verifier
  MinInterval, Backoff, MissedTTL,
  HoldTime,      \* a handler signs within this time of reading the key
  FetchTime,     \* FETCH_TIMEOUT_MS
  MaxTime        \* bound: the clock

ASSUME KeyAssumption ==
  /\ {TokenLife, Retention, MaxAge, MaxStale, MinInterval, Backoff, MissedTTL, HoldTime,
      FetchTime, MaxTime} \subseteq Nat
  /\ None \notin Kids
  /\ TokenLife + HoldTime < Retention

VARIABLES
  now,
  status,        \* status[k]: what table signing_keys says of k
  since,         \* since[k]: when it was retired; history: or deleted
  expiry,        \* history: when the last live token signed with k expires
  signer,        \* signer[s]: its pc, the key it holds, since when
  rotation,      \* rotation[r]: its pc, and what it read
  cache,         \* of the verifier: the key set, when fetched, until when fresh
  nextAttempt,
  fetch,         \* the fetch under way: when it began, the keys of the answer
  waiting,       \* the kids that callers await
  missed,        \* missed[k]: when a refresh failed to find k, None after MissedTTL
  overdue        \* history: how long after its deletion a key was given out

table == << status, since >>
verifier == << cache, nextAttempt, fetch, waiting, missed, overdue >>
vars == << now, table, expiry, signer, rotation, verifier >>

-----------------------------------------------------------------------------
NoCall == [pc |-> "idle", key |-> None, tries |-> 0, at |-> 0]
NoRotation == [pc |-> "idle", compromised |-> FALSE, current |-> None, existing |-> {}]

Init ==
  /\ now = 0
  /\ status = [k \in Kids |-> "unknown"] /\ since = [k \in Kids |-> 0]
  /\ expiry = [k \in Kids |-> 0]
  /\ signer = [s \in Signers |-> NoCall]
  /\ rotation = [r \in Rotations |-> NoRotation]
  /\ cache = None /\ nextAttempt = 0 /\ fetch = None /\ waiting = {}
  /\ missed = [k \in Kids |-> None]
  /\ overdue = 0

Created == {k \in Kids : status[k] # "unknown"}
Stored == {k \in Kids : status[k] \in {"active", "retired"}}
Active == {k \in Kids : status[k] = "active"}

-----------------------------------------------------------------------------
(* Signing (getSigningKeyForSigning, createAndActivateKey, signJwt).       *)

Hold(s, k) ==
  signer' = [signer EXCEPT ![s] = [pc |-> "holds", key |-> k, tries |-> 0, at |-> now]]

Goes(s, pc, tries) == signer' = [signer EXCEPT ![s] = [NoCall EXCEPT !.pc = pc, !.tries = tries]]

ReadKey(s) ==
  /\ signer[s].pc = "idle"
  /\ IF Active = {} THEN Goes(s, "create", 0) ELSE \E k \in Active : Hold(s, k)
  /\ UNCHANGED << now, table, expiry, rotation, verifier >>

(* The index signing_keys_single_active. *)
NoIndex(active) == TRUE
Index(active) == active = {}

CreateKey(s) ==
  /\ signer[s].pc = "create"
  /\ IF Index(Active)
     THEN \E k \in Kids \ Created : status' = [status EXCEPT ![k] = "active"] /\ Hold(s, k)
     ELSE Goes(s, "lost", signer[s].tries) /\ UNCHANGED status
  /\ UNCHANGED << now, since, expiry, rotation, verifier >>

(* The loser takes the winner's key, or tries again, or throws. *)
ReadWinner(s) ==
  /\ signer[s].pc = "lost"
  /\ IF Active # {} THEN \E k \in Active : Hold(s, k)
     ELSE IF signer[s].tries < 2 THEN Goes(s, "create", signer[s].tries + 1)
     ELSE Goes(s, "idle", 0)
  /\ UNCHANGED << now, table, expiry, rotation, verifier >>

Sign(s) ==
  /\ signer[s].pc = "holds"
  /\ expiry' = [expiry EXCEPT ![signer[s].key] = now + TokenLife]
  /\ Goes(s, "idle", 0)
  /\ UNCHANGED << now, table, rotation, verifier >>

-----------------------------------------------------------------------------
(* rotateSigningKey: a read, of the active key or, for a compromise, of    *)
(* all; then one transaction. *)

Starts(r, compromised, current, existing) ==
  /\ rotation[r].pc = "idle" /\ Created # Kids
  /\ rotation' = [rotation EXCEPT ![r] =
       [pc |-> "commit", compromised |-> compromised, current |-> current, existing |-> existing]]
  /\ UNCHANGED << now, table, expiry, signer, verifier >>

ReadCurrent(r) ==
  \E c \in IF Active = {} THEN {None} ELSE Active : Starts(r, FALSE, c, {})

ReadExisting(r) == Starts(r, TRUE, None, Stored)

DeletedActive(r) == rotation[r].existing \cap Active
Deleted(r) == rotation[r].existing

(* The old rows, then the new one: k. *)
Old(r, k) ==
  /\ status' = [j \in Kids |->
       IF j = k THEN "active"
       ELSE IF rotation[r].compromised
            THEN IF j \in Deleted(r) THEN "deleted" ELSE status[j]
            ELSE IF j = rotation[r].current THEN "retired" ELSE status[j]]
  /\ since' = [j \in Kids |->
       IF status'[j] # status[j] \/ (status'[j] = "retired" /\ j = rotation[r].current)
       THEN now ELSE since[j]]

(* The rows whose index entries are still there when k comes. *)
Remaining(r) ==
  Active \ (IF rotation[r].compromised THEN Deleted(r) ELSE {rotation[r].current})

EndRotation(r) == rotation' = [rotation EXCEPT ![r] = NoRotation]

Commit(r) ==
  /\ rotation[r].pc = "commit"
  /\ Index(Remaining(r))
  /\ ~rotation[r].compromised => rotation[r].current \in Stored \cup {None}
  /\ \E k \in Kids \ Created : Old(r, k)
  /\ EndRotation(r)
  /\ UNCHANGED << now, expiry, signer, verifier >>

(* P2002 or P2025: somebody rotated or created a key meanwhile. *)
Rejected(r) ==
  /\ rotation[r].pc = "commit"
  /\ ~Index(Remaining(r)) \/ (~rotation[r].compromised /\ rotation[r].current \notin Stored \cup {None})
  /\ EndRotation(r)
  /\ UNCHANGED << now, table, expiry, signer, verifier >>

-----------------------------------------------------------------------------
(* The verifier (getKey, refresh).                                         *)

(* getJwks. *)
PublishedFor(length) ==
  {k \in Kids : status[k] = "active" \/ (status[k] = "retired" /\ now < since[k] + length)}

PublishedBriefly == PublishedFor(TokenLife)
Published == PublishedFor(Retention)

Fresh == cache # None /\ now < cache.expiresAt
Cached(k) == cache # None /\ k \in cache.keys
NeverTooStale == FALSE
TooStale == now > cache.fetchedAt + MaxStale

(* Of several keys given out at once, that which was deleted first counts. *)
Give(kids) ==
  LET ages == {overdue} \cup {now - since[k] : k \in {j \in kids : status[j] = "deleted"}}
  IN  \E d \in ages : (\A e \in ages : e <= d) /\ overdue' = d

RecentlyMissed(k) == ~Cached(k) /\ Fresh /\ missed[k] # None

FromCache(k) ==
  /\ Cached(k) /\ Fresh
  /\ Give({k})
  /\ UNCHANGED << now, table, expiry, signer, rotation, cache, nextAttempt, fetch, waiting, missed >>

(* What there is, unless that is nothing usable; then it throws. *)
RateLimited(k) ==
  /\ ~(Cached(k) /\ Fresh) /\ fetch = None
  /\ RecentlyMissed(k) \/ now < nextAttempt
  /\ cache # None /\ ~TooStale /\ Cached(k)
  /\ Give({k})
  /\ UNCHANGED << now, table, expiry, signer, rotation, cache, nextAttempt, fetch, waiting, missed >>

Join(k) ==
  /\ ~(Cached(k) /\ Fresh) /\ fetch # None
  /\ waiting' = waiting \cup {k}
  /\ UNCHANGED << now, table, expiry, signer, rotation, cache, nextAttempt, fetch, missed, overdue >>

Refresh(k) ==
  /\ ~(Cached(k) /\ Fresh) /\ fetch = None
  /\ ~RecentlyMissed(k) /\ now >= nextAttempt
  /\ nextAttempt' = now + MinInterval
  /\ fetch' = [began |-> now, keys |-> None]
  /\ waiting' = {k}
  /\ UNCHANGED << now, table, expiry, signer, rotation, cache, missed, overdue >>

GetKey(k) == FromCache(k) \/ RateLimited(k) \/ Join(k) \/ Refresh(k)

(* GET /.well-known/jwks.json. *)
Answer ==
  /\ fetch # None /\ fetch.keys = None
  /\ fetch' = [fetch EXCEPT !.keys = Published]
  /\ UNCHANGED << now, table, expiry, signer, rotation, cache, nextAttempt, waiting, missed, overdue >>

Smaller(m, n) == IF m < n THEN m ELSE n
Larger(m, n) == IF m < n THEN n ELSE m

(* missedKids.clear(), then noteMiss by each caller that finds nothing. *)
NotedMisses(kids) == [k \in Kids |-> IF k \in kids THEN now ELSE None]

(* The promise settles: inflight is cleared, its callers resume. *)
Settled == fetch' = None /\ waiting' = {}

FetchSucceeds ==
  /\ fetch # None /\ fetch.keys # None
  /\ cache' = [keys |-> fetch.keys, fetchedAt |-> now, expiresAt |-> now + Smaller(MaxAge, MaxStale)]
  /\ missed' = NotedMisses(waiting \ fetch.keys)
  /\ Give(waiting \cap fetch.keys)
  /\ Settled
  /\ UNCHANGED << now, table, expiry, signer, rotation, nextAttempt >>

FetchFails ==
  /\ fetch # None
  /\ nextAttempt' = Larger(nextAttempt, fetch.began + Backoff)
  /\ Give(IF cache = None THEN {} ELSE IF TooStale THEN {} ELSE waiting \cap cache.keys)
  /\ Settled
  /\ UNCHANGED << now, table, expiry, signer, rotation, cache, missed >>

(* The resource server starts again, with a cold cache. *)
Restart ==
  /\ cache' = None /\ nextAttempt' = 0 /\ fetch' = None /\ waiting' = {}
  /\ missed' = [k \in Kids |-> None]
  /\ UNCHANGED << now, table, expiry, signer, rotation, overdue >>

-----------------------------------------------------------------------------
(* Time passes, but not past the abort of a fetch, nor while a handler     *)
(* that has read its key for longer than HoldTime has not signed.  What an *)
(* instant that has passed no longer decides is forgotten. *)
Tick ==
  /\ now < MaxTime /\ now' = now + 1
  /\ fetch # None => now < fetch.began + FetchTime
  /\ \A s \in Signers : signer[s].pc = "holds" => now < signer[s].at + HoldTime
  /\ expiry' = [k \in Kids |-> IF expiry[k] > now' THEN expiry[k] ELSE 0]
  /\ nextAttempt' = IF nextAttempt > now' THEN nextAttempt ELSE 0
  /\ missed' = [k \in Kids |->
       IF missed[k] # None /\ missed[k] + MissedTTL > now' THEN missed[k] ELSE None]
  /\ UNCHANGED << table, signer, rotation, cache, fetch, waiting, overdue >>

Next ==
  \/ \E s \in Signers : ReadKey(s) \/ CreateKey(s) \/ ReadWinner(s) \/ Sign(s)
  \/ \E r \in Rotations : ReadCurrent(r) \/ ReadExisting(r) \/ Commit(r) \/ Rejected(r)
  \/ \E k \in Created : GetKey(k)
  \/ Answer \/ FetchSucceeds \/ FetchFails \/ Restart \/ Tick

Spec == Init /\ [][Next]_vars

-----------------------------------------------------------------------------
(* Types, and that only a handler that holds a key has one. *)
TypeOK ==
  /\ now \in Nat
  /\ status \in [Kids -> {"unknown", "active", "retired", "deleted"}]
  /\ since \in [Kids -> Nat] /\ expiry \in [Kids -> Nat] /\ overdue \in Nat
  /\ signer \in [Signers -> [pc : {"idle", "create", "lost", "holds"}, key : Kids \cup {None},
                             tries : 0 .. 2, at : Nat]]
  /\ \A s \in Signers : signer[s].pc = "holds" <=> signer[s].key # None
  /\ rotation \in [Rotations -> [pc : {"idle", "commit"}, compromised : BOOLEAN,
                                 current : Kids \cup {None}, existing : SUBSET Kids]]
  /\ cache = None \/ cache \in [keys : SUBSET Kids, fetchedAt : Nat, expiresAt : Nat]
  /\ nextAttempt \in Nat
  /\ fetch = None \/ fetch \in [began : Nat, keys : {None} \cup SUBSET Kids]
  /\ waiting \subseteq Kids
  /\ missed \in [Kids -> Nat \cup {None}]

(* Signers and rotations that race for the first key or the next leave     *)
(* exactly one active key, and never a gap (signing-keys.ts:38-66, 100-121). *)
OneActive ==
  /\ \A j, k \in Active : j = k
  /\ Created # {} => Active # {}

(* A rotation for a compromise leaves no older key behind, whatever other  *)
(* rotations did between its reads and its transaction                     *)
(* (signing-keys.ts:95-99). *)
CompromiseLeavesOne ==
  [][\A r \in Rotations :
       (rotation[r].pc = "commit" /\ rotation[r].compromised /\ status' # status
          /\ rotation'[r] # rotation[r])
         => \A k \in Kids : status'[k] # "retired"]_vars

(* While a token lives, the key that signed it is published, also when the *)
(* key was retired between being read and signing; only a deletion takes   *)
(* it away (signing-keys.ts:92-93, 130-137). *)
LiveKeyPublished ==
  \A k \in Kids : (now < expiry[k] /\ status[k] # "deleted") => k \in Published

(* No verifier, however its refreshes fail, gives out a deleted key past   *)
(* the time that one fetch and the stale limit take (jwks-cache.ts:127-133). *)
DeletedNotTrusted ==
  overdue <= FetchTime + MaxStale
=============================================================================
