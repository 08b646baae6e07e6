-------------------------- MODULE ClientAuthProofs --------------------------
(***************************************************************************)
(* Theorems about ClientAuth, for any number of requests, assertions and   *)
(* keys.                                                                   *)
(*                                                                         *)
(* An accepted assertion is kept until it can no longer be accepted        *)
(* (Remembered).  A key set that shows a key was read before the key was   *)
(* withdrawn, so that neither the cache nor a request has it for long      *)
(* after (Timely).                                                         *)
(***************************************************************************)
EXTENDS ClientAuth, TLAPS

Keys == 1..MaxKeys
Assertion == [exp : Nat, key : Keys, kid : BOOLEAN]
Call == [pc : {"idle", "fetches", "arrives", "verifies"}, jti : Jtis \cup {None},
         key : Keys \cup {None}, at : Nat]

(* A request under way has an assertion that was signed, and the keys that *)
(* its step is about. *)
CallOK(r) ==
  /\ call[r].pc # "idle" => call[r].jti \in Jtis /\ signed[call[r].jti] # None
  /\ call[r].pc \in {"arrives", "verifies"} => call[r].key \in Keys

TypeOK ==
  /\ now \in Nat /\ published \in Keys
  /\ withdrawn \in [Keys -> Nat \cup {None}]
  /\ signed \in [Jtis -> Assertion \cup {None}]
  /\ jwksCache \in [key : Keys, expiresAt : Nat] \cup {None}
  /\ lastRefetch \in Nat \cup {None}
  /\ seenJti \in [Jtis -> Nat \cup {None}]
  /\ call \in [Calls -> Call]
  /\ \A r \in Calls : CallOK(r)
  /\ accepted \in [Jtis -> Nat]
  /\ overstay \in Nat

RememberedOK(j) ==
  /\ accepted[j] <= 1
  /\ accepted[j] = 1 =>
       /\ signed[j] # None
       /\ seenJti[j] = signed[j].exp + Skew \/ now >= signed[j].exp + Skew

Remembered == \A j \in Jtis : RememberedOK(j)

Withdrawn == \A k \in Keys : withdrawn[k] # None => k < published

TimelyCache ==
  jwksCache # None =>
    /\ jwksCache.expiresAt <= now + JwksTTL
    /\ withdrawn[jwksCache.key] # None => jwksCache.expiresAt <= withdrawn[jwksCache.key] + FetchTime + JwksTTL

TimelyCall(r) ==
  /\ call[r].pc # "idle" => call[r].at <= now /\ now <= call[r].at + FetchTime
  /\ (call[r].pc = "arrives" /\ withdrawn[call[r].key] # None) => call[r].at <= withdrawn[call[r].key]
  /\ (call[r].pc = "verifies" /\ withdrawn[call[r].key] # None) =>
       call[r].at < withdrawn[call[r].key] + FetchTime + JwksTTL

Timely == Withdrawn /\ TimelyCache /\ \A r \in Calls : TimelyCall(r)

IInv == TypeOK /\ Remembered /\ Timely /\ WithdrawnKeyDies

-----------------------------------------------------------------------------
(* How the requests and the store move.                                    *)

Kept(r) == call'[r] = call[r]
NowIs(r, pc, jti, key) ==
  call'[r].pc = pc /\ call'[r].jti = jti /\ call'[r].key = key /\ call'[r].at = now

LEMMA NatAssumption ==
  /\ JwksTTL \in Nat /\ FetchTime \in Nat /\ Skew \in Nat /\ Lifetime \in Nat /\ MaxKeys \in Nat
  /\ 0 < JwksTTL /\ 0 < MaxKeys
BY ClientAuthAssumption

LEMMA GoesType ==
  ASSUME TypeOK, NEW r \in Calls, NEW pc \in {"fetches", "arrives", "verifies"},
         NEW jti \in Jtis, NEW key \in Keys \cup {None}, Goes(r, pc, jti, key)
  PROVE  /\ call' \in [Calls -> Call]
         /\ \A q \in Calls \ {r} : Kept(q)
         /\ NowIs(r, pc, jti, key)
<1> DEFINE new == [pc |-> pc, jti |-> jti, key |-> key, at |-> now]
<1>1. /\ new \in Call /\ new.pc = pc /\ new.jti = jti /\ new.key = key /\ new.at = now
      /\ call \in [Calls -> Call]
  BY DEF TypeOK, Call
<1>2. call' = [call EXCEPT ![r] = new]
  BY DEF Goes
<1> HIDE DEF new
<1> QED
  BY <1>1, <1>2 DEF Kept, NowIs

LEMMA NoCallType == NoCall \in Call /\ NoCall.pc = "idle"
BY DEF NoCall, Call

LEMMA ReturnType ==
  ASSUME TypeOK, NEW r \in Calls, Return(r)
  PROVE  /\ call' \in [Calls -> Call]
         /\ \A q \in Calls \ {r} : Kept(q)
         /\ call'[r].pc = "idle"
BY NoCallType DEF TypeOK, Return, Kept

(* A step of a request that leaves the client and the store alone. *)
LEMMA Steps ==
  ASSUME IInv, NEW r \in Calls,
         call' \in [Calls -> Call], \A q \in Calls \ {r} : Kept(q),
         CallOK(r)', TimelyCall(r)', TimelyCache',
         jwksCache' \in [key : Keys, expiresAt : Nat] \cup {None},
         lastRefetch' \in Nat \cup {None},
         UNCHANGED << now, client, seenJti, accepted, overstay >>
  PROVE  IInv'
<1>1. \A q \in Calls : CallOK(q)'
  BY DEF IInv, TypeOK, CallOK, Kept, client
<1>2. \A q \in Calls : TimelyCall(q)'
  BY DEF IInv, Timely, TimelyCall, Kept, client
<1>3. TypeOK'
  BY <1>1 DEF IInv, TypeOK, client
<1>4. Remembered' /\ WithdrawnKeyDies' /\ Withdrawn'
  BY DEF IInv, Remembered, RememberedOK, WithdrawnKeyDies, Timely, Withdrawn, client
<1> QED
  BY <1>2, <1>3, <1>4 DEF IInv, Timely

LEMMA Presents ==
  ASSUME IInv, NEW r \in Calls, NEW j \in Jtis, signed[j] # None, Goes(r, "fetches", j, None),
         lastRefetch' \in Nat \cup {None},
         UNCHANGED << now, client, jwksCache, seenJti, accepted, overstay >>
  PROVE  IInv'
<1>1. TypeOK /\ now \in Nat /\ FetchTime \in Nat
  BY NatAssumption DEF IInv, TypeOK
<1>2. call' \in [Calls -> Call] /\ (\A q \in Calls \ {r} : Kept(q)) /\ NowIs(r, "fetches", j, None)
  BY <1>1, GoesType
<1>3. CallOK(r)' /\ TimelyCall(r)'
  BY <1>1, <1>2 DEF CallOK, TimelyCall, NowIs, client
<1>4. TimelyCache' /\ jwksCache' \in [key : Keys, expiresAt : Nat] \cup {None}
  BY DEF IInv, TypeOK, Timely, TimelyCache, client
<1> QED
  BY <1>2, <1>3, <1>4, Steps

LEMMA PresentStep ==
  ASSUME IInv, NEW r \in Calls, NEW j \in Jtis,
         PresentCold(r, j) \/ PresentUnknownKid(r, j)
  PROVE  IInv'
<1>1. lastRefetch \in Nat \cup {None} /\ now \in Nat
  BY DEF IInv, TypeOK
<1> QED
  BY <1>1, Presents DEF PresentCold, PresentUnknownKid, memory

LEMMA PresentCachedStep ==
  ASSUME IInv, NEW r \in Calls, NEW j \in Jtis, PresentCached(r, j) PROVE IInv'
<1>1. /\ TypeOK /\ now \in Nat /\ signed[j] # None /\ jwksCache # None
      /\ jwksCache.key \in Keys /\ jwksCache.expiresAt \in Nat /\ now < jwksCache.expiresAt
      /\ (withdrawn[jwksCache.key] # None => withdrawn[jwksCache.key] \in Nat)
      /\ Goes(r, "verifies", j, jwksCache.key)
      /\ UNCHANGED << now, client, memory, accepted, overstay >>
  BY DEF IInv, TypeOK, PresentCached, Fresh
<1>2. call' \in [Calls -> Call] /\ (\A q \in Calls \ {r} : Kept(q)) /\ NowIs(r, "verifies", j, jwksCache.key)
  BY <1>1, GoesType
<1>3. withdrawn[jwksCache.key] # None => now < withdrawn[jwksCache.key] + FetchTime + JwksTTL
  BY <1>1, NatAssumption DEF IInv, Timely, TimelyCache
<1>4. CallOK(r)' /\ TimelyCall(r)'
  BY <1>1, <1>2, <1>3, NatAssumption DEF CallOK, TimelyCall, NowIs, client
<1>5. TimelyCache' /\ jwksCache' \in [key : Keys, expiresAt : Nat] \cup {None}
      /\ lastRefetch' \in Nat \cup {None} /\ UNCHANGED seenJti
  BY <1>1 DEF IInv, TypeOK, Timely, TimelyCache, client, memory
<1> QED
  BY <1>1, <1>2, <1>4, <1>5, Steps

LEMMA FetchReadsStep == ASSUME IInv, NEW r \in Calls, FetchReads(r) PROVE IInv'
<1>1. /\ TypeOK /\ now \in Nat /\ call[r].jti \in Jtis /\ signed[call[r].jti] # None
      /\ published \in Keys /\ published \in Nat
      /\ Goes(r, "arrives", call[r].jti, published)
      /\ UNCHANGED << now, client, memory, accepted, overstay >>
  BY NatAssumption DEF IInv, TypeOK, CallOK, FetchReads, Keys
<1>2. /\ call' \in [Calls -> Call] /\ (\A q \in Calls \ {r} : Kept(q))
      /\ NowIs(r, "arrives", call[r].jti, published)
  BY <1>1, GoesType
<1>3. withdrawn[published] = None
  BY <1>1 DEF IInv, Timely, Withdrawn
<1>4. CallOK(r)' /\ TimelyCall(r)'
  BY <1>1, <1>2, <1>3, NatAssumption DEF CallOK, TimelyCall, NowIs, client
<1>5. TimelyCache' /\ jwksCache' \in [key : Keys, expiresAt : Nat] \cup {None}
      /\ lastRefetch' \in Nat \cup {None} /\ UNCHANGED seenJti
  BY <1>1 DEF IInv, TypeOK, Timely, TimelyCache, client, memory
<1> QED
  BY <1>1, <1>2, <1>4, <1>5, Steps

LEMMA FetchArrivesStep == ASSUME IInv, NEW r \in Calls, FetchArrives(r) PROVE IInv'
<1> DEFINE k == call[r].key
<1>1. PICK ttl \in 0..JwksTTL :
        jwksCache' = IF ttl > 0 THEN [key |-> k, expiresAt |-> now + ttl] ELSE None
  BY DEF FetchArrives
<1>2. /\ TypeOK /\ now \in Nat /\ call[r].pc = "arrives" /\ call[r].at \in Nat
      /\ call[r].jti \in Jtis /\ signed[call[r].jti] # None
      /\ k \in Keys /\ (withdrawn[k] # None => withdrawn[k] \in Nat)
      /\ Goes(r, "verifies", call[r].jti, k)
      /\ UNCHANGED << now, client, lastRefetch, seenJti, accepted, overstay >>
  BY DEF IInv, TypeOK, CallOK, FetchArrives, Call
<1>3. /\ now <= call[r].at + FetchTime
      /\ withdrawn[k] # None => call[r].at <= withdrawn[k]
  BY <1>2 DEF IInv, Timely, TimelyCall
<1> HIDE DEF k
<1>4. withdrawn[k] # None => now <= withdrawn[k] + FetchTime
  BY <1>2, <1>3, NatAssumption
<1>5. /\ call' \in [Calls -> Call] /\ (\A q \in Calls \ {r} : Kept(q))
      /\ NowIs(r, "verifies", call[r].jti, k)
  BY <1>2, GoesType
<1>6. CallOK(r)'
  BY <1>2, <1>5 DEF CallOK, NowIs, client
<1>7. TimelyCall(r)'
  BY <1>2, <1>4, <1>5, NatAssumption DEF TimelyCall, NowIs, client
<1>8. jwksCache' \in [key : Keys, expiresAt : Nat] \cup {None}
  BY <1>1, <1>2, NatAssumption
<1>9. TimelyCache'
  BY <1>1, <1>2, <1>4, NatAssumption DEF TimelyCache, client
<1>10. lastRefetch' \in Nat \cup {None}
  BY <1>2 DEF TypeOK
<1> QED
  BY <1>2, <1>5, <1>6, <1>7, <1>8, <1>9, <1>10, Steps

LEMMA FetchFailsStep == ASSUME IInv, NEW r \in Calls, FetchFails(r) PROVE IInv'
<1>1. TypeOK /\ Return(r) /\ UNCHANGED << now, client, memory, accepted, overstay >>
  BY DEF IInv, FetchFails
<1>2. call' \in [Calls -> Call] /\ (\A q \in Calls \ {r} : Kept(q)) /\ call'[r].pc = "idle"
  BY <1>1, ReturnType
<1>3. CallOK(r)' /\ TimelyCall(r)'
  BY <1>2 DEF CallOK, TimelyCall
<1>4. TimelyCache' /\ jwksCache' \in [key : Keys, expiresAt : Nat] \cup {None}
      /\ lastRefetch' \in Nat \cup {None} /\ UNCHANGED seenJti
  BY <1>1 DEF IInv, TypeOK, Timely, TimelyCache, client, memory
<1> QED
  BY <1>1, <1>2, <1>3, <1>4, Steps

-----------------------------------------------------------------------------
(* The store.                                                              *)

(* A store that has kept what still verifies. *)
Forgets(seen) ==
  /\ seen \in [Jtis -> Nat \cup {None}]
  /\ \A j \in Jtis : seen[j] = seenJti[j] \/ (seen[j] = None /\ seenJti[j] <= now)

LEMMA RoomForgets == ASSUME TypeOK PROVE Forgets(Swept) /\ Forgets(Room)
<1>1. Forgets(Swept)
  BY DEF Forgets, Swept, TypeOK
<1>2. Forgets(seenJti)
  BY DEF Forgets, TypeOK
<1> QED
  BY <1>1, <1>2 DEF Room

LEMMA Remembers ==
  ASSUME IInv, NEW j \in Jtis, seenJti'[j] = seenJti[j] \/ (seenJti'[j] = None /\ seenJti[j] <= now),
         UNCHANGED << now, signed >>, accepted'[j] = accepted[j]
  PROVE  RememberedOK(j)'
<1>1. RememberedOK(j) /\ now \in Nat /\ Skew \in Nat
  BY NatAssumption DEF IInv, Remembered, TypeOK
<1>2. CASE accepted[j] = 1 /\ seenJti[j] = signed[j].exp + Skew /\ seenJti[j] <= now
  <2>1. signed[j] \in Assertion /\ signed[j].exp \in Nat
    BY <1>1, <1>2 DEF RememberedOK, Assertion, IInv, TypeOK
  <2> QED
    BY <1>1, <1>2, <2>1 DEF RememberedOK
<1> QED
  BY <1>1, <1>2 DEF RememberedOK

LEMMA Quiet ==
  ASSUME IInv, NEW r \in Calls, Return(r), UNCHANGED << now, client, jwksCache, lastRefetch >>,
         seenJti' \in [Jtis -> Nat \cup {None}], accepted' \in [Jtis -> Nat], overstay' \in Nat,
         Remembered', WithdrawnKeyDies'
  PROVE  IInv'
<1>1. TypeOK
  BY DEF IInv
<1>2. call' \in [Calls -> Call] /\ (\A q \in Calls \ {r} : Kept(q)) /\ call'[r].pc = "idle"
  BY <1>1, ReturnType
<1>3. TypeOK'
  BY <1>1, <1>2 DEF TypeOK, CallOK, Kept, client
<1>4. Timely'
  BY <1>2 DEF IInv, Timely, Withdrawn, TimelyCache, TimelyCall, Kept, client
<1> QED
  BY <1>3, <1>4 DEF IInv

LEMMA AcceptStep == ASSUME IInv, NEW r \in Calls, Accept(r) PROVE IInv'
<1> DEFINE j == call[r].jti
           k == call[r].key
<1>1. /\ TypeOK /\ now \in Nat /\ call[r].pc = "verifies" /\ call[r].at \in Nat
      /\ j \in Jtis /\ signed[j] # None /\ signed[j] \in Assertion /\ k \in Keys
      /\ (withdrawn[k] # None => withdrawn[k] \in Nat) /\ overstay \in Nat
      /\ accepted \in [Jtis -> Nat]
  BY DEF IInv, TypeOK, CallOK, Accept, Call
<1>2. /\ now < signed[j].exp + Skew /\ seenJti[j] = None
      /\ seenJti' = [Room EXCEPT ![j] = signed[j].exp + Skew]
      /\ accepted' = [accepted EXCEPT ![j] = accepted[j] + 1]
      /\ overstay' = IF withdrawn[k] = None THEN overstay ELSE Longer(overstay, now - withdrawn[k])
      /\ Return(r)
      /\ UNCHANGED << now, client, jwksCache, lastRefetch >>
  BY DEF Accept, Verifies, KeptUntil
<1>3. /\ now <= call[r].at + FetchTime
      /\ withdrawn[k] # None => call[r].at < withdrawn[k] + FetchTime + JwksTTL
  BY <1>1 DEF IInv, Timely, TimelyCall
<1>4. overstay < JwksTTL + 2 * FetchTime
  BY DEF IInv, WithdrawnKeyDies
<1> HIDE DEF j, k
<1>5. signed[j].exp + Skew \in Nat /\ accepted[j] \in Nat /\ signed[j].exp \in Nat
  BY <1>1, NatAssumption DEF Assertion
<1>6. Forgets(Room)
  BY <1>1, RoomForgets
<1>7. seenJti' \in [Jtis -> Nat \cup {None}] /\ accepted' \in [Jtis -> Nat]
  BY <1>1, <1>2, <1>5, <1>6 DEF Forgets
<1>8. accepted[j] = 0
  <2>1. RememberedOK(j) /\ (None \notin Nat)
    BY <1>1, ClientAuthAssumption DEF IInv, Remembered
  <2> QED
    BY <1>1, <1>2, <1>5, <2>1 DEF RememberedOK
<1>9. ASSUME NEW i \in Jtis PROVE RememberedOK(i)'
  <2>1. CASE i = j
    <3>1. signed'[j] # None /\ seenJti'[j] = signed'[j].exp + Skew /\ accepted'[j] = 1
      BY <1>1, <1>2, <1>6, <1>8 DEF client, Forgets
    <3> QED
      BY <2>1, <3>1 DEF RememberedOK
  <2>2. CASE i # j
    <3>1. seenJti'[i] = Room[i] /\ accepted'[i] = accepted[i] /\ UNCHANGED signed
      BY <1>1, <1>2, <1>6, <2>2 DEF Forgets, client
    <3> QED
      BY <1>2, <1>6, <3>1, Remembers DEF Forgets
  <2> QED
    BY <2>1, <2>2
<1>10. overstay' \in Nat /\ overstay' < JwksTTL + 2 * FetchTime
  <2>1. CASE withdrawn[k] = None
    BY <1>1, <1>2, <1>4, <2>1
  <2>2. CASE withdrawn[k] # None
    <3>1. now - withdrawn[k] < JwksTTL + 2 * FetchTime
      BY <1>1, <1>3, <2>2, NatAssumption
    <3>2. overstay' = IF overstay > now - withdrawn[k] THEN overstay ELSE now - withdrawn[k]
      BY <1>2, <2>2 DEF Longer
    <3> QED
      BY <1>1, <1>4, <2>2, <3>1, <3>2
  <2> QED
    BY <2>1, <2>2
<1> QED
  BY <1>2, <1>7, <1>9, <1>10, Quiet DEF Remembered, WithdrawnKeyDies

LEMMA RefuseStep == ASSUME IInv, NEW r \in Calls, Refuse(r) PROVE IInv'
<1>1. TypeOK
  BY DEF IInv
<1>2. /\ seenJti' = Room \/ seenJti' = seenJti
      /\ Return(r)
      /\ UNCHANGED << now, client, jwksCache, lastRefetch, accepted, overstay >>
  BY DEF Refuse
<1>3. Forgets(Room)
  BY <1>1, RoomForgets
<1>4. seenJti' \in [Jtis -> Nat \cup {None}] /\ accepted' \in [Jtis -> Nat] /\ overstay' \in Nat
  BY <1>1, <1>2, <1>3 DEF Forgets, TypeOK
<1>5. ASSUME NEW i \in Jtis PROVE RememberedOK(i)'
  BY <1>2, <1>3, Remembers DEF Forgets, client
<1>6. WithdrawnKeyDies'
  BY <1>2 DEF IInv, WithdrawnKeyDies
<1> QED
  BY <1>2, <1>4, <1>5, <1>6, Quiet DEF Remembered

-----------------------------------------------------------------------------
(* Steps of the others.                                                    *)

LEMMA SignStep == ASSUME IInv, NEW j \in Jtis, Sign(j) PROVE IInv'
<1>1. PICK exp \in now .. now + Lifetime + Skew, key \in 1..published, kid \in BOOLEAN :
        signed' = [signed EXCEPT ![j] = [exp |-> exp, key |-> key, kid |-> kid]]
  BY DEF Sign
<1>2. /\ TypeOK /\ now \in Nat /\ published \in Keys /\ signed[j] = None
      /\ UNCHANGED << now, published, withdrawn, memory, call, accepted, overstay >>
  BY DEF IInv, TypeOK, Sign
<1>3. exp \in Nat /\ key \in Keys
  BY <1>2, NatAssumption DEF Keys
<1>4. [exp |-> exp, key |-> key, kid |-> kid] \in Assertion
  BY <1>3 DEF Assertion
<1>5. /\ signed' \in [Jtis -> Assertion \cup {None}]
      /\ \A i \in Jtis \ {j} : signed'[i] = signed[i]
  BY <1>1, <1>2, <1>4 DEF TypeOK
<1>6. ASSUME NEW r \in Calls PROVE CallOK(r)'
  BY <1>2, <1>5 DEF TypeOK, CallOK
<1>7. TypeOK'
  BY <1>2, <1>5, <1>6 DEF TypeOK, memory
<1>8. ASSUME NEW i \in Jtis PROVE RememberedOK(i)'
  <2>1. RememberedOK(i)
    BY DEF IInv, Remembered
  <2>2. CASE i # j
    BY <1>2, <1>5, <2>1, <2>2 DEF RememberedOK, memory
  <2>3. CASE i = j
    BY <1>2, <2>1, <2>3, NatAssumption DEF RememberedOK, memory
  <2> QED
    BY <2>2, <2>3
<1>9. Timely'
  BY <1>2 DEF IInv, Timely, Withdrawn, TimelyCache, TimelyCall, memory
<1>10. WithdrawnKeyDies'
  BY <1>2 DEF IInv, WithdrawnKeyDies
<1> QED
  BY <1>7, <1>8, <1>9, <1>10 DEF IInv, Remembered

LEMMA RotateStep == ASSUME IInv, Rotate PROVE IInv'
<1>1. /\ TypeOK /\ now \in Nat /\ published \in Keys /\ published < MaxKeys
      /\ published' = published + 1 /\ withdrawn' = [withdrawn EXCEPT ![published] = now]
      /\ withdrawn \in [Keys -> Nat \cup {None}]
      /\ UNCHANGED << now, signed, memory, call, accepted, overstay >>
  BY DEF IInv, TypeOK, Rotate
<1>2. /\ published' \in Keys /\ withdrawn' \in [Keys -> Nat \cup {None}]
      /\ \A k \in Keys : withdrawn'[k] = IF k = published THEN now ELSE withdrawn[k]
  BY <1>1, NatAssumption DEF Keys
<1>3. TypeOK'
  BY <1>1, <1>2 DEF TypeOK, CallOK, memory
<1>4. Remembered' /\ WithdrawnKeyDies'
  BY <1>1 DEF IInv, Remembered, RememberedOK, WithdrawnKeyDies, memory
<1>5. Withdrawn'
  BY <1>1, <1>2 DEF IInv, Timely, Withdrawn, Keys
<1>6. TimelyCache'
  <2>1. jwksCache # None => jwksCache.key \in Keys /\ jwksCache.expiresAt \in Nat
    BY <1>1 DEF TypeOK
  <2> QED
    BY <1>1, <1>2, <2>1, NatAssumption DEF IInv, Timely, TimelyCache, memory
<1>7. ASSUME NEW r \in Calls PROVE TimelyCall(r)'
  <2>1. TimelyCall(r) /\ call[r].at \in Nat /\ CallOK(r)
    BY <1>1 DEF IInv, Timely, TypeOK, Call
  <2>2. CASE call[r].pc \in {"arrives", "verifies"} /\ call[r].key = published
    BY <1>1, <1>2, <2>1, <2>2, NatAssumption DEF TimelyCall
  <2>3. CASE call[r].pc \in {"arrives", "verifies"} /\ call[r].key # published
    BY <1>1, <1>2, <2>1, <2>3 DEF TimelyCall, CallOK
  <2> QED
    BY <1>1, <2>1, <2>2, <2>3 DEF TimelyCall
<1> QED
  BY <1>3, <1>4, <1>5, <1>6, <1>7 DEF IInv, Timely

LEMMA SweepStep == ASSUME IInv, Sweep PROVE IInv'
<1>1. TypeOK
  BY DEF IInv
<1>2. seenJti' = Swept /\ Forgets(Swept)
      /\ UNCHANGED << now, client, jwksCache, lastRefetch, call, accepted, overstay >>
  BY <1>1, RoomForgets DEF Sweep
<1>3. TypeOK'
  BY <1>1, <1>2 DEF TypeOK, CallOK, Forgets, client
<1>4. ASSUME NEW i \in Jtis PROVE RememberedOK(i)'
  BY <1>2, Remembers DEF Forgets, client
<1>5. Timely' /\ WithdrawnKeyDies'
  BY <1>2 DEF IInv, Timely, Withdrawn, TimelyCache, TimelyCall, WithdrawnKeyDies, client
<1> QED
  BY <1>3, <1>4, <1>5 DEF IInv, Remembered

LEMMA EvictStep == ASSUME IInv, Evict PROVE IInv'
<1>1. /\ jwksCache' \in {jwksCache, None} /\ lastRefetch' \in {lastRefetch, None}
      /\ UNCHANGED << now, client, seenJti, call, accepted, overstay >>
  BY DEF Evict
<1>2. TypeOK' /\ Remembered' /\ WithdrawnKeyDies'
  BY <1>1 DEF IInv, TypeOK, CallOK, Remembered, RememberedOK, WithdrawnKeyDies, client
<1>3. Timely'
  BY <1>1 DEF IInv, Timely, Withdrawn, TimelyCache, TimelyCall, client
<1> QED
  BY <1>2, <1>3 DEF IInv

LEMMA RestartStep == ASSUME IInv, Restart PROVE IInv'
<1>1. /\ jwksCache' = None /\ lastRefetch' = None
      /\ seenJti' = [j \in Jtis |-> None]
      /\ call' = [r \in Calls |-> NoCall]
      /\ accepted' = [j \in Jtis |-> 0]
      /\ UNCHANGED << now, client, overstay >>
  BY DEF Restart
<1>2. call' \in [Calls -> Call] /\ \A r \in Calls : call'[r].pc = "idle"
  BY <1>1, NoCallType
<1>3. TypeOK' /\ Remembered' /\ WithdrawnKeyDies'
  BY <1>1, <1>2 DEF IInv, TypeOK, CallOK, Remembered, RememberedOK, WithdrawnKeyDies, client
<1>4. Timely'
  BY <1>1, <1>2 DEF IInv, Timely, Withdrawn, TimelyCache, TimelyCall, client
<1> QED
  BY <1>3, <1>4 DEF IInv

LEMMA TickStep == ASSUME IInv, Tick PROVE IInv'
<1>1. /\ TypeOK /\ now \in Nat /\ now' = now + 1 /\ now' \in Nat
      /\ \A r \in Calls : call[r].pc # "idle" => now < call[r].at + FetchTime
      /\ UNCHANGED << client, memory, call, accepted, overstay >>
  BY DEF IInv, TypeOK, Tick
<1>2. TypeOK' /\ WithdrawnKeyDies'
  BY <1>1 DEF IInv, TypeOK, CallOK, WithdrawnKeyDies, client, memory
<1>3. ASSUME NEW j \in Jtis PROVE RememberedOK(j)'
  <2>1. RememberedOK(j) /\ (signed[j] # None => signed[j].exp \in Nat)
    BY <1>1 DEF IInv, Remembered, TypeOK, Assertion
  <2> QED
    BY <1>1, <2>1, NatAssumption DEF RememberedOK, client, memory
<1>4. Withdrawn' /\ TimelyCache'
  <2>1. jwksCache # None => jwksCache.expiresAt \in Nat
    BY <1>1 DEF TypeOK
  <2> QED
    BY <1>1, <2>1, NatAssumption DEF IInv, Timely, Withdrawn, TimelyCache, client, memory
<1>5. ASSUME NEW r \in Calls PROVE TimelyCall(r)'
  <2>1. TimelyCall(r) /\ call[r].at \in Nat
    BY <1>1 DEF IInv, Timely, TypeOK, Call
  <2> QED
    BY <1>1, <2>1, NatAssumption DEF TimelyCall, client
<1> QED
  BY <1>2, <1>3, <1>4, <1>5 DEF IInv, Remembered, Timely

-----------------------------------------------------------------------------
LEMMA Initially == Init => IInv
<1> SUFFICES ASSUME Init PROVE IInv
  OBVIOUS
<1>1. call \in [Calls -> Call] /\ \A r \in Calls : call[r].pc = "idle"
  BY NoCallType DEF Init
<1>2. TypeOK
  BY <1>1, NatAssumption DEF Init, TypeOK, CallOK, Keys
<1>3. Remembered /\ WithdrawnKeyDies
  BY NatAssumption DEF Init, Remembered, RememberedOK, WithdrawnKeyDies
<1>4. Timely
  BY <1>1 DEF Init, Timely, Withdrawn, TimelyCache, TimelyCall, Keys
<1> QED
  BY <1>2, <1>3, <1>4 DEF IInv

LEMMA Stuttering == IInv /\ UNCHANGED vars => IInv'
<1> SUFFICES ASSUME IInv, UNCHANGED vars PROVE IInv'
  OBVIOUS
<1>1. UNCHANGED << now, client, memory, call, accepted, overstay >>
  BY DEF vars
<1>2. TypeOK' /\ Remembered' /\ WithdrawnKeyDies'
  BY <1>1 DEF IInv, TypeOK, CallOK, Remembered, RememberedOK, WithdrawnKeyDies, client, memory
<1>3. Timely'
  BY <1>1 DEF IInv, Timely, Withdrawn, TimelyCache, TimelyCall, client, memory
<1> QED
  BY <1>2, <1>3 DEF IInv

LEMMA Inductive == IInv /\ [Next]_vars => IInv'
<1> SUFFICES ASSUME IInv, [Next]_vars PROVE IInv'
  OBVIOUS
<1>1. CASE UNCHANGED vars
  BY <1>1, Stuttering
<1>2. ASSUME NEW r \in Calls, Authenticate(r) PROVE IInv'
  BY <1>2, PresentStep, PresentCachedStep, FetchReadsStep, FetchArrivesStep, FetchFailsStep,
     AcceptStep, RefuseStep DEF Authenticate
<1>3. CASE (\E j \in Jtis : Sign(j)) \/ Rotate \/ Sweep \/ Evict \/ Restart \/ Tick
  BY <1>3, SignStep, RotateStep, SweepStep, EvictStep, RestartStep, TickStep
<1> QED
  BY <1>1, <1>2, <1>3 DEF Next

(* What is kept of each request, key set and assertion is of its type, and *)
(* a request under way has an assertion (client-assertion.ts:60-110). *)
THEOREM TypeCorrect == Spec => []TypeOK
<1>1. IInv => TypeOK
  BY DEF IInv
<1> QED
  BY <1>1, Initially, Inductive, PTL DEF Spec

(* No assertion is accepted twice in the life of a process, however the    *)
(* store fills and is swept (client-assertion.ts:222-240). *)
THEOREM NoReplay == Spec => []AssertionOnce
<1>1. IInv => AssertionOnce
  BY DEF IInv, Remembered, RememberedOK, AssertionOnce
<1> QED
  BY <1>1, Initially, Inductive, PTL DEF Spec

(* A key that was withdrawn is accepted no longer than a cached key set    *)
(* lives, and the fetch and the verification take                          *)
(* (client-assertion.ts:12-18, 84-89). *)
THEOREM KeysDie == Spec => []WithdrawnKeyDies
<1>1. IInv => WithdrawnKeyDies
  BY DEF IInv
<1> QED
  BY <1>1, Initially, Inductive, PTL DEF Spec
============================================================================
