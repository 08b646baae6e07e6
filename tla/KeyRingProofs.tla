--------------------------- MODULE KeyRingProofs ---------------------------
(***************************************************************************)
(* Theorems about KeyRing, for any number of keys, handlers and rotations. *)
(*                                                                         *)
(* A rotation for a compromise that still finds the active key among those *)
(* it has read has read all that is stored (RotationOK): a key that was    *)
(* added since would be active instead.  No time of a key, a fetch or a    *)
(* cached set lies further back than the steps between them may take       *)
(* (LifeOK, HoldOK, FetchOK, CacheOK).                                     *)
(***************************************************************************)
EXTENDS KeyRing, TLAPS

Holder == [pc : {"idle", "create", "lost", "holds"}, key : Kids \cup {None}, tries : 0 .. 2, at : Nat]
Rotation == [pc : {"idle", "commit"}, compromised : BOOLEAN, current : Kids \cup {None}, existing : SUBSET Kids]

RotationOK(r) ==
  (rotation[r].pc = "commit" /\ rotation[r].compromised) =>
    /\ rotation[r].existing \subseteq Created
    /\ Active \subseteq rotation[r].existing => Stored \subseteq rotation[r].existing

LifeOK(k) ==
  /\ since[k] <= now
  /\ expiry[k] <= now + TokenLife
  /\ status[k] = "unknown" => expiry[k] = 0
  /\ status[k] = "retired" => expiry[k] <= since[k] + HoldTime + TokenLife

HoldOK(s) ==
  signer[s].pc = "holds" =>
    /\ signer[s].at <= now /\ now <= signer[s].at + HoldTime
    /\ status[signer[s].key] # "unknown"
    /\ status[signer[s].key] = "retired" => signer[s].at <= since[signer[s].key]

(* Whatever is deleted was in the table when it was published. *)
FetchOK ==
  fetch # None =>
    /\ fetch.began <= now /\ now <= fetch.began + FetchTime
    /\ \A k \in Kids :
         (fetch.keys # None /\ k \in fetch.keys /\ status[k] = "deleted") => fetch.began <= since[k]

CacheOK ==
  cache # None =>
    /\ cache.fetchedAt <= now /\ cache.expiresAt <= cache.fetchedAt + MaxStale
    /\ \A k \in Kids :
         (k \in cache.keys /\ status[k] = "deleted") => cache.fetchedAt <= since[k] + FetchTime

Keys == OneActive /\ \A k \in Kids : LifeOK(k)
Verifier == FetchOK /\ CacheOK /\ DeletedNotTrusted

IInv ==
  /\ TypeOK /\ Keys /\ Verifier
  /\ \A s \in Signers : HoldOK(s)
  /\ \A r \in Rotations : RotationOK(r)

-----------------------------------------------------------------------------
LEMMA Constants ==
  /\ TokenLife \in Nat /\ Retention \in Nat /\ MaxAge \in Nat /\ MaxStale \in Nat
  /\ HoldTime \in Nat /\ FetchTime \in Nat
  /\ None \notin Kids /\ TokenLife + HoldTime < Retention
  /\ MinInterval \in Nat /\ Backoff \in Nat /\ MissedTTL \in Nat
BY KeyAssumption

Kept(s) == signer'[s] = signer[s]

LEMMA HoldType ==
  ASSUME TypeOK, NEW s \in Signers, NEW k \in Kids, Hold(s, k)
  PROVE  /\ signer' \in [Signers -> Holder]
         /\ \A q \in Signers \ {s} : Kept(q)
         /\ signer'[s].pc = "holds" /\ signer'[s].key = k /\ signer'[s].at = now
BY DEF TypeOK, Hold, Holder, Kept

LEMMA GoesType ==
  ASSUME TypeOK, NEW s \in Signers, NEW pc \in {"idle", "create", "lost"}, NEW tries \in 0 .. 2,
         Goes(s, pc, tries)
  PROVE  /\ signer' \in [Signers -> Holder]
         /\ \A q \in Signers \ {s} : Kept(q)
         /\ signer'[s].pc = pc /\ signer'[s].key = None
<1> DEFINE new == [NoCall EXCEPT !.pc = pc, !.tries = tries]
<1>1. new \in Holder /\ new.pc = pc /\ new.key = None
  BY DEF NoCall, Holder
<1>2. signer' = [signer EXCEPT ![s] = new] /\ signer \in [Signers -> Holder]
  BY DEF Goes, TypeOK, Holder
<1> HIDE DEF new
<1> QED
  BY <1>1, <1>2 DEF Kept

(* A handler goes on and the table is as it was. *)
LEMMA SignerStep ==
  ASSUME IInv, NEW s \in Signers, signer' \in [Signers -> Holder], \A q \in Signers \ {s} : Kept(q),
         signer'[s].pc = "holds" <=> signer'[s].key # None,
         HoldOK(s)', expiry' \in [Kids -> Nat], \A k \in Kids : LifeOK(k)',
         UNCHANGED << now, table, rotation, verifier >>
  PROVE  IInv'
<1>1. TypeOK'
  BY DEF IInv, TypeOK, Kept, table, verifier, Holder
<1>2. OneActive' /\ Verifier'
  BY DEF IInv, Keys, OneActive, Active, Created, Verifier, FetchOK, CacheOK, DeletedNotTrusted, table, verifier
<1>3. \A q \in Signers : HoldOK(q)'
  BY DEF IInv, HoldOK, Kept, table
<1>4. \A r \in Rotations : RotationOK(r)'
  BY DEF IInv, RotationOK, Created, Active, Stored, table
<1> QED
  BY <1>1, <1>2, <1>3, <1>4 DEF IInv, Keys

LEMMA Holding ==
  ASSUME IInv, NEW s \in Signers, NEW k \in Active, Hold(s, k),
         UNCHANGED << now, table, expiry, rotation, verifier >>
  PROVE  IInv'
<1>1. /\ TypeOK /\ k \in Kids /\ status[k] = "active" /\ now \in Nat /\ k # None
  BY Constants DEF IInv, TypeOK, Active
<1>2. /\ signer' \in [Signers -> Holder] /\ \A q \in Signers \ {s} : Kept(q)
      /\ signer'[s].pc = "holds" /\ signer'[s].key = k /\ signer'[s].at = now
  BY <1>1, HoldType
<1>3. HoldOK(s)'
  BY <1>1, <1>2, Constants DEF HoldOK, table
<1>4. expiry' \in [Kids -> Nat] /\ \A j \in Kids : LifeOK(j)'
  BY DEF IInv, TypeOK, Keys, LifeOK, table
<1> QED
  BY <1>1, <1>2, <1>3, <1>4, SignerStep

LEMMA Going ==
  ASSUME IInv, NEW s \in Signers, NEW pc \in {"idle", "create", "lost"}, NEW tries \in 0 .. 2,
         Goes(s, pc, tries), UNCHANGED << now, table, rotation, verifier >>,
         expiry' \in [Kids -> Nat], \A j \in Kids : LifeOK(j)'
  PROVE  IInv'
<1>1. /\ signer' \in [Signers -> Holder] /\ \A q \in Signers \ {s} : Kept(q)
      /\ signer'[s].pc = pc /\ signer'[s].key = None
  BY GoesType DEF IInv
<1>2. HoldOK(s)'
  BY <1>1 DEF HoldOK
<1> QED
  BY <1>1, <1>2, SignerStep

LEMMA SameLives == ASSUME IInv, UNCHANGED << now, table, expiry >>
                   PROVE  expiry' \in [Kids -> Nat] /\ \A j \in Kids : LifeOK(j)'
BY DEF IInv, TypeOK, Keys, LifeOK, table

LEMMA ReadKeyStep == ASSUME IInv, NEW s \in Signers, ReadKey(s) PROVE IInv'
<1>1. CASE Active = {}
  BY <1>1, Going, SameLives DEF ReadKey
<1>2. CASE Active # {}
  BY <1>2, Holding DEF ReadKey
<1> QED
  BY <1>1, <1>2

LEMMA ReadWinnerStep == ASSUME IInv, NEW s \in Signers, ReadWinner(s) PROVE IInv'
<1>1. CASE Active # {}
  BY <1>1, Holding DEF ReadWinner
<1>2. CASE Active = {}
  <2>1. signer[s].tries \in 0 .. 2
    BY DEF IInv, TypeOK
  <2>2. \/ Goes(s, "create", signer[s].tries + 1) /\ signer[s].tries + 1 \in 0 .. 2
        \/ Goes(s, "idle", 0)
    BY <1>2, <2>1 DEF ReadWinner
  <2> QED
    BY <2>2, Going, SameLives DEF ReadWinner
<1> QED
  BY <1>1, <1>2

LEMMA SignStep == ASSUME IInv, NEW s \in Signers, Sign(s) PROVE IInv'
<1> DEFINE k == signer[s].key
<1>1. /\ TypeOK /\ now \in Nat /\ signer[s].at \in Nat /\ k \in Kids /\ expiry \in [Kids -> Nat]
      /\ since[k] \in Nat
      /\ expiry' = [expiry EXCEPT ![k] = now + TokenLife]
      /\ Goes(s, "idle", 0) /\ UNCHANGED << now, table, rotation, verifier >>
  BY DEF IInv, TypeOK, Sign
<1>2. /\ signer[s].at <= now /\ now <= signer[s].at + HoldTime
      /\ status[k] # "unknown"
      /\ status[k] = "retired" => signer[s].at <= since[k]
  BY DEF IInv, HoldOK, Sign
<1> HIDE DEF k
<1>3. /\ expiry' \in [Kids -> Nat] /\ expiry'[k] = now + TokenLife
      /\ \A j \in Kids \ {k} : expiry'[j] = expiry[j]
  BY <1>1, Constants
<1>4. ASSUME NEW j \in Kids PROVE LifeOK(j)'
  <2>1. LifeOK(j)
    BY DEF IInv, Keys
  <2>2. CASE j = k
    BY <1>1, <1>2, <1>3, <2>1, <2>2, Constants DEF LifeOK, table
  <2>3. CASE j # k
    BY <1>1, <1>3, <2>1, <2>3 DEF LifeOK, table
  <2> QED
    BY <2>2, <2>3
<1> QED
  BY <1>1, <1>3, <1>4, Going

-----------------------------------------------------------------------------
(* The table.                                                              *)

(* k is added and active, and of the others some are retired or deleted.   *)
Adds(k) ==
  /\ status' \in [Kids -> {"unknown", "active", "retired", "deleted"}]
  /\ since' \in [Kids -> Nat]
  /\ status[k] = "unknown" /\ status'[k] = "active" /\ since'[k] \in {since[k], now}
  /\ \A j \in Kids \ {k} :
       /\ status'[j] # "active"
       /\ \/ status'[j] = status[j] /\ since'[j] = since[j]
          \/ /\ status[j] # "deleted" /\ status[j] # "unknown"
             /\ status'[j] \in {"retired", "deleted"} /\ since'[j] = now

LEMMA TableStep ==
  ASSUME IInv, NEW k \in Kids, Adds(k),
         signer' \in [Signers -> Holder],
         \A s \in Signers : signer'[s].pc = "holds" <=> signer'[s].key # None,
         \A s \in Signers : \/ Kept(s)
                            \/ signer'[s].pc # "holds"
                            \/ signer'[s].key = k /\ signer'[s].at = now,
         rotation' \in [Rotations -> Rotation],
         \A r \in Rotations : rotation'[r] = rotation[r] \/ rotation'[r].pc = "idle",
         UNCHANGED << now, expiry, verifier >>
  PROVE  IInv'
<1>1. TypeOK /\ now \in Nat
  BY DEF IInv, TypeOK
<1>2. TypeOK'
  BY <1>1 DEF TypeOK, Adds, verifier, Holder, Rotation
<1>3. OneActive'
  <2>1. Active' = {k} /\ k \in Active'
    BY DEF Adds, Active
  <2> QED
    BY <2>1 DEF OneActive
<1>4. ASSUME NEW j \in Kids PROVE LifeOK(j)'
  <2>1. LifeOK(j) /\ expiry[j] \in Nat /\ since[j] \in Nat /\ expiry' = expiry /\ now' = now
    BY <1>1 DEF IInv, Keys, TypeOK
  <2>2. CASE j = k
    BY <1>1, <2>1, <2>2 DEF LifeOK, Adds
  <2>3. CASE j # k
    <3>1. CASE status'[j] = status[j] /\ since'[j] = since[j]
      BY <2>1, <3>1 DEF LifeOK
    <3>2. CASE status[j] # "unknown" /\ status'[j] \in {"retired", "deleted"} /\ since'[j] = now
      BY <1>1, <2>1, <3>2, Constants DEF LifeOK
    <3> QED
      BY <2>3, <3>1, <3>2 DEF Adds
  <2> QED
    BY <2>2, <2>3
<1>5. ASSUME NEW s \in Signers PROVE HoldOK(s)'
  <2> SUFFICES ASSUME signer'[s].pc = "holds" PROVE HoldOK(s)'
    BY DEF HoldOK
  <2>1. CASE Kept(s)
    <3>1. /\ HoldOK(s) /\ signer[s].pc = "holds" /\ signer[s].key \in Kids
          /\ signer[s].at \in Nat
      BY <1>1, <2>1 DEF IInv, Kept, TypeOK
    <3> QED
      BY <1>1, <2>1, <3>1, Constants DEF HoldOK, Kept, Adds
  <2>2. CASE signer'[s].key = k /\ signer'[s].at = now
    BY <1>1, <2>2, Constants DEF HoldOK, Adds
  <2> QED
    BY <2>1, <2>2
<1>6. ASSUME NEW r \in Rotations PROVE RotationOK(r)'
  <2> SUFFICES ASSUME rotation'[r] = rotation[r], rotation[r].pc = "commit", rotation[r].compromised
               PROVE  /\ rotation[r].existing \subseteq Created'
                      /\ ~(Active' \subseteq rotation[r].existing)
    BY DEF RotationOK
  <2>1. rotation[r].existing \subseteq Created
    BY DEF IInv, RotationOK
  <2>2. k \notin Created /\ k \in Active' /\ Created \subseteq Created'
    BY DEF Adds, Created, Active
  <2> QED
    BY <2>1, <2>2
<1>7. Verifier'
  <2>1. FetchOK /\ CacheOK /\ DeletedNotTrusted
    BY DEF IInv, Verifier
  <2>2. fetch # None => fetch.began \in Nat
    BY <1>1 DEF TypeOK
  <2>3. cache # None => cache.fetchedAt \in Nat
    BY <1>1 DEF TypeOK
  <2>4. \A j \in Kids : status'[j] = "deleted" =>
          (status[j] = "deleted" /\ since'[j] = since[j]) \/ since'[j] = now
    BY DEF Adds
  <2>5. FetchOK'
    BY <1>1, <2>1, <2>2, <2>4 DEF FetchOK, verifier
  <2>6. CacheOK'
    BY <1>1, <2>1, <2>3, <2>4, Constants DEF CacheOK, verifier
  <2> QED
    BY <2>1, <2>5, <2>6 DEF Verifier, DeletedNotTrusted, verifier
<1> QED
  BY <1>2, <1>3, <1>4, <1>5, <1>6, <1>7 DEF IInv, Keys

LEMMA CreateKeyStep == ASSUME IInv, NEW s \in Signers, CreateKey(s) PROVE IInv'
<1>1. TypeOK /\ UNCHANGED << now, since, expiry, rotation, verifier >>
  BY DEF IInv, CreateKey
<1>2. CASE Index(Active)
  <2>1. PICK k \in Kids \ Created : status' = [status EXCEPT ![k] = "active"] /\ Hold(s, k)
    BY <1>2 DEF CreateKey
  <2>2. Active = {} /\ status[k] = "unknown"
    BY <1>2, <2>1 DEF Index, Created
  <2>3. Adds(k)
    BY <1>1, <2>1, <2>2 DEF Adds, TypeOK, Active
  <2>4. /\ signer' \in [Signers -> Holder] /\ \A q \in Signers \ {s} : Kept(q)
        /\ signer'[s].pc = "holds" /\ signer'[s].key = k /\ signer'[s].at = now
    BY <1>1, <2>1, HoldType
  <2>5. \A q \in Signers : signer'[q].pc = "holds" <=> signer'[q].key # None
    BY <1>1, <2>1, <2>4, Constants DEF TypeOK, Kept
  <2> QED
    BY <1>1, <2>1, <2>3, <2>4, <2>5, TableStep DEF TypeOK, Rotation
<1>3. CASE ~Index(Active)
  <2>1. signer[s].tries \in 0 .. 2
    BY <1>1 DEF TypeOK
  <2> QED
    BY <1>1, <1>3, <2>1, Going, SameLives DEF CreateKey, table
<1> QED
  BY <1>2, <1>3

-----------------------------------------------------------------------------
(* Rotations.                                                              *)

Ends(r) == /\ rotation' \in [Rotations -> Rotation]
           /\ \A q \in Rotations : rotation'[q] = rotation[q] \/ rotation'[q].pc = "idle"
           /\ rotation'[r].pc = "idle"
           /\ \A q \in Rotations \ {r} : rotation'[q] = rotation[q]

LEMMA EndType == ASSUME TypeOK, NEW r \in Rotations, EndRotation(r) PROVE Ends(r)
<1>1. NoRotation \in Rotation /\ NoRotation.pc = "idle"
  BY DEF NoRotation, Rotation
<1>2. rotation \in [Rotations -> Rotation] /\ rotation' = [rotation EXCEPT ![r] = NoRotation]
  BY DEF TypeOK, Rotation, EndRotation
<1> QED
  BY <1>1, <1>2 DEF Ends

(* Nothing but the rotations changes. *)
LEMMA RotationStep ==
  ASSUME IInv, rotation' \in [Rotations -> Rotation], \A r \in Rotations : RotationOK(r)',
         UNCHANGED << now, table, expiry, signer, verifier >>
  PROVE  IInv'
<1>1. TypeOK'
  BY DEF IInv, TypeOK, table, verifier, Rotation
<1>2. Keys'
  BY DEF IInv, Keys, OneActive, Active, Created, LifeOK, table
<1>3. Verifier'
  BY DEF IInv, Verifier, FetchOK, CacheOK, DeletedNotTrusted, table, verifier
<1>4. \A s \in Signers : HoldOK(s)'
  BY DEF IInv, HoldOK, table
<1> QED
  BY <1>1, <1>2, <1>3, <1>4 DEF IInv

LEMMA StartsStep ==
  ASSUME IInv, NEW r \in Rotations, NEW compromised \in BOOLEAN, NEW current \in Kids \cup {None},
         NEW existing \in SUBSET Kids, Starts(r, compromised, current, existing),
         compromised => existing = Stored
  PROVE  IInv'
<1> DEFINE new == [pc |-> "commit", compromised |-> compromised, current |-> current, existing |-> existing]
<1>1. new \in Rotation /\ new.compromised = compromised /\ new.existing = existing
  BY DEF Rotation
<1>2. /\ rotation \in [Rotations -> Rotation] /\ rotation' = [rotation EXCEPT ![r] = new]
      /\ UNCHANGED << now, table, expiry, signer, verifier >>
  BY DEF IInv, TypeOK, Rotation, Starts
<1> HIDE DEF new
<1>3. /\ rotation' \in [Rotations -> Rotation] /\ rotation'[r] = new
      /\ \A q \in Rotations \ {r} : rotation'[q] = rotation[q]
  BY <1>1, <1>2
<1>4. ASSUME NEW q \in Rotations PROVE RotationOK(q)'
  <2>1. Created' = Created /\ Active' = Active /\ Stored' = Stored /\ Stored \subseteq Created
    BY <1>2 DEF Created, Active, Stored, table
  <2>2. CASE q = r
    BY <1>1, <1>3, <2>1, <2>2 DEF RotationOK
  <2>3. CASE q # r
    BY <1>3, <2>1, <2>3 DEF RotationOK, IInv
  <2> QED
    BY <2>2, <2>3
<1> QED
  BY <1>2, <1>3, <1>4, RotationStep

LEMMA ReadCurrentStep == ASSUME IInv, NEW r \in Rotations, ReadCurrent(r) PROVE IInv'
<1>1. PICK c \in IF Active = {} THEN {None} ELSE Active : Starts(r, FALSE, c, {})
  BY DEF ReadCurrent
<1>2. c \in Kids \cup {None} /\ {} \in SUBSET Kids /\ FALSE \in BOOLEAN
  BY DEF Active
<1>3. FALSE => {} = Stored
  OBVIOUS
<1> QED
  BY <1>1, <1>2, <1>3, StartsStep

LEMMA ReadExistingStep == ASSUME IInv, NEW r \in Rotations, ReadExisting(r) PROVE IInv'
<1>1. Stored \in SUBSET Kids
  BY DEF Stored
<1> QED
  BY <1>1, StartsStep DEF ReadExisting

LEMMA RejectedStep == ASSUME IInv, NEW r \in Rotations, Rejected(r) PROVE IInv'
<1>1. Ends(r) /\ UNCHANGED << now, table, expiry, signer, verifier >>
  BY EndType DEF IInv, Rejected
<1>2. ASSUME NEW q \in Rotations PROVE RotationOK(q)'
  <2>1. Created' = Created /\ Active' = Active /\ Stored' = Stored
    BY <1>1 DEF Created, Active, Stored, table
  <2>2. RotationOK(q)
    BY DEF IInv
  <2> QED
    BY <1>1, <2>1, <2>2 DEF Ends, RotationOK
<1> QED
  BY <1>1, <1>2, RotationStep DEF Ends

LEMMA CommitStep == ASSUME IInv, NEW r \in Rotations, Commit(r) PROVE IInv'
<1> DEFINE R == rotation[r]
<1>1. /\ TypeOK /\ R.pc = "commit" /\ R.compromised \in BOOLEAN
      /\ R.current \in Kids \cup {None} /\ R.existing \subseteq Kids
      /\ UNCHANGED << now, expiry, signer, verifier >>
  BY DEF IInv, TypeOK, Commit
<1>2. PICK k \in Kids \ Created : Old(r, k)
  BY DEF Commit
<1>3. /\ Ends(r)
      /\ Active \subseteq (IF R.compromised THEN R.existing ELSE {R.current})
      /\ ~R.compromised => R.current \in Stored \cup {None}
      /\ R.compromised => R.existing \subseteq Created
  BY <1>1, EndType DEF Commit, Index, Remaining, Deleted, RotationOK, IInv
<1>4. status[k] = "unknown" /\ k \in Kids
  BY <1>2 DEF Created
<1>5. /\ status' = [j \in Kids |->
           IF j = k THEN "active"
           ELSE IF R.compromised
                THEN IF j \in R.existing THEN "deleted" ELSE status[j]
                ELSE IF j = R.current THEN "retired" ELSE status[j]]
      /\ since' = [j \in Kids |->
           IF status'[j] # status[j] \/ (status'[j] = "retired" /\ j = R.current) THEN now ELSE since[j]]
  BY <1>2 DEF Old, Deleted
<1>6. Adds(k)
  <2>1. /\ status' \in [Kids -> {"unknown", "active", "retired", "deleted"}]
        /\ since' \in [Kids -> Nat]
        /\ status'[k] = "active" /\ since'[k] \in {since[k], now}
    BY <1>1, <1>4, <1>5 DEF TypeOK
  <2>2. ASSUME NEW j \in Kids \ {k}
        PROVE  /\ status'[j] # "active"
               /\ \/ status'[j] = status[j] /\ since'[j] = since[j]
                  \/ /\ status[j] # "deleted" /\ status[j] # "unknown"
                     /\ status'[j] \in {"retired", "deleted"} /\ since'[j] = now
    <3>1. status[j] = "active" => j \in (IF R.compromised THEN R.existing ELSE {R.current})
      BY <1>3 DEF Active
    <3>2. CASE R.compromised
      <4>1. CASE j \in R.existing
        <5>1. status[j] # "unknown" /\ status'[j] = "deleted"
          BY <1>3, <1>5, <3>2, <4>1 DEF Created
        <5>2. since'[j] = IF status[j] # "deleted" THEN now ELSE since[j]
          BY <1>5, <5>1
        <5> QED
          BY <5>1, <5>2
      <4>2. CASE j \notin R.existing
        <5>1. status'[j] = status[j] /\ status[j] # "active"
          BY <1>5, <3>1, <3>2, <4>2
        <5>2. since'[j] \in {since[j], now}
          BY <1>5
        <5>3. since'[j] = IF status[j] = "retired" /\ j = R.current THEN now ELSE since[j]
          BY <1>5, <5>1
        <5> QED
          BY <5>1, <5>3
      <4> QED
        BY <4>1, <4>2
    <3>3. CASE ~R.compromised
      <4>1. CASE j = R.current
        <5>1. status'[j] = "retired" /\ since'[j] = now
          BY <1>5, <3>3, <4>1
        <5>2. status[j] # "unknown" /\ status[j] # "deleted"
          BY <1>1, <1>3, <3>3, <4>1, Constants DEF Stored
        <5> QED
          BY <5>1, <5>2
      <4>2. CASE j # R.current
        BY <1>5, <3>1, <3>3, <4>2
      <4> QED
        BY <4>1, <4>2
    <3> QED
      BY <1>1, <3>2, <3>3
  <2> QED
    BY <1>4, <2>1, <2>2 DEF Adds
<1> HIDE DEF R
<1>7. /\ signer' \in [Signers -> Holder]
      /\ \A s \in Signers : signer'[s].pc = "holds" <=> signer'[s].key # None
      /\ \A s \in Signers : Kept(s)
  BY <1>1 DEF TypeOK, Holder, Kept
<1> QED
  BY <1>1, <1>3, <1>4, <1>6, <1>7, TableStep DEF Ends

-----------------------------------------------------------------------------
(* The verifier.                                                           *)

InTime(k) == status[k] = "deleted" => now <= since[k] + FetchTime + MaxStale

LEMMA Given ==
  ASSUME IInv, NEW kids \in SUBSET Kids, \A k \in kids : InTime(k), Give(kids)
  PROVE  overdue' \in Nat /\ overdue' <= FetchTime + MaxStale
<1>1. now \in Nat /\ overdue \in Nat /\ overdue <= FetchTime + MaxStale
  BY DEF IInv, TypeOK, Verifier, DeletedNotTrusted
<1>2. \/ overdue' = overdue
      \/ \E k \in kids : status[k] = "deleted" /\ overdue' = now - since[k]
  BY DEF Give
<1>3. ASSUME NEW k \in kids, status[k] = "deleted", overdue' = now - since[k]
      PROVE  overdue' \in Nat /\ overdue' <= FetchTime + MaxStale
  <2>1. since[k] \in Nat /\ since[k] <= now
    BY DEF IInv, TypeOK, Keys, LifeOK
  <2> QED
    BY <1>1, <1>3, <2>1, Constants DEF InTime
<1> QED
  BY <1>1, <1>2, <1>3

LEMMA VerifierStep ==
  ASSUME IInv, UNCHANGED << now, table, expiry, signer, rotation >>,
         cache' = None \/ cache' \in [keys : SUBSET Kids, fetchedAt : Nat, expiresAt : Nat],
         nextAttempt' \in Nat,
         fetch' = None \/ fetch' \in [began : Nat, keys : {None} \cup SUBSET Kids],
         waiting' \subseteq Kids, missed' \in [Kids -> Nat \cup {None}],
         overdue' \in Nat /\ overdue' <= FetchTime + MaxStale,
         FetchOK', CacheOK'
  PROVE  IInv'
<1>1. TypeOK'
  BY DEF IInv, TypeOK, table
<1>2. Keys'
  BY DEF IInv, Keys, OneActive, Active, Created, LifeOK, table
<1>3. \A s \in Signers : HoldOK(s)'
  BY DEF IInv, HoldOK, table
<1>4. \A r \in Rotations : RotationOK(r)'
  BY DEF IInv, RotationOK, Created, Active, Stored, table
<1> QED
  BY <1>1, <1>2, <1>3, <1>4 DEF IInv, Verifier, DeletedNotTrusted

LEMMA OverdueAsBefore ==
  ASSUME IInv, UNCHANGED overdue PROVE overdue' \in Nat /\ overdue' <= FetchTime + MaxStale
BY DEF IInv, TypeOK, Verifier, DeletedNotTrusted

LEMMA SameFetch == ASSUME IInv, UNCHANGED << now, table, fetch >> PROVE FetchOK'
BY DEF IInv, Verifier, FetchOK, table

LEMMA SameCache == ASSUME IInv, UNCHANGED << now, table, cache >> PROVE CacheOK'
BY DEF IInv, Verifier, CacheOK, table

(* What is cached and not stale may be given out. *)
LEMMA CachedInTime ==
  ASSUME IInv, cache # None, now <= cache.fetchedAt + MaxStale, NEW k \in Kids, k \in cache.keys
  PROVE  InTime(k)
<1>1. now \in Nat /\ since[k] \in Nat /\ cache.fetchedAt \in Nat
  BY DEF IInv, TypeOK
<1>2. status[k] = "deleted" => cache.fetchedAt <= since[k] + FetchTime
  BY DEF IInv, Verifier, CacheOK
<1> QED
  BY <1>1, <1>2, Constants DEF InTime

LEMMA FromCacheStep == ASSUME IInv, NEW k \in Kids, FromCache(k) PROVE IInv'
<1>1. /\ cache # None /\ k \in cache.keys /\ now < cache.expiresAt /\ Give({k})
      /\ UNCHANGED << now, table, expiry, signer, rotation, cache, nextAttempt, fetch, waiting, missed >>
  BY DEF FromCache, Cached, Fresh
<1>2. /\ TypeOK /\ now \in Nat /\ cache.expiresAt \in Nat /\ cache.fetchedAt \in Nat
      /\ cache.expiresAt <= cache.fetchedAt + MaxStale
  BY <1>1 DEF IInv, TypeOK, Verifier, CacheOK
<1>3. now <= cache.fetchedAt + MaxStale
  BY <1>1, <1>2, Constants
<1>4. InTime(k)
  BY <1>1, <1>3, CachedInTime
<1>5. {k} \in SUBSET Kids /\ \A j \in {k} : InTime(j)
  BY <1>4
<1>6. overdue' \in Nat /\ overdue' <= FetchTime + MaxStale
  BY <1>1, <1>5, Given
<1> QED
  BY <1>1, <1>2, <1>6, SameFetch, SameCache, VerifierStep DEF TypeOK

LEMMA RateLimitedStep == ASSUME IInv, NEW k \in Kids, RateLimited(k) PROVE IInv'
<1>1. /\ cache # None /\ k \in cache.keys /\ ~(now > cache.fetchedAt + MaxStale) /\ Give({k})
      /\ UNCHANGED << now, table, expiry, signer, rotation, cache, nextAttempt, fetch, waiting, missed >>
  BY DEF RateLimited, Cached, TooStale
<1>2. TypeOK /\ now \in Nat /\ cache.fetchedAt \in Nat
  BY <1>1 DEF IInv, TypeOK
<1>3. now <= cache.fetchedAt + MaxStale
  BY <1>1, <1>2, Constants
<1>4. {k} \in SUBSET Kids /\ \A j \in {k} : InTime(j)
  BY <1>1, <1>3, CachedInTime
<1>5. overdue' \in Nat /\ overdue' <= FetchTime + MaxStale
  BY <1>1, <1>4, Given
<1> QED
  BY <1>1, <1>2, <1>5, SameFetch, SameCache, VerifierStep DEF TypeOK

LEMMA JoinStep == ASSUME IInv, NEW k \in Kids, Join(k) PROVE IInv'
<1>1. TypeOK /\ waiting' \subseteq Kids
  BY DEF IInv, TypeOK, Join
<1> QED
  BY <1>1, SameFetch, SameCache, OverdueAsBefore, VerifierStep DEF TypeOK, Join

LEMMA RefreshStep == ASSUME IInv, NEW k \in Kids, Refresh(k) PROVE IInv'
<1>1. TypeOK /\ now \in Nat
  BY DEF IInv, TypeOK
<1>2. /\ nextAttempt' \in Nat /\ waiting' \subseteq Kids
      /\ fetch' \in [began : Nat, keys : {None} \cup SUBSET Kids]
      /\ fetch'.began = now /\ fetch'.keys = None
  BY <1>1, Constants DEF Refresh
<1>3. UNCHANGED << now, table, expiry, signer, rotation, cache, missed, overdue >>
  BY DEF Refresh
<1>4. FetchOK'
  BY <1>1, <1>2, <1>3, Constants DEF FetchOK
<1> QED
  BY <1>1, <1>2, <1>3, <1>4, SameCache, OverdueAsBefore, VerifierStep DEF TypeOK

LEMMA AnswerStep == ASSUME IInv, Answer PROVE IInv'
<1>1. /\ TypeOK /\ fetch # None /\ fetch \in [began : Nat, keys : {None} \cup SUBSET Kids]
      /\ fetch' = [fetch EXCEPT !.keys = Published] /\ Published \subseteq Kids
      /\ UNCHANGED << now, table, expiry, signer, rotation, cache, nextAttempt, waiting, missed, overdue >>
  BY DEF IInv, TypeOK, Answer, Published, PublishedFor
<1>2. /\ fetch' \in [began : Nat, keys : {None} \cup SUBSET Kids]
      /\ fetch'.began = fetch.began /\ fetch'.keys = Published
  BY <1>1
<1>3. FetchOK'
  <2>1. \A k \in Published : status[k] # "deleted"
    BY DEF Published, PublishedFor
  <2>2. fetch.began <= now /\ now <= fetch.began + FetchTime
    BY <1>1 DEF IInv, Verifier, FetchOK
  <2> QED
    BY <1>1, <1>2, <2>1, <2>2 DEF FetchOK, table
<1> QED
  BY <1>1, <1>2, <1>3, SameCache, OverdueAsBefore, VerifierStep DEF TypeOK

LEMMA FetchSucceedsStep == ASSUME IInv, FetchSucceeds PROVE IInv'
<1> DEFINE keys == fetch.keys
<1>1. /\ TypeOK /\ now \in Nat /\ fetch # None /\ keys # None /\ keys \in SUBSET Kids /\ fetch.began \in Nat
      /\ waiting \subseteq Kids
  BY DEF IInv, TypeOK, FetchSucceeds
<1>2. /\ fetch.began <= now /\ now <= fetch.began + FetchTime
      /\ \A k \in keys : status[k] = "deleted" => fetch.began <= since[k]
  BY <1>1 DEF IInv, Verifier, FetchOK
<1>3. /\ cache' = [keys |-> keys, fetchedAt |-> now, expiresAt |-> now + Smaller(MaxAge, MaxStale)]
      /\ missed' = NotedMisses(waiting \ keys) /\ Give(waiting \cap keys)
      /\ fetch' = None /\ waiting' = {}
      /\ UNCHANGED << now, table, expiry, signer, rotation, nextAttempt >>
  BY DEF FetchSucceeds, Settled
<1> HIDE DEF keys
<1>4. Smaller(MaxAge, MaxStale) \in Nat /\ Smaller(MaxAge, MaxStale) <= MaxStale
  BY Constants DEF Smaller
<1>5. \A k \in keys : since[k] \in Nat /\ (status[k] = "deleted" => now <= since[k] + FetchTime)
  <2> SUFFICES ASSUME NEW k \in keys
               PROVE  since[k] \in Nat /\ (status[k] = "deleted" => now <= since[k] + FetchTime)
    OBVIOUS
  <2>1. since[k] \in Nat
    BY <1>1 DEF TypeOK
  <2> QED
    BY <1>1, <1>2, <2>1, Constants
<1>6. /\ cache' \in [keys : SUBSET Kids, fetchedAt : Nat, expiresAt : Nat]
      /\ cache'.keys = keys /\ cache'.fetchedAt = now /\ cache'.expiresAt <= now + MaxStale
  BY <1>1, <1>3, <1>4, Constants
<1>7. CacheOK'
  BY <1>1, <1>3, <1>5, <1>6 DEF CacheOK, table
<1>8. FetchOK' /\ missed' \in [Kids -> Nat \cup {None}]
  BY <1>1, <1>3 DEF FetchOK, NotedMisses
<1>9. overdue' \in Nat /\ overdue' <= FetchTime + MaxStale
  <2>1. \A k \in waiting \cap keys : InTime(k)
    BY <1>1, <1>5, Constants DEF InTime
  <2> QED
    BY <1>1, <1>3, <2>1, Given
<1> QED
  BY <1>1, <1>3, <1>6, <1>7, <1>8, <1>9, VerifierStep DEF TypeOK

LEMMA FetchFailsStep == ASSUME IInv, FetchFails PROVE IInv'
<1> DEFINE given == IF cache = None THEN {} ELSE IF TooStale THEN {} ELSE waiting \cap cache.keys
<1>1. /\ TypeOK /\ fetch # None /\ nextAttempt' = Larger(nextAttempt, fetch.began + Backoff)
      /\ Give(given) /\ fetch' = None /\ waiting' = {}
      /\ UNCHANGED << now, table, expiry, signer, rotation, cache, missed >>
  BY DEF IInv, FetchFails, Settled
<1>2. now \in Nat /\ nextAttempt' \in Nat
  BY <1>1, Constants DEF TypeOK, Larger
<1>3. given \in SUBSET Kids /\ \A k \in given : InTime(k)
  <2>1. CASE cache = None \/ TooStale
    BY <2>1
  <2>2. CASE cache # None /\ ~TooStale
    <3>1. cache.fetchedAt \in Nat /\ cache.keys \subseteq Kids /\ given \subseteq cache.keys
      BY <1>1, <2>2 DEF TypeOK
    <3>2. now <= cache.fetchedAt + MaxStale
      BY <1>2, <2>2, <3>1, Constants DEF TooStale
    <3> QED
      BY <2>2, <3>1, <3>2, CachedInTime
  <2> QED
    BY <2>1, <2>2
<1> HIDE DEF given
<1>4. overdue' \in Nat /\ overdue' <= FetchTime + MaxStale
  BY <1>1, <1>3, Given
<1>5. FetchOK'
  BY <1>1 DEF FetchOK
<1> QED
  BY <1>1, <1>2, <1>4, <1>5, SameCache, VerifierStep DEF TypeOK

LEMMA RestartStep == ASSUME IInv, Restart PROVE IInv'
<1>1. missed' \in [Kids -> Nat \cup {None}] /\ FetchOK' /\ CacheOK'
  BY DEF Restart, FetchOK, CacheOK
<1> QED
  BY <1>1, OverdueAsBefore, VerifierStep DEF Restart

-----------------------------------------------------------------------------
(* Time.                                                                   *)

LEMMA TickStep == ASSUME IInv, Tick PROVE IInv'
<1>1. /\ TypeOK /\ now \in Nat /\ now' = now + 1 /\ now' \in Nat
      /\ UNCHANGED << table, signer, rotation, cache, fetch, waiting, overdue >>
  BY DEF IInv, TypeOK, Tick
<1>2. expiry' \in [Kids -> Nat] /\ \A k \in Kids : expiry'[k] \in {expiry[k], 0}
  BY <1>1 DEF Tick, TypeOK
<1>3. nextAttempt' \in Nat /\ missed' \in [Kids -> Nat \cup {None}]
  BY <1>1 DEF Tick, TypeOK
<1>4. TypeOK'
  BY <1>1, <1>2, <1>3 DEF TypeOK, table
<1>5. ASSUME NEW k \in Kids PROVE LifeOK(k)'
  <2>1. LifeOK(k) /\ expiry[k] \in Nat /\ since[k] \in Nat
    BY <1>1 DEF IInv, Keys, TypeOK
  <2> QED
    BY <1>1, <1>2, <2>1, Constants DEF LifeOK, table
<1>6. OneActive' /\ DeletedNotTrusted'
  BY <1>1 DEF IInv, Keys, Verifier, OneActive, Active, Created, DeletedNotTrusted, table
<1>7. ASSUME NEW s \in Signers PROVE HoldOK(s)'
  <2>1. HoldOK(s) /\ signer[s].at \in Nat /\ (signer[s].pc = "holds" => now < signer[s].at + HoldTime)
    BY <1>1 DEF IInv, TypeOK, Tick
  <2> QED
    BY <1>1, <2>1, Constants DEF HoldOK, table
<1>8. \A r \in Rotations : RotationOK(r)'
  BY <1>1 DEF IInv, RotationOK, Created, Active, Stored, table
<1>9. FetchOK'
  <2>1. FetchOK /\ (fetch # None => fetch.began \in Nat /\ now < fetch.began + FetchTime)
    BY <1>1 DEF IInv, Verifier, TypeOK, Tick
  <2> QED
    BY <1>1, <2>1, Constants DEF FetchOK, table
<1>10. CacheOK'
  <2>1. CacheOK /\ (cache # None => cache.fetchedAt \in Nat)
    BY <1>1 DEF IInv, Verifier, TypeOK
  <2> QED
    BY <1>1, <2>1, Constants DEF CacheOK, table
<1> QED
  BY <1>4, <1>5, <1>6, <1>7, <1>8, <1>9, <1>10 DEF IInv, Keys, Verifier

-----------------------------------------------------------------------------
LEMMA Initially == ASSUME Init PROVE IInv
<1>1. TypeOK
  BY DEF Init, TypeOK, NoCall, NoRotation
<1>2. Keys
  BY Constants DEF Init, Keys, OneActive, Active, Created, LifeOK
<1>3. Verifier
  BY Constants DEF Init, Verifier, FetchOK, CacheOK, DeletedNotTrusted
<1>4. (\A s \in Signers : HoldOK(s)) /\ \A r \in Rotations : RotationOK(r)
  BY DEF Init, HoldOK, RotationOK, NoCall, NoRotation
<1> QED
  BY <1>1, <1>2, <1>3, <1>4 DEF IInv

LEMMA Stuttering == ASSUME IInv, UNCHANGED vars PROVE IInv'
<1>1. TypeOK /\ UNCHANGED << now, table, expiry, signer, rotation, verifier >>
  BY DEF IInv, vars
<1> QED
  BY <1>1, OverdueAsBefore, SameFetch, SameCache, VerifierStep DEF TypeOK, verifier

LEMMA Inductive == IInv /\ [Next]_vars => IInv'
<1> SUFFICES ASSUME IInv, [Next]_vars PROVE IInv'
  OBVIOUS
<1>1. CASE \E s \in Signers : ReadKey(s) \/ CreateKey(s) \/ ReadWinner(s) \/ Sign(s)
  BY <1>1, ReadKeyStep, CreateKeyStep, ReadWinnerStep, SignStep
<1>2. CASE \E r \in Rotations : ReadCurrent(r) \/ ReadExisting(r) \/ Commit(r) \/ Rejected(r)
  BY <1>2, ReadCurrentStep, ReadExistingStep, CommitStep, RejectedStep
<1>3. CASE \E k \in Created : GetKey(k)
  BY <1>3, FromCacheStep, RateLimitedStep, JoinStep, RefreshStep DEF GetKey, Created
<1>4. CASE Answer \/ FetchSucceeds \/ FetchFails \/ Restart \/ Tick
  BY <1>4, AnswerStep, FetchSucceedsStep, FetchFailsStep, RestartStep, TickStep
<1>5. CASE UNCHANGED vars
  BY <1>5, Stuttering
<1> QED
  BY <1>1, <1>2, <1>3, <1>4, <1>5 DEF Next

LEMMA Invariant == Spec => []IInv
<1>1. Init => IInv
  BY Initially
<1>2. IInv /\ [Next]_vars => IInv'
  BY Inductive
<1> QED
  BY <1>1, <1>2, PTL DEF Spec

(* The tables and the cache have their types, and only a handler that is   *)
(* about to sign holds a key. *)
THEOREM TypeCorrect == Spec => []TypeOK
<1>1. IInv => TypeOK
  BY DEF IInv
<1> QED
  BY <1>1, Invariant, PTL

(* However many handlers and rotations race for the first key or the next, *)
(* there is exactly one active key once there is one                       *)
(* (signing-keys.ts:38-66, 100-121). *)
THEOREM NeverTwoActive == Spec => []OneActive
<1>1. IInv => OneActive
  BY DEF IInv, Keys
<1> QED
  BY <1>1, Invariant, PTL

(* A token that lives can be verified with a published key, unless an      *)
(* operator deleted the key: this is what the retention of two hours is    *)
(* for (signing-keys.ts:92-93, 130-137). *)
THEOREM TokensStayVerifiable == Spec => []LiveKeyPublished
<1>1. ASSUME IInv PROVE LiveKeyPublished
  <2> SUFFICES ASSUME NEW k \in Kids, now < expiry[k], status[k] # "deleted"
               PROVE  status[k] = "active" \/ (status[k] = "retired" /\ now < since[k] + Retention)
    BY DEF LiveKeyPublished, Published, PublishedFor
  <2>1. /\ now \in Nat /\ expiry[k] \in Nat /\ since[k] \in Nat
        /\ status[k] \in {"unknown", "active", "retired", "deleted"}
    BY <1>1 DEF IInv, TypeOK
  <2>2. LifeOK(k)
    BY <1>1 DEF IInv, Keys
  <2> QED
    BY <2>1, <2>2, Constants DEF LifeOK
<1> QED
  BY <1>1, Invariant, PTL

(* A deleted key is given out no longer than one fetch and the stale limit *)
(* after its deletion, whatever refreshes fail (jwks-cache.ts:127-133). *)
THEOREM TrustEnds == Spec => []DeletedNotTrusted
<1>1. IInv => DeletedNotTrusted
  BY DEF IInv, Verifier
<1> QED
  BY <1>1, Invariant, PTL

(* A rotation for a compromise that commits leaves no older key, although  *)
(* it read the keys before its transaction: if one was added since, that   *)
(* one is active and the unique index refuses the rotation                 *)
(* (signing-keys.ts:95-99). *)
THEOREM CompromiseEndsAll == Spec => CompromiseLeavesOne
<1>1. IInv /\ [Next]_vars =>
        [\A r \in Rotations :
           (rotation[r].pc = "commit" /\ rotation[r].compromised /\ status' # status
              /\ rotation'[r] # rotation[r])
             => \A k \in Kids : status'[k] # "retired"]_vars
  <2> SUFFICES ASSUME IInv, [Next]_vars,
                      NEW r \in Rotations, rotation[r].pc = "commit", rotation[r].compromised,
                      status' # status, rotation'[r] # rotation[r], NEW j \in Kids
               PROVE  status'[j] # "retired"
    OBVIOUS
  <2>1. PICK q \in Rotations : Commit(q)
    BY DEF Next, vars, table, ReadKey, CreateKey, ReadWinner, Sign, ReadCurrent, ReadExisting,
                Starts, Rejected, GetKey, FromCache, RateLimited, Join, Refresh, Answer,
                FetchSucceeds, FetchFails, Restart, Tick
  <2>2. q = r
    BY <2>1, EndType DEF Commit, IInv, Ends
  <2>3. PICK k \in Kids \ Created : Old(r, k)
    BY <2>1, <2>2 DEF Commit
  <2>4. Active \subseteq rotation[r].existing
    BY <2>1, <2>2 DEF Commit, Index, Remaining, Deleted
  <2>5. Stored \subseteq rotation[r].existing
    BY <2>4 DEF IInv, RotationOK
  <2>6. status'[j] = IF j = k THEN "active"
                     ELSE IF j \in rotation[r].existing THEN "deleted" ELSE status[j]
    BY <2>3 DEF Old, Deleted
  <2> QED
    BY <2>5, <2>6 DEF Stored
<1> QED
  BY <1>1, Initially, Inductive, PTL DEF Spec, CompromiseLeavesOne
============================================================================
