--------------------------- MODULE ClientsProofs ---------------------------
(***************************************************************************)
(* Theorems about Clients, for any number of requests, documents and       *)
(* denials.                                                                *)
(*                                                                         *)
(* Only the leader stores a document (Leads), so that the row changes under *)
(* no one who fetches (Ordered); and what is stored, or held by a request, *)
(* outlives the document at its URL by the fetch and its lifetime at most  *)
(* (Aged).                                                                 *)
(***************************************************************************)
EXTENDS Clients, TLAPS

Docs == 1..MaxDocuments
Row == [doc : Docs, expiresAt : Nat]
Call == [pc : {"idle", "reads", "touches", "joins", "fetches", "arrives", "resolved"},
         leader : Calls \cup {None}, cached : Row \cup {None}, doc : Docs \cup {None},
         at : Nat, outrun : BOOLEAN]

TypeOK ==
  /\ now \in Nat /\ published \in Docs
  /\ replaced \in [Docs -> Nat \cup {None}]
  /\ client \in Row \cup {None}
  /\ inflight \in Calls \cup {None}
  /\ call \in [Calls -> Call]
  /\ \A c \in Calls : call[c].pc = "arrives" => call[c].doc \in Docs
  /\ denied \in BOOLEAN /\ denials \in Nat
  /\ denial \in [pc : {"idle", "read"}, listed : BOOLEAN]
  /\ grant \in [live : BOOLEAN, outrun : BOOLEAN]
  /\ outdated \in Nat

Leads == \A c \in Calls : call[c].pc \in {"fetches", "arrives"} => inflight = c

Ordered ==
  /\ client # None => client.doc <= published
  /\ \A c \in Calls : call[c].pc = "arrives" =>
       call[c].doc <= published /\ (client # None => client.doc <= call[c].doc)

(* Since when a document is out of date, and a row of it at most. *)
Replaced == \A d \in Docs : replaced[d] # None => d < published
AgedRow(row) ==
  row # None =>
    /\ row.expiresAt <= now + TTL
    /\ replaced[row.doc] # None => row.expiresAt <= replaced[row.doc] + CallTime + TTL

AgedCall(c) ==
  /\ call[c].pc \notin {"idle", "joins"} => call[c].at <= now /\ now <= call[c].at + CallTime
  /\ AgedRow(call[c].cached)
  /\ (call[c].pc = "arrives" /\ replaced[call[c].doc] # None) => call[c].at <= replaced[call[c].doc]
  /\ call[c].pc = "touches" =>
       /\ 0 < TTL
       /\ (client # None /\ replaced[client.doc] # None) =>
            call[c].at < replaced[client.doc] + CallTime + TTL

Aged == Replaced /\ AgedRow(client) /\ \A c \in Calls : AgedCall(c)

IInv == TypeOK /\ Leads /\ Ordered /\ Aged /\ OutdatedInTime /\ OnlyOutrunSurvives

-----------------------------------------------------------------------------
(* How the requests move.                                                  *)

Kept(c) == call'[c] = call[c]

LEMMA NoCallType == NoCall \in Call /\ NoCall.pc = "idle" /\ NoCall.cached = None
BY DEF NoCall, Call

LEMMA GoesType ==
  ASSUME TypeOK, NEW c \in Calls, NEW r \in Call, Goes(c, r)
  PROVE  /\ call' \in [Calls -> Call]
         /\ \A d \in Calls \ {c} : Kept(d)
         /\ call'[c].pc = r.pc /\ call'[c].leader = r.leader /\ call'[c].cached = r.cached
         /\ call'[c].doc = r.doc /\ call'[c].at = now /\ call'[c].outrun = r.outrun
<1>1. now \in Nat /\ call \in [Calls -> Call]
  BY DEF TypeOK
<1> DEFINE new == [r EXCEPT !.at = now]
<1>2. /\ new \in Call /\ new.pc = r.pc /\ new.leader = r.leader /\ new.cached = r.cached
      /\ new.doc = r.doc /\ new.at = now /\ new.outrun = r.outrun
  BY <1>1 DEF Call
<1>3. call' = [call EXCEPT ![c] = new]
  BY DEF Goes
<1> HIDE DEF new
<1> QED
  BY <1>1, <1>2, <1>3 DEF Kept

LEMMA ReturnType ==
  ASSUME TypeOK, NEW c \in Calls, Return(c)
  PROVE  /\ call' \in [Calls -> Call]
         /\ \A d \in Calls \ {c} : Kept(d)
         /\ call'[c].pc = "idle" /\ call'[c].cached = None
BY NoCallType DEF TypeOK, Return, Kept

LEMMA ResolveType ==
  ASSUME TypeOK, NEW C \in SUBSET Calls, NEW doc \in Docs, Resolve(C, doc)
  PROVE  /\ call' \in [Calls -> Call]
         /\ \A d \in Calls \ C : Kept(d)
         /\ \A d \in C : /\ call'[d].pc = "resolved" /\ call'[d].cached = None
                         /\ call'[d].at = now /\ call'[d].outrun = call[d].outrun
<1>1. now \in Nat /\ \A d \in Calls : call[d] \in Call
  BY DEF TypeOK
<1> DEFINE new(d) == [NoCall EXCEPT !.pc = "resolved", !.doc = doc, !.at = now, !.outrun = call[d].outrun]
<1>2. \A d \in Calls : /\ new(d) \in Call /\ new(d).pc = "resolved" /\ new(d).cached = None
                       /\ new(d).at = now /\ new(d).outrun = call[d].outrun
  BY <1>1 DEF NoCall, Call
<1>3. call' = [d \in Calls |-> IF d \in C THEN new(d) ELSE call[d]]
  BY DEF Resolve
<1> HIDE DEF new
<1> QED
  BY <1>1, <1>2, <1>3 DEF Kept

(* A request takes a step of its own, and neither the row, the documents   *)
(* nor the clock change. *)
LEMMA Moves ==
  ASSUME IInv, NEW c \in Calls,
         call' \in [Calls -> Call], \A d \in Calls \ {c} : Kept(d),
         call'[c].pc \notin {"touches", "arrives"},
         call'[c].pc = "fetches" => inflight' = c,
         inflight' = inflight \/ (inflight = None /\ inflight' = c),
         call'[c].cached = None \/ call'[c].cached = call[c].cached \/ call'[c].cached = client,
         call'[c].pc \notin {"idle", "joins"} => call'[c].at = now,
         denied => call'[c].pc = "idle" \/ (call[c].pc # "idle" /\ call'[c].outrun = call[c].outrun),
         UNCHANGED << now, web, client, denylist, outdated >>,
         grant' \in [live : BOOLEAN, outrun : BOOLEAN],
         denied => grant' = grant \/ ~grant'.live \/ (call[c].pc # "idle" /\ grant'.outrun = call[c].outrun)
  PROVE  IInv'
<1>1. TypeOK'
  BY DEF IInv, TypeOK, Kept, web, denylist
<1>2. Leads'
  BY ClientsAssumption DEF IInv, Leads, Kept
<1>3. Ordered'
  BY DEF IInv, Ordered, Kept, web
<1>4. Replaced' /\ AgedRow(client)'
  BY DEF IInv, Aged, Replaced, AgedRow, web
<1>5. ASSUME NEW d \in Calls PROVE AgedCall(d)'
  <2>1. AgedRow(client) /\ AgedCall(d) /\ AgedCall(c) /\ now \in Nat /\ CallTime \in Nat
    BY ClientsAssumption DEF IInv, Aged, TypeOK
  <2>2. CASE d = c
    <3>1. call'[c].pc \notin {"idle", "joins"} => call'[c].at <= now /\ now <= call'[c].at + CallTime
      BY <2>1
    <3> QED
      BY <2>1, <2>2, <3>1 DEF AgedCall, AgedRow, web
  <2>3. CASE d # c
    BY <2>1, <2>3 DEF AgedCall, AgedRow, Kept, web
  <2> QED
    BY <2>2, <2>3
<1>6. OutdatedInTime'
  BY DEF IInv, OutdatedInTime
<1>7. OnlyOutrunSurvives'
  BY DEF IInv, OnlyOutrunSurvives, Kept, denylist
<1> QED
  BY <1>1, <1>2, <1>3, <1>4, <1>5, <1>6, <1>7 DEF IInv, Aged

LEMMA AskStep == ASSUME IInv, NEW c \in Calls, Ask(c) PROVE IInv'
<1> DEFINE new == [NoCall EXCEPT !.pc = "reads"]
<1>1. new \in Call /\ new.pc = "reads" /\ new.cached = None
  BY DEF NoCall, Call
<1>2. Goes(c, new) /\ ~denied /\ UNCHANGED << now, web, registry, denylist, grant, outdated >>
  BY DEF Ask, Allowed
<1> HIDE DEF new
<1>3. TypeOK
  BY DEF IInv
<1> QED
  BY <1>1, <1>2, <1>3, GoesType, Moves DEF TypeOK, registry

LEMMA MissStep ==
  ASSUME IInv, NEW c \in Calls, call[c].pc # "idle",
         NEW cached \in Row \cup {None}, cached = client \/ cached = call[c].cached, Miss(c, cached),
         UNCHANGED << now, web, client, denylist, grant, outdated >>
  PROVE  IInv'
<1>1. TypeOK /\ call[c] \in Call
  BY DEF IInv, TypeOK
<1>2. CASE inflight # None
  <2> DEFINE new == [call[c] EXCEPT !.pc = "joins", !.leader = inflight]
  <2>1. /\ new \in Call /\ new.pc = "joins" /\ new.cached = call[c].cached
        /\ new.outrun = call[c].outrun
    BY <1>1, <1>2 DEF Call, TypeOK
  <2>2. Goes(c, new) /\ UNCHANGED inflight
    BY <1>2 DEF Miss, Shares
  <2> HIDE DEF new
  <2> QED
    BY <1>1, <2>1, <2>2, GoesType, Moves DEF TypeOK
<1>3. CASE inflight = None
  <2> DEFINE new == [call[c] EXCEPT !.pc = "fetches", !.cached = cached]
  <2>1. /\ new \in Call /\ new.pc = "fetches" /\ new.cached = cached
        /\ new.outrun = call[c].outrun
    BY <1>1 DEF Call
  <2>2. Goes(c, new) /\ inflight' = c
    BY <1>3 DEF Miss, Shares
  <2> HIDE DEF new
  <2> QED
    BY <1>1, <1>3, <2>1, <2>2, GoesType, Moves DEF TypeOK
<1> QED
  BY <1>2, <1>3

LEMMA ReadMissStep == ASSUME IInv, NEW c \in Calls, ReadMiss(c) PROVE IInv'
BY MissStep DEF ReadMiss, IInv, TypeOK

LEMMA TouchVanishedStep == ASSUME IInv, NEW c \in Calls, TouchVanished(c) PROVE IInv'
<1>1. call[c].cached \in Row \cup {None}
  BY DEF IInv, TypeOK, Call
<1> QED
  BY <1>1, MissStep DEF TouchVanished

LEMMA ReturnStep ==
  ASSUME IInv, NEW c \in Calls, call[c].pc # "idle", Return(c),
         UNCHANGED << now, web, registry, denylist, outdated >>,
         grant' \in [live : BOOLEAN, outrun : BOOLEAN],
         grant' = grant \/ grant'.outrun = call[c].outrun
  PROVE  IInv'
<1>1. TypeOK
  BY DEF IInv
<1> QED
  BY <1>1, ReturnType, Moves DEF registry

LEMMA ApproveStep == ASSUME IInv, NEW c \in Calls, Approve(c) PROVE IInv'
<1>1. call[c].outrun \in BOOLEAN
  BY DEF IInv, TypeOK, Call
<1> QED
  BY <1>1, ReturnStep DEF Approve

LEMMA LeaveStep == ASSUME IInv, NEW c \in Calls, Leave(c) PROVE IInv'
<1>1. grant \in [live : BOOLEAN, outrun : BOOLEAN]
  BY DEF IInv, TypeOK
<1> QED
  BY <1>1, ReturnStep DEF Leave

LEMMA ReadLiveStep == ASSUME IInv, NEW c \in Calls, ReadLive(c) PROVE IInv'
<1> DEFINE new == [call[c] EXCEPT !.pc = "touches", !.cached = client]
<1>1. TypeOK /\ call[c] \in Call /\ TTL \in Nat /\ CallTime \in Nat
  BY ClientsAssumption DEF IInv, TypeOK
<1>2. /\ new \in Call /\ new.pc = "touches" /\ new.cached = client
      /\ new.outrun = call[c].outrun
  BY <1>1 DEF Call, TypeOK
<1>3. /\ call[c].pc = "reads" /\ client # None /\ client \in Row /\ client.expiresAt > now /\ Goes(c, new)
      /\ UNCHANGED << now, web, registry, denylist, grant, outdated >>
  BY <1>1 DEF ReadLive, Live, TypeOK
<1> HIDE DEF new
<1>4. /\ call' \in [Calls -> Call] /\ \A d \in Calls \ {c} : Kept(d)
      /\ call'[c].pc = "touches" /\ call'[c].cached = client /\ call'[c].at = now
      /\ call'[c].outrun = call[c].outrun
  BY <1>1, <1>2, <1>3, GoesType
<1>5. TypeOK'
  BY <1>1, <1>3, <1>4 DEF TypeOK, Kept, web, registry, denylist
<1>6. Leads' /\ Ordered'
  BY <1>3, <1>4 DEF IInv, Leads, Ordered, Kept, web, registry
<1>7. Replaced' /\ AgedRow(client)'
  BY <1>3 DEF IInv, Aged, Replaced, AgedRow, web, registry
<1>8. ASSUME NEW d \in Calls PROVE AgedCall(d)'
  <2>1. AgedRow(client) /\ AgedCall(d)
    BY DEF IInv, Aged
  <2>2. CASE d = c
    <3>1. now \in Nat /\ client.expiresAt \in Nat /\ client.doc \in Docs
          /\ (replaced[client.doc] # None => replaced[client.doc] \in Nat)
      BY <1>1, <1>3 DEF TypeOK, Row
    <3>2. /\ client.expiresAt <= now + TTL
          /\ replaced[client.doc] # None => client.expiresAt <= replaced[client.doc] + CallTime + TTL
      BY <2>1, <1>1, <1>3 DEF AgedRow
    <3>3. /\ 0 < TTL
          /\ replaced[client.doc] # None => now < replaced[client.doc] + CallTime + TTL
      BY <1>1, <1>3, <3>1, <3>2
    <3> QED
      BY <1>1, <1>3, <1>4, <2>1, <2>2, <3>1, <3>3 DEF AgedCall, AgedRow, web, registry
  <2>3. CASE d # c
    BY <1>3, <1>4, <2>1, <2>3 DEF AgedCall, AgedRow, Kept, web, registry
  <2> QED
    BY <2>2, <2>3
<1>9. OutdatedInTime' /\ OnlyOutrunSurvives'
  BY <1>3, <1>4 DEF IInv, OutdatedInTime, OnlyOutrunSurvives, Kept, denylist
<1> QED
  BY <1>5, <1>6, <1>7, <1>8, <1>9 DEF IInv, Aged

LEMMA FetchReadsStep == ASSUME IInv, NEW c \in Calls, FetchReads(c) PROVE IInv'
<1> DEFINE new == [call[c] EXCEPT !.pc = "arrives", !.doc = published]
<1>1. TypeOK /\ call[c] \in Call /\ CallTime \in Nat /\ published \in Docs /\ published \in Nat
  BY ClientsAssumption DEF IInv, TypeOK, Docs
<1>2. /\ new \in Call /\ new.pc = "arrives" /\ new.cached = call[c].cached
      /\ new.doc = published /\ new.outrun = call[c].outrun
  BY <1>1 DEF Call
<1>3. /\ call[c].pc = "fetches" /\ Goes(c, new)
      /\ UNCHANGED << now, web, registry, denylist, grant, outdated >>
  BY DEF FetchReads
<1> HIDE DEF new
<1>4. /\ call' \in [Calls -> Call] /\ \A d \in Calls \ {c} : Kept(d)
      /\ call'[c].pc = "arrives" /\ call'[c].cached = call[c].cached /\ call'[c].at = now
      /\ call'[c].doc = published /\ call'[c].outrun = call[c].outrun
  BY <1>1, <1>2, <1>3, GoesType
<1>5. TypeOK'
  BY <1>1, <1>3, <1>4 DEF TypeOK, Kept, web, registry, denylist
<1>6. Leads' /\ Ordered'
  BY <1>1, <1>3, <1>4 DEF IInv, Leads, Ordered, Kept, web, registry
<1>7. Replaced' /\ AgedRow(client)'
  BY <1>3 DEF IInv, Aged, Replaced, AgedRow, web, registry
<1>8. ASSUME NEW d \in Calls PROVE AgedCall(d)'
  <2>1. Replaced /\ AgedCall(d) /\ now \in Nat
    BY <1>1 DEF IInv, Aged, TypeOK
  <2>2. CASE d = c
    <3>1. replaced[published] = None
      BY <1>1, <2>1 DEF Replaced
    <3> QED
      BY <1>1, <1>3, <1>4, <2>1, <2>2, <3>1 DEF AgedCall, AgedRow, web, registry
  <2>3. CASE d # c
    BY <1>3, <1>4, <2>1, <2>3 DEF AgedCall, AgedRow, Kept, web, registry
  <2> QED
    BY <2>2, <2>3
<1>9. OutdatedInTime' /\ OnlyOutrunSurvives'
  BY <1>3, <1>4 DEF IInv, OutdatedInTime, OnlyOutrunSurvives, Kept, denylist
<1> QED
  BY <1>5, <1>6, <1>7, <1>8, <1>9 DEF IInv, Aged

-----------------------------------------------------------------------------
(* Documents that are served.                                              *)

(* Requests that fetch or share leave with a document that is at most so   *)
(* far out of date. *)
LEMMA Serves ==
  ASSUME IInv, NEW C \in SUBSET Calls, NEW doc \in Docs, Resolve(C, doc),
         \A c \in C : call[c].pc # "idle",
         replaced[doc] # None => now <= replaced[doc] + TTL + Stale + CallTime,
         inflight' = inflight \/ (inflight' = None /\ inflight \in C),
         UNCHANGED << now, web, client, denylist, grant >>
  PROVE  IInv'
<1>1. TypeOK /\ now \in Nat /\ outdated \in Nat /\ {TTL, Stale, CallTime} \subseteq Nat
      /\ (replaced[doc] # None => replaced[doc] \in Nat)
  BY ClientsAssumption DEF IInv, TypeOK
<1>2. /\ call' \in [Calls -> Call]
      /\ \A d \in Calls \ C : Kept(d)
      /\ \A d \in C : /\ call'[d].pc = "resolved" /\ call'[d].cached = None
                      /\ call'[d].at = now /\ call'[d].outrun = call[d].outrun
  BY <1>1, ResolveType
<1>3. outdated' \in Nat /\ OutdatedInTime'
  <2>1. outdated <= TTL + Stale + CallTime
    BY DEF IInv, OutdatedInTime
  <2>2. CASE replaced[doc] = None
    BY <1>1, <2>1, <2>2 DEF Resolve, OutdatedInTime
  <2>3. CASE replaced[doc] # None
    <3>1. outdated' = IF outdated > now - replaced[doc] THEN outdated ELSE now - replaced[doc]
      BY <2>3 DEF Resolve, Larger
    <3> QED
      BY <1>1, <2>1, <2>3, <3>1 DEF OutdatedInTime
  <2> QED
    BY <2>2, <2>3
<1>4. TypeOK'
  BY <1>1, <1>2, <1>3 DEF TypeOK, Kept, web, denylist
<1>5. Leads' /\ Ordered'
  <2>1. ASSUME NEW d \in Calls PROVE d \in C \/ Kept(d)
    BY <1>2
  <2>2. Leads /\ Ordered
    BY DEF IInv
  <2> QED
    BY <1>2, <2>1, <2>2 DEF Leads, Ordered, Kept, web
<1>6. Replaced' /\ AgedRow(client)'
  BY DEF IInv, Aged, Replaced, AgedRow, web
<1>7. ASSUME NEW d \in Calls PROVE AgedCall(d)'
  <2>1. AgedCall(d)
    BY DEF IInv, Aged
  <2>2. CASE d \in C
    BY <1>1, <1>2, <2>2 DEF AgedCall, AgedRow
  <2>3. CASE d \notin C
    BY <1>2, <2>1, <2>3 DEF AgedCall, AgedRow, Kept, web
  <2> QED
    BY <2>2, <2>3
<1>8. OnlyOutrunSurvives'
  BY <1>2 DEF IInv, OnlyOutrunSurvives, Kept, denylist
<1> QED
  BY <1>3, <1>4, <1>5, <1>6, <1>7, <1>8 DEF IInv, Aged

LEMMA TouchStep == ASSUME IInv, NEW c \in Calls, Touch(c) PROVE IInv'
<1>1. /\ call[c].pc = "touches" /\ client \in Row /\ Resolve({c}, client.doc)
      /\ UNCHANGED << now, web, registry, denylist, grant >>
  BY DEF Touch, IInv, TypeOK
<1>2. client.doc \in Docs
  BY <1>1 DEF Row
<1>3. ASSUME replaced[client.doc] # None
      PROVE  now <= replaced[client.doc] + TTL + Stale + CallTime
  <2>1. /\ {TTL, Stale, CallTime} \subseteq Nat /\ CallTime <= Stale + 1 /\ now \in Nat
        /\ replaced[client.doc] \in Nat /\ call[c].at \in Nat
    BY <1>2, <1>3, ClientsAssumption DEF IInv, TypeOK, Call
  <2>2. client # None => call[c].at < replaced[client.doc] + CallTime + TTL
    BY <1>1, <1>3 DEF IInv, Aged, AgedCall
  <2>3. now <= call[c].at + CallTime
    BY <1>1 DEF IInv, Aged, AgedCall
  <2>4. client # None
    BY <1>1 DEF Touch
  <2> QED
    BY <2>1, <2>2, <2>3, <2>4
<1> QED
  BY <1>1, <1>2, <1>3, Serves DEF registry

LEMMA SettledCalls ==
  ASSUME IInv, NEW c \in Calls, call[c].pc \in {"fetches", "arrives"}
  PROVE  /\ Settled(c) \in SUBSET Calls /\ c \in Settled(c) /\ inflight = c
         /\ \A d \in Settled(c) : call[d].pc # "idle"
         /\ \A d \in Calls \ Settled(c) : call[d].pc \notin {"fetches", "arrives"}
BY DEF IInv, Leads, Settled, JoinersOf

LEMMA FetchRefusedStep == ASSUME IInv, NEW c \in Calls, FetchRefused(c) PROVE IInv'
<1> DEFINE row == call[c].cached
<1>1. /\ call[c].pc = "fetches" /\ row \in Row /\ row # None /\ now <= row.expiresAt + Stale
      /\ Resolve(Settled(c), row.doc) /\ inflight' = None
      /\ UNCHANGED << now, web, client, denylist, grant >>
  BY DEF FetchRefused, StaleServed, IInv, TypeOK, Call
<1>2. row.doc \in Docs /\ row.expiresAt \in Nat
  BY <1>1 DEF Row
<1>3. ASSUME replaced[row.doc] # None
      PROVE  now <= replaced[row.doc] + TTL + Stale + CallTime
  <2>1. {TTL, Stale, CallTime} \subseteq Nat /\ now \in Nat /\ replaced[row.doc] \in Nat
    BY <1>2, <1>3, ClientsAssumption DEF IInv, TypeOK
  <2>2. row.expiresAt <= replaced[row.doc] + CallTime + TTL
    BY <1>1, <1>3 DEF IInv, Aged, AgedCall, AgedRow
  <2> QED
    BY <1>1, <1>2, <2>1, <2>2
<1>4. /\ Settled(c) \in SUBSET Calls /\ c \in Settled(c) /\ inflight = c
      /\ \A d \in Settled(c) : call[d].pc # "idle"
  BY <1>1, SettledCalls
<1> HIDE DEF row
<1> QED
  BY <1>1, <1>2, <1>3, <1>4, Serves

LEMMA FetchArrivesStep ==
  ASSUME IInv, NEW c \in Calls, FetchArrives(c)
  PROVE  IInv' /\ (client # None /\ client' # None => client'.doc >= client.doc)
<1> DEFINE doc == call[c].doc
<1>1. PICK ttl \in 0..TTL : client' = [doc |-> doc, expiresAt |-> now + ttl]
  BY DEF FetchArrives
<1>2. /\ call[c].pc = "arrives" /\ Resolve(Settled(c), doc) /\ inflight' = None
      /\ UNCHANGED << now, web, denylist, grant >>
  BY DEF FetchArrives
<1>3. /\ Settled(c) \in SUBSET Calls /\ c \in Settled(c)
      /\ \A d \in Settled(c) : call[d].pc # "idle"
      /\ \A d \in Calls \ Settled(c) : call[d].pc \notin {"fetches", "arrives"}
  BY <1>2, SettledCalls
<1>4. /\ TypeOK /\ doc \in Docs /\ now \in Nat /\ call[c].at \in Nat /\ ttl \in Nat /\ ttl <= TTL
      /\ {TTL, Stale, CallTime} \subseteq Nat /\ outdated \in Nat
      /\ (replaced[doc] # None => replaced[doc] \in Nat)
  BY <1>2, ClientsAssumption DEF IInv, TypeOK, Call
<1>5. /\ call[c].at <= now /\ now <= call[c].at + CallTime
      /\ replaced[doc] # None => call[c].at <= replaced[doc]
  BY <1>2 DEF IInv, Aged, AgedCall
<1>6. /\ doc <= published
      /\ client # None => client.doc <= doc
  BY <1>2 DEF IInv, Ordered
<1> HIDE DEF doc
<1>7. /\ call' \in [Calls -> Call]
      /\ \A d \in Calls \ Settled(c) : Kept(d)
      /\ \A d \in Settled(c) : /\ call'[d].pc = "resolved" /\ call'[d].cached = None
                               /\ call'[d].at = now /\ call'[d].outrun = call[d].outrun
  BY <1>2, <1>3, <1>4, ResolveType
<1>8. /\ client' \in Row /\ client'.doc = doc /\ client'.expiresAt \in Nat
      /\ client'.expiresAt <= now + TTL
  BY <1>1, <1>4 DEF Row
<1>9. outdated' \in Nat /\ OutdatedInTime'
  <2>1. outdated <= TTL + Stale + CallTime
    BY DEF IInv, OutdatedInTime
  <2>2. CASE replaced[doc] = None
    BY <1>2, <1>4, <2>1, <2>2 DEF Resolve, OutdatedInTime
  <2>3. CASE replaced[doc] # None
    <3>1. outdated' = IF outdated > now - replaced[doc] THEN outdated ELSE now - replaced[doc]
      BY <1>2, <2>3 DEF Resolve, Larger
    <3> QED
      BY <1>4, <1>5, <2>1, <2>3, <3>1 DEF OutdatedInTime
  <2> QED
    BY <2>2, <2>3
<1>10. TypeOK'
  BY <1>2, <1>3, <1>4, <1>7, <1>8, <1>9 DEF TypeOK, Kept, web, denylist
<1>11. ASSUME NEW d \in Calls PROVE call'[d].pc \notin {"fetches", "arrives"}
  BY <1>3, <1>7 DEF Kept
<1>12. Leads' /\ Ordered'
  BY <1>2, <1>6, <1>8, <1>11 DEF Leads, Ordered, web
<1>13. Replaced' /\ AgedRow(client)'
  <2>1. replaced[doc] # None => client'.expiresAt <= replaced[doc] + CallTime + TTL
    BY <1>4, <1>5, <1>8
  <2> QED
    BY <1>2, <1>8, <2>1 DEF IInv, Aged, Replaced, AgedRow, web
<1>14. ASSUME NEW d \in Calls PROVE AgedCall(d)'
  <2>1. AgedCall(d)
    BY DEF IInv, Aged
  <2>2. CASE d \in Settled(c)
    BY <1>2, <1>4, <1>7, <2>2 DEF AgedCall, AgedRow
  <2>3. CASE d \notin Settled(c)
    <3>1. Kept(d) /\ call[d] \in Call /\ call[d].at \in Nat
      BY <1>4, <1>7, <2>3 DEF TypeOK, Call
    <3>2. (call[d].pc = "touches" /\ replaced[doc] # None) => call[d].at < replaced[doc] + CallTime + TTL
      BY <1>4, <1>5, <2>1, <3>1 DEF AgedCall
    <3> QED
      BY <1>2, <1>8, <1>11, <2>1, <3>1, <3>2 DEF AgedCall, AgedRow, Kept, web
  <2> QED
    BY <2>2, <2>3
<1>15. OnlyOutrunSurvives'
  BY <1>2, <1>3, <1>7 DEF IInv, OnlyOutrunSurvives, Kept, denylist
<1>16. client # None /\ client' # None => client'.doc >= client.doc
  BY <1>6, <1>8
<1> QED
  BY <1>9, <1>10, <1>12, <1>13, <1>14, <1>15, <1>16 DEF IInv, Aged

LEMMA FetchFailsStep == ASSUME IInv, NEW c \in Calls, FetchFails(c) PROVE IInv'
<1>1. /\ call[c].pc \in {"fetches", "arrives"} /\ inflight' = None
      /\ call' = [d \in Calls |-> IF d \in Settled(c) THEN NoCall ELSE call[d]]
      /\ UNCHANGED << now, web, client, denylist, grant, outdated >>
  BY DEF FetchFails
<1>2. /\ Settled(c) \in SUBSET Calls
      /\ \A d \in Calls \ Settled(c) : call[d].pc \notin {"fetches", "arrives"}
  BY <1>1, SettledCalls
<1>3. /\ call' \in [Calls -> Call]
      /\ \A d \in Calls \ Settled(c) : Kept(d)
      /\ \A d \in Settled(c) : call'[d].pc = "idle" /\ call'[d].cached = None
  BY <1>1, <1>2, NoCallType DEF IInv, TypeOK, Kept
<1>4. TypeOK'
  BY <1>1, <1>3 DEF IInv, TypeOK, Kept, web, denylist
<1>5. ASSUME NEW d \in Calls PROVE call'[d].pc \notin {"fetches", "arrives"}
  BY <1>2, <1>3 DEF Kept
<1>6. Leads' /\ Ordered' /\ Replaced' /\ AgedRow(client)'
  BY <1>1, <1>5 DEF IInv, Leads, Ordered, Aged, Replaced, AgedRow, web
<1>7. ASSUME NEW d \in Calls PROVE AgedCall(d)'
  BY <1>1, <1>3, <1>5 DEF IInv, Aged, AgedCall, AgedRow, Kept, web
<1>8. OutdatedInTime' /\ OnlyOutrunSurvives'
  BY <1>1, <1>3 DEF IInv, OutdatedInTime, OnlyOutrunSurvives, Kept, denylist
<1> QED
  BY <1>4, <1>6, <1>7, <1>8 DEF IInv, Aged

-----------------------------------------------------------------------------
(* Steps of the others.                                                    *)

LEMMA PublishStep == ASSUME IInv, Publish PROVE IInv'
<1>1. TypeOK /\ {TTL, CallTime, MaxDocuments} \subseteq Nat /\ now \in Nat
      /\ published \in Docs /\ published' = published + 1 /\ published < MaxDocuments
      /\ replaced \in [Docs -> Nat \cup {None}] /\ replaced' = [replaced EXCEPT ![published] = now]
      /\ UNCHANGED << now, registry, call, denylist, grant, outdated >>
  BY ClientsAssumption DEF IInv, TypeOK, Publish
<1>2. \A d \in Docs : replaced'[d] = IF d = published THEN now ELSE replaced[d]
  BY <1>1
<1>3. published' \in Docs /\ replaced' \in [Docs -> Nat \cup {None}]
  BY <1>1 DEF Docs
<1>4. TypeOK'
  BY <1>1, <1>3 DEF TypeOK, registry, denylist
<1>5. Leads'
  BY <1>1 DEF IInv, Leads, registry
<1>6. Ordered'
  <2>1. \A c \in Calls : call[c].pc = "arrives" => call[c].doc \in Docs
    BY <1>1 DEF TypeOK
  <2>2. client # None => client.doc \in Docs
    BY <1>1 DEF TypeOK, Row
  <2> QED
    BY <1>1, <2>1, <2>2 DEF IInv, Ordered, registry, Docs
<1>7. Replaced'
  BY <1>1, <1>2 DEF IInv, Aged, Replaced, Docs
<1>8. ASSUME NEW row \in Row \cup {None}, AgedRow(row)
      PROVE  row # None =>
               /\ row.expiresAt <= now' + TTL
               /\ replaced'[row.doc] # None => row.expiresAt <= replaced'[row.doc] + CallTime + TTL
  BY <1>1, <1>2, <1>8 DEF AgedRow, Row
<1>9. AgedRow(client)'
  BY <1>1, <1>8 DEF IInv, Aged, AgedRow, TypeOK, registry
<1>10. ASSUME NEW c \in Calls PROVE AgedCall(c)'
  <2>1. AgedCall(c) /\ call[c] \in Call /\ call[c].at \in Nat /\ call[c].cached \in Row \cup {None}
        /\ (call[c].pc = "arrives" => call[c].doc \in Docs)
        /\ (client # None => client.doc \in Docs)
    BY <1>1 DEF IInv, Aged, TypeOK, Call, Row
  <2>2. AgedRow(call[c].cached)'
    BY <1>1, <1>8, <2>1 DEF AgedCall, AgedRow
  <2>3. (call[c].pc = "arrives" /\ replaced'[call[c].doc] # None) => call[c].at <= replaced'[call[c].doc]
    BY <1>1, <1>2, <2>1 DEF AgedCall
  <2>4. call[c].pc = "touches" =>
          /\ 0 < TTL
          /\ (client # None /\ replaced'[client.doc] # None) =>
               call[c].at < replaced'[client.doc] + CallTime + TTL
    BY <1>1, <1>2, <2>1 DEF AgedCall
  <2> QED
    BY <1>1, <2>1, <2>2, <2>3, <2>4 DEF AgedCall, registry
<1>11. OutdatedInTime' /\ OnlyOutrunSurvives'
  BY <1>1 DEF IInv, OutdatedInTime, OnlyOutrunSurvives, denylist
<1> QED
  BY <1>4, <1>5, <1>6, <1>7, <1>9, <1>10, <1>11 DEF IInv, Aged

LEMMA PruneStep == ASSUME IInv, Prune PROVE IInv'
<1>1. client' = None /\ UNCHANGED << now, web, inflight, call, denylist, grant, outdated >>
  BY DEF Prune
<1>2. TypeOK' /\ Leads' /\ Ordered' /\ Replaced' /\ AgedRow(client)'
  BY <1>1 DEF IInv, TypeOK, Leads, Ordered, Aged, Replaced, AgedRow, web, denylist
<1>3. ASSUME NEW c \in Calls PROVE AgedCall(c)'
  BY <1>1 DEF IInv, Aged, AgedCall, AgedRow, web
<1>4. OutdatedInTime' /\ OnlyOutrunSurvives'
  BY <1>1 DEF IInv, OutdatedInTime, OnlyOutrunSurvives, denylist
<1> QED
  BY <1>2, <1>3, <1>4 DEF IInv, Aged

(* What says nothing of the row or the documents. *)
LEMMA Others ==
  ASSUME IInv, UNCHANGED << now, web, registry, outdated >>,
         call' \in [Calls -> Call],
         \A c \in Calls : /\ call'[c].pc = call[c].pc /\ call'[c].cached = call[c].cached
                          /\ call'[c].doc = call[c].doc /\ call'[c].at = call[c].at,
         denied' \in BOOLEAN /\ denials' \in Nat,
         denial' \in [pc : {"idle", "read"}, listed : BOOLEAN],
         grant' \in [live : BOOLEAN, outrun : BOOLEAN],
         OnlyOutrunSurvives'
  PROVE  IInv'
<1>1. TypeOK'
  BY DEF IInv, TypeOK, web, registry
<1>2. Leads' /\ Ordered' /\ Replaced' /\ AgedRow(client)'
  BY DEF IInv, Leads, Ordered, Aged, Replaced, AgedRow, web, registry
<1>3. ASSUME NEW c \in Calls PROVE AgedCall(c)'
  BY DEF IInv, Aged, AgedCall, AgedRow, web, registry
<1>4. OutdatedInTime'
  BY DEF IInv, OutdatedInTime
<1> QED
  BY <1>1, <1>2, <1>3, <1>4 DEF IInv, Aged

LEMMA RevokeStep == ASSUME IInv, Revoke PROVE IInv'
<1>1. OnlyOutrunSurvives'
  BY DEF IInv, OnlyOutrunSurvives, Revoke, denylist
<1> QED
  BY <1>1, Others DEF Revoke, IInv, TypeOK, denylist

LEMMA DenyReadsStep == ASSUME IInv, DenyReads PROVE IInv'
<1>1. TypeOK /\ grant.live \in BOOLEAN
  BY DEF IInv, TypeOK
<1>2. OnlyOutrunSurvives'
  BY DEF IInv, OnlyOutrunSurvives, DenyReads
<1>3. denials' \in Nat /\ denial' \in [pc : {"idle", "read"}, listed : BOOLEAN]
  BY <1>1 DEF DenyReads, TypeOK
<1> QED
  BY <1>1, <1>2, <1>3, Others DEF DenyReads, TypeOK

LEMMA DenyCommitsStep == ASSUME IInv, DenyCommits PROVE IInv'
<1>1. TypeOK /\ \A c \in Calls : call[c] \in Call
  BY DEF IInv, TypeOK
<1>2. grant.live \in BOOLEAN /\ denial.listed \in BOOLEAN
  BY <1>1 DEF TypeOK
<1> DEFINE marked(c) == [call[c] EXCEPT !.outrun = TRUE]
<1>3. \A c \in Calls : /\ marked(c) \in Call /\ marked(c).pc = call[c].pc
                       /\ marked(c).cached = call[c].cached /\ marked(c).doc = call[c].doc
                       /\ marked(c).at = call[c].at /\ marked(c).outrun = TRUE
  BY <1>1 DEF Call
<1>4. call' = [c \in Calls |-> IF call[c].pc = "idle" THEN call[c] ELSE marked(c)]
  BY DEF DenyCommits
<1> HIDE DEF marked
<1>5. /\ call' \in [Calls -> Call]
      /\ \A c \in Calls : /\ call'[c].pc = call[c].pc /\ call'[c].cached = call[c].cached
                          /\ call'[c].doc = call[c].doc /\ call'[c].at = call[c].at
                          /\ call[c].pc # "idle" => call'[c].outrun
  BY <1>1, <1>3, <1>4
<1>6. /\ denied' = TRUE /\ denial' = NoDenial
      /\ grant' = [live |-> grant.live /\ ~denial.listed, outrun |-> grant.live /\ ~denial.listed]
      /\ UNCHANGED << now, web, registry, denials, outdated >>
  BY DEF DenyCommits
<1>7. grant' \in [live : BOOLEAN, outrun : BOOLEAN] /\ grant'.live = grant'.outrun
  BY <1>2, <1>6
<1>8. OnlyOutrunSurvives'
  BY <1>5, <1>7 DEF OnlyOutrunSurvives
<1> QED
  BY <1>1, <1>5, <1>6, <1>7, <1>8, Others DEF TypeOK, NoDenial

LEMMA RemoveDenialStep == ASSUME IInv, RemoveDenial PROVE IInv'
<1>1. TypeOK /\ \A c \in Calls : call[c] \in Call
  BY DEF IInv, TypeOK
<1> DEFINE cleared(c) == [call[c] EXCEPT !.outrun = FALSE]
<1>2. \A c \in Calls : /\ cleared(c) \in Call /\ cleared(c).pc = call[c].pc
                       /\ cleared(c).cached = call[c].cached /\ cleared(c).doc = call[c].doc
                       /\ cleared(c).at = call[c].at
  BY <1>1 DEF Call
<1>3. call' = [c \in Calls |-> cleared(c)]
  BY DEF RemoveDenial
<1> HIDE DEF cleared
<1>4. /\ call' \in [Calls -> Call]
      /\ \A c \in Calls : /\ call'[c].pc = call[c].pc /\ call'[c].cached = call[c].cached
                          /\ call'[c].doc = call[c].doc /\ call'[c].at = call[c].at
  BY <1>2, <1>3
<1>5. /\ denied' = FALSE /\ grant' = [grant EXCEPT !.outrun = FALSE]
      /\ UNCHANGED << now, web, registry, denial, denials, outdated >>
  BY DEF RemoveDenial
<1>6. grant' \in [live : BOOLEAN, outrun : BOOLEAN]
  BY <1>1, <1>5 DEF TypeOK
<1>7. OnlyOutrunSurvives'
  BY <1>5 DEF OnlyOutrunSurvives
<1> QED
  BY <1>1, <1>4, <1>5, <1>6, <1>7, Others DEF TypeOK

LEMMA TickStep == ASSUME IInv, Tick PROVE IInv'
<1>1. /\ TypeOK /\ now \in Nat /\ now' = now + 1 /\ now' \in Nat /\ {TTL, CallTime} \subseteq Nat
      /\ \A c \in Calls : call[c].pc \notin {"idle", "joins"} => now < call[c].at + CallTime
      /\ UNCHANGED << web, registry, call, denylist, grant, outdated >>
  BY ClientsAssumption DEF IInv, TypeOK, Tick
<1>2. TypeOK'
  BY <1>1 DEF TypeOK, web, registry, denylist
<1>3. Leads' /\ Ordered' /\ Replaced'
  BY <1>1 DEF IInv, Leads, Ordered, Aged, Replaced, web, registry
<1>4. ASSUME NEW row \in Row \cup {None}, AgedRow(row) PROVE row # None => row.expiresAt <= now' + TTL
  BY <1>1, <1>4 DEF AgedRow, Row
<1>5. AgedRow(client)'
  BY <1>1, <1>4 DEF IInv, Aged, AgedRow, TypeOK, web, registry
<1>6. ASSUME NEW c \in Calls PROVE AgedCall(c)'
  <2>1. AgedCall(c) /\ call[c].at \in Nat /\ call[c].cached \in Row \cup {None}
    BY <1>1 DEF IInv, Aged, TypeOK, Call
  <2>2. AgedRow(call[c].cached)'
    BY <1>1, <1>4, <2>1 DEF AgedCall, AgedRow, web
  <2>3. call[c].pc \notin {"idle", "joins"} => call[c].at <= now' /\ now' <= call[c].at + CallTime
    BY <1>1, <2>1 DEF AgedCall
  <2> QED
    BY <1>1, <2>1, <2>2, <2>3 DEF AgedCall, web, registry
<1>7. OutdatedInTime' /\ OnlyOutrunSurvives'
  BY <1>1 DEF IInv, OutdatedInTime, OnlyOutrunSurvives, denylist
<1> QED
  BY <1>2, <1>3, <1>5, <1>6, <1>7 DEF IInv, Aged

-----------------------------------------------------------------------------
LEMMA Initially == Init => IInv
<1> SUFFICES ASSUME Init PROVE IInv
  OBVIOUS
<1>1. 0 \in Nat /\ 1 \in Docs
  BY ClientsAssumption DEF Docs
<1>2. TypeOK
  BY <1>1, NoCallType DEF Init, TypeOK, NoDenial, Docs
<1>3. \A c \in Calls : call[c].pc = "idle" /\ call[c].cached = None
  BY NoCallType DEF Init
<1>4. Leads /\ Ordered /\ Aged
  BY <1>3 DEF Init, Leads, Ordered, Aged, Replaced, AgedRow, AgedCall, Docs
<1>5. OutdatedInTime /\ OnlyOutrunSurvives
  BY <1>3, ClientsAssumption DEF Init, OutdatedInTime, OnlyOutrunSurvives
<1> QED
  BY <1>2, <1>4, <1>5 DEF IInv

LEMMA Stuttering == IInv /\ UNCHANGED vars => IInv'
<1> SUFFICES ASSUME IInv, UNCHANGED vars PROVE IInv'
  OBVIOUS
<1>1. /\ UNCHANGED << now, published, replaced, client, inflight, call >>
      /\ UNCHANGED << denied, denial, denials, grant, outdated >>
  BY DEF vars, web, registry, denylist
<1>2. TypeOK' /\ Leads' /\ Ordered'
  BY <1>1 DEF IInv, TypeOK, Leads, Ordered
<1>3. Aged'
  BY <1>1 DEF IInv, Aged, Replaced, AgedRow, AgedCall
<1>4. OutdatedInTime' /\ OnlyOutrunSurvives'
  BY <1>1 DEF IInv, OutdatedInTime, OnlyOutrunSurvives
<1> QED
  BY <1>2, <1>3, <1>4 DEF IInv

LEMMA Inductive == IInv /\ [Next]_vars => IInv'
<1> SUFFICES ASSUME IInv, [Next]_vars PROVE IInv'
  OBVIOUS
<1>1. CASE UNCHANGED vars
  BY <1>1, Stuttering
<1>2. ASSUME NEW c \in Calls, Ask(c) \/ Steps(c) PROVE IInv'
  BY <1>2, AskStep, ReadLiveStep, ReadMissStep, TouchStep, TouchVanishedStep, FetchReadsStep,
     FetchArrivesStep, FetchRefusedStep, FetchFailsStep, ApproveStep, LeaveStep DEF Steps
<1>3. CASE Publish \/ Prune \/ Revoke \/ DenyReads \/ DenyCommits \/ RemoveDenial \/ Tick
  BY <1>3, PublishStep, PruneStep, RevokeStep, DenyReadsStep, DenyCommitsStep, RemoveDenialStep, TickStep
<1> QED
  BY <1>1, <1>2, <1>3 DEF Next

(* What is kept of each request, and of the row, is of its type, in every  *)
(* reachable state (clients/cimd.ts). *)
THEOREM TypeCorrect == Spec => []TypeOK
<1>1. IInv => TypeOK
  BY DEF IInv
<1> QED
  BY <1>1, Initially, Inductive, PTL DEF Spec

(* No document that was replaced is served for longer than a lifetime, the *)
(* stale window and a fetch (cimd.ts:22-28, 355-364). *)
THEOREM OutdatedForSoLong == Spec => []OutdatedInTime
<1>1. IInv => OutdatedInTime
  BY DEF IInv
<1> QED
  BY <1>1, Initially, Inductive, PTL DEF Spec

(* While a client is denied, only requests past the check and grants that  *)
(* were stored since the listing go on (denylist.ts:120-148). *)
THEOREM DenialHolds == Spec => []OnlyOutrunSurvives
<1>1. IInv => OnlyOutrunSurvives
  BY DEF IInv
<1> QED
  BY <1>1, Initially, Inductive, PTL DEF Spec

LEMMA RowStep ==
  ASSUME IInv, [Next]_vars
  PROVE  [client # None /\ client' # None => client'.doc >= client.doc]_vars
<1>1. CASE \E c \in Calls : FetchArrives(c)
  BY <1>1, FetchArrivesStep
<1>2. CASE ~\E c \in Calls : FetchArrives(c)
  <2>1. UNCHANGED client \/ client' = None
    BY <1>2 DEF Next, vars, registry, Ask, Steps, ReadLive, ReadMiss, Touch, TouchVanished, FetchReads,
       FetchRefused, FetchFails, Approve, Leave, Publish, Prune, Revoke, DenyReads, DenyCommits,
       RemoveDenial, Tick
  <2>2. client # None => client.doc \in Nat
    BY DEF IInv, TypeOK, Row, Docs
  <2> QED
    BY <2>1, <2>2
<1> QED
  BY <1>1, <1>2

(* The row is never overwritten by an older document: there is one fetch   *)
(* at a time, however many find the row expired (cimd.ts:326-331). *)
THEOREM NoOlderDocument == Spec => RowNeverOlder
<1>1. IInv /\ [Next]_vars => [client # None /\ client' # None => client'.doc >= client.doc]_vars
  BY RowStep
<1> QED
  BY <1>1, Initially, Inductive, PTL DEF Spec, RowNeverOlder
============================================================================
