------------------------------ MODULE Clients ------------------------------
(***************************************************************************)
(* One client identified by the URL of its metadata document: resolveClient*)
(* with its cache and its single flight (clients/cimd.ts), the denylist    *)
(* (clients/denylist.ts), and the grant that a resolved client may be      *)
(* given.  Documents are numbered in the order in which the client         *)
(* publishes them; it is external, and so is what fills the budget of its  *)
(* host.                                                                   *)
(***************************************************************************)
EXTENDS Naturals

CONSTANTS
  Calls,         \* requests that resolve the client
  None,
  TTL,           \* the longest lifetime from Cache-Control
  Stale,         \* STALE_MAX_AGE_MS
  CallTime,      \* a request takes its next step within this time
  MaxDocuments,  \* bound: the documents ever published
  MaxDenials,    \* bound: the denials
  MaxTime        \* bound: the clock

ASSUME ClientsAssumption ==
  /\ {TTL, Stale, CallTime, MaxDocuments, MaxDenials, MaxTime} \subseteq Nat
  /\ 0 < MaxDocuments /\ CallTime <= Stale + 1
  /\ None \notin Calls

VARIABLES
  now,
  published,   \* the document at the URL
  replaced,    \* history: replaced[d]: when document d was replaced
  client,      \* the row of oauth_clients, or None
  inflight,    \* the call that leads inflightResolutions, or None
  call,        \* call[c]: its pc, the row or the document that it has
  denied,      \* is there a row of denied_clients
  denial,      \* the addDenial under way: its pc and whether it lists the grant
  denials,     \* bound: how many there have been
  grant,       \* is there a grant that is not revoked; history: outrun by the denial
  outdated     \* history: the longest that a replaced document was served

web == << published, replaced >>
registry == << client, inflight >>
denylist == << denied, denial, denials >>
vars == << now, web, registry, call, denylist, grant, outdated >>

-----------------------------------------------------------------------------
NoCall == [pc |-> "idle", leader |-> None, cached |-> None, doc |-> None, at |-> 0, outrun |-> FALSE]
NoDenial == [pc |-> "idle", listed |-> FALSE]

Init ==
  /\ now = 0
  /\ published = 1
  /\ replaced = [d \in 1..MaxDocuments |-> None]
  /\ client = None /\ inflight = None
  /\ call = [c \in Calls |-> NoCall]
  /\ denied = FALSE /\ denial = NoDenial /\ denials = 0
  /\ grant = [live |-> FALSE, outrun |-> FALSE]
  /\ outdated = 0

Goes(c, new) == call' = [call EXCEPT ![c] = [new EXCEPT !.at = now]]
Return(c) == call' = [call EXCEPT ![c] = NoCall]
Larger(m, n) == IF m > n THEN m ELSE n

(* The calls of C have the document. *)
Resolve(C, doc) ==
  /\ call' = [c \in Calls |-> IF c \in C THEN [NoCall EXCEPT !.pc = "resolved", !.doc = doc, !.at = now,
                                                            !.outrun = call[c].outrun]
                              ELSE call[c]]
  /\ outdated' = IF replaced[doc] = None THEN outdated ELSE Larger(outdated, now - replaced[doc])

-----------------------------------------------------------------------------
(* The document and its cache.                                             *)

Publish ==
  /\ published < MaxDocuments
  /\ published' = published + 1
  /\ replaced' = [replaced EXCEPT ![published] = now]
  /\ UNCHANGED << now, registry, call, denylist, grant, outdated >>

AllowedIfCached == ~denied \/ client # None

(* isDenylisted, before anything else. *)
Allowed == ~denied

Ask(c) ==
  /\ call[c].pc = "idle" /\ Allowed
  /\ Goes(c, [NoCall EXCEPT !.pc = "reads"])
  /\ UNCHANGED << now, web, registry, denylist, grant, outdated >>

NeverShares == FALSE

Shares == inflight # None

(* A cache miss: the resolution under way is shared, or one is begun. *)
Miss(c, cached) ==
  IF Shares
  THEN /\ Goes(c, [call[c] EXCEPT !.pc = "joins", !.leader = inflight])
       /\ UNCHANGED inflight
  ELSE /\ Goes(c, [call[c] EXCEPT !.pc = "fetches", !.cached = cached])
       /\ inflight' = c

Live(row) == row # None /\ row.expiresAt > now

ReadLive(c) ==
  /\ call[c].pc = "reads" /\ Live(client)
  /\ Goes(c, [call[c] EXCEPT !.pc = "touches", !.cached = client])
  /\ UNCHANGED << now, web, registry, denylist, grant, outdated >>

ReadMiss(c) ==
  /\ call[c].pc = "reads" /\ ~Live(client)
  /\ Miss(c, client)
  /\ UNCHANGED << now, web, client, denylist, grant, outdated >>

(* The update of lastSeenAt returns the row as it is by now. *)
Touch(c) ==
  /\ call[c].pc = "touches" /\ client # None
  /\ Resolve({c}, client.doc)
  /\ UNCHANGED << now, web, registry, denylist, grant >>

TouchVanished(c) ==
  /\ call[c].pc = "touches" /\ client = None
  /\ Miss(c, call[c].cached)
  /\ UNCHANGED << now, web, client, denylist, grant, outdated >>

-----------------------------------------------------------------------------
(* fetchAndStore                                                           *)

JoinersOf(c) == {d \in Calls : call[d].pc = "joins" /\ call[d].leader = c}

LeaderOnly(c) == {c}

(* finally: inflightResolutions.delete *)
Settled(c) == {c} \cup JoinersOf(c)

FetchReads(c) ==
  /\ call[c].pc = "fetches"
  /\ Goes(c, [call[c] EXCEPT !.pc = "arrives", !.doc = published])
  /\ UNCHANGED << now, web, registry, denylist, grant, outdated >>

FetchArrives(c) ==
  /\ call[c].pc = "arrives"
  /\ \E ttl \in 0..TTL : client' = [doc |-> call[c].doc, expiresAt |-> now + ttl]
  /\ Resolve(Settled(c), call[c].doc)
  /\ inflight' = None
  /\ UNCHANGED << now, web, denylist, grant >>

EverServed(cached) == cached # None

StaleServed(cached) == cached # None /\ now <= cached.expiresAt + Stale

(* The pool or the host's budget is used up. *)
FetchRefused(c) ==
  /\ call[c].pc = "fetches" /\ StaleServed(call[c].cached)
  /\ Resolve(Settled(c), call[c].cached.doc)
  /\ inflight' = None
  /\ UNCHANGED << now, web, client, denylist, grant >>

(* Refused with no row to serve, failed, or not a valid document. *)
FetchFails(c) ==
  /\ call[c].pc \in {"fetches", "arrives"}
  /\ call' = [d \in Calls |-> IF d \in Settled(c) THEN NoCall ELSE call[d]]
  /\ inflight' = None
  /\ UNCHANGED << now, web, client, denylist, grant, outdated >>

(* pruneExpiredRows *)
Prune ==
  /\ client # None /\ client.expiresAt < now
  /\ client' = None
  /\ UNCHANGED << now, web, inflight, call, denylist, grant, outdated >>

-----------------------------------------------------------------------------
(* What a request does with a resolved client: a consent is stored, or     *)
(* nothing that matters here.                                              *)

Approve(c) ==
  /\ call[c].pc = "resolved"
  /\ grant' = [live |-> TRUE, outrun |-> call[c].outrun]
  /\ Return(c)
  /\ UNCHANGED << now, web, registry, denylist, outdated >>

Leave(c) ==
  /\ call[c].pc = "resolved"
  /\ Return(c)
  /\ UNCHANGED << now, web, registry, denylist, grant, outdated >>

(* POST /grants/:id/revoke *)
Revoke ==
  /\ grant' = [live |-> FALSE, outrun |-> FALSE]
  /\ UNCHANGED << now, web, registry, call, denylist, outdated >>

-----------------------------------------------------------------------------
(* addDenial: the live grants are listed, those listed are revoked and the *)
(* row is committed with it.  What is past the check by then is outrun.    *)

DenyReads ==
  /\ denial.pc = "idle" /\ denials < MaxDenials
  /\ denial' = [pc |-> "read", listed |-> grant.live]
  /\ denials' = denials + 1
  /\ UNCHANGED << now, web, registry, call, denied, grant, outdated >>

DenyCommits ==
  /\ denial.pc = "read"
  /\ denied' = TRUE
  /\ grant' = [live |-> grant.live /\ ~denial.listed, outrun |-> grant.live /\ ~denial.listed]
  /\ call' = [c \in Calls |-> IF call[c].pc = "idle" THEN call[c] ELSE [call[c] EXCEPT !.outrun = TRUE]]
  /\ denial' = NoDenial
  /\ UNCHANGED << now, web, registry, denials, outdated >>

RemoveDenial ==
  /\ denied /\ denied' = FALSE
  /\ grant' = [grant EXCEPT !.outrun = FALSE]
  /\ call' = [c \in Calls |-> [call[c] EXCEPT !.outrun = FALSE]]
  /\ UNCHANGED << now, web, registry, denial, denials, outdated >>

Tick ==
  /\ now < MaxTime /\ now' = now + 1
  /\ \A c \in Calls : call[c].pc \notin {"idle", "joins"} => now < call[c].at + CallTime
  /\ UNCHANGED << web, registry, call, denylist, grant, outdated >>

-----------------------------------------------------------------------------
Steps(c) ==
  \/ ReadLive(c) \/ ReadMiss(c) \/ Touch(c) \/ TouchVanished(c)
  \/ FetchReads(c) \/ FetchArrives(c) \/ FetchRefused(c) \/ FetchFails(c)
  \/ Approve(c) \/ Leave(c)

Next ==
  \/ \E c \in Calls : Ask(c) \/ Steps(c)
  \/ Publish \/ Prune \/ Revoke \/ DenyReads \/ DenyCommits \/ RemoveDenial \/ Tick

(* A query ends, and a fetch within its timeout. *)
Spec == Init /\ [][Next]_vars /\ \A c \in Calls : WF_vars(Steps(c))

-----------------------------------------------------------------------------
(* The row is never overwritten by an older document than it holds, though *)
(* several requests find it expired at once (cimd.ts:326-331).             *)
RowNeverOlder ==
  [][client # None /\ client' # None => client'.doc >= client.doc]_vars

(* A document that the client has replaced is served for a lifetime and    *)
(* the stale window at most, but for the time that a fetch takes, also to  *)
(* those who share the fetch of another (cimd.ts:22-28, 355-364).          *)
OutdatedInTime == outdated <= TTL + Stale + CallTime

(* While a client is denied, whatever goes on for it was past the check,   *)
(* or stored since the grants were listed, when the denial was committed:  *)
(* no cached row and no shared fetch lets a later request in, and every    *)
(* grant that was listed is revoked (denylist.ts:120-148, cimd.ts:304).    *)
OnlyOutrunSurvives ==
  denied => /\ grant.live => grant.outrun
            /\ \A c \in Calls : call[c].pc # "idle" => call[c].outrun

(* Every request gets its answer, however the fetch it leads or shares     *)
(* ends, and if the row is deleted under it (cimd.ts:316-331).             *)
EveryCallReturns == \A c \in Calls : call[c].pc # "idle" ~> call[c].pc = "idle"
=============================================================================
