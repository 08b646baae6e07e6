--------------------------- MODULE ServerMetadata ---------------------------
(***************************************************************************)
(* The metadata document of one resource server (resource-servers/): the   *)
(* one in force, and the wider one that waits for the operator.  Refreshes *)
(* by the job and by operators, approvals, accepts and removals run at     *)
(* once; each handler is a worker, whose pc names what it awaits.          *)
(*                                                                         *)
(* A document is a function from the names of its scopes to what it says   *)
(* of each.  Display fields (resource_name) and the policies of the        *)
(* operator, which live in rows of their own, are left out.                *)
(*                                                                         *)
(* Init, Next and Spec carry the name of the module, because the theorems  *)
(* about it stand beside those about RegistrySync.                         *)
(***************************************************************************)
EXTENDS FiniteSets, Naturals

CONSTANTS
  Scopes, Texts,
  Published,   \* documents that the server may serve, as served
  Operators,   \* requests of operators, by the pages or the CLI
  Job,         \* the job of refresh-job.ts
  None,
  MaxEvents    \* bound: new documents, removals, switches, failures

Workers == Operators \cup {Job}

Flags == {"short_lived", "step_up", "fresh_sign_in"}
Scope == [description : Texts \cup Scopes, flags : SUBSET Flags]

Document == UNION {[names -> Scope] : names \in SUBSET Scopes}

ASSUME MetadataAssumption ==
  /\ Job \notin Operators /\ MaxEvents \in Nat
  /\ \A p \in Published : p.ours \in BOOLEAN /\ p.declared \in BOOLEAN
  /\ \A p \in Published : p.scopes \in Document /\ p.supported \subseteq Scopes
  /\ None \notin Document \cup Workers

VARIABLES
  served,      \* what the server publishes
  row,         \* its row: documents, enabled, expired, tried a minute ago or less
  lock,        \* the worker whose transaction holds the row, if any
  req,
  shown,       \* pending documents that an operator has been shown
  agreed,      \* history: documents that an operator approved or accepted
  events       \* bound only

metadataVars == << served, row, lock, req, shown, agreed, events >>

-----------------------------------------------------------------------------
(* Validation (metadata.ts).                                               *)

(* The three levels nest. *)
Implied(flags) ==
  flags \cup (IF "fresh_sign_in" \in flags THEN {"step_up"} ELSE {})
        \cup (IF flags \cap {"fresh_sign_in", "step_up"} # {} THEN {"short_lived"} ELSE {})

Parsed(p) ==
  IF p.declared
  THEN [s \in DOMAIN p.scopes |-> [p.scopes[s] EXCEPT !.flags = Implied(@)]]
  ELSE [s \in p.supported |-> [description |-> s, flags |-> {}]]

Valid(p) ==
  /\ p.ours                    \* resource and authorization_servers name server and issuer
  /\ DOMAIN Parsed(p) # {}
  /\ \A s \in p.supported : s \in DOMAIN Parsed(p) /\ "step_up" \notin Parsed(p)[s].flags

-----------------------------------------------------------------------------
(* Comparison (metadata-changes.ts).                                       *)

Widens(a, c) ==
  \E s \in DOMAIN c :
    s \in DOMAIN a => a[s].flags \ c[s].flags # {} \/ a[s].description # c[s].description

MergeWith(a, c, texts) ==
  [s \in DOMAIN a \cap DOMAIN c |->
    [description |-> texts[s].description, flags |-> a[s].flags \cup c[s].flags]]

MergeTexts(a, c) == MergeWith(a, c, c)
Merge(a, c) == MergeWith(a, c, a)

-----------------------------------------------------------------------------
NoRequest == [pc |-> "idle", op |-> "none", doc |-> None, seen |-> None, missed |-> FALSE]

MetadataInit ==
  /\ served \in Published
  /\ row = None /\ lock = None
  /\ req = [w \in Workers |-> NoRequest]
  /\ shown = {} /\ agreed = {} /\ events = 0

Event == events < MaxEvents /\ events' = events + 1
Free(w) == lock \in {None, w}

Begin(w, op, pc, doc) ==
  /\ req[w].pc = "idle"
  /\ req' = [req EXCEPT ![w] = [NoRequest EXCEPT !.op = op, !.pc = pc, !.doc = doc]]
  /\ UNCHANGED << served, row, lock, shown, agreed, events >>

(* The handler returns or throws; its transaction ends. *)
End(w) ==
  /\ req' = [req EXCEPT ![w] = NoRequest]
  /\ lock' = IF lock = w THEN None ELSE lock

-----------------------------------------------------------------------------
(* The fetch, before any transaction.                                      *)

(* approveResourceServer: the identifier is not approved yet. *)
BeginApprove(w) == w \in Operators /\ row = None /\ Begin(w, "approve", "fetch", None)

(* refreshMetadata, for an operator and for the job. *)
BeginRefresh(w) == w \in Operators /\ row # None /\ Begin(w, "refresh", "fetch", None)

DueUnlessPending == row # None /\ row.enabled /\ row.expired /\ ~row.tried /\ row.pending = None
Due == row # None /\ row.enabled /\ row.expired /\ ~row.tried

RefreshDue == Due /\ Begin(Job, "refresh", "fetch", None)

Fetched(w) ==
  /\ req[w].pc = "fetch" /\ Valid(served)
  /\ req' = [req EXCEPT ![w] = [@ EXCEPT !.doc = Parsed(served),
                                         !.pc = IF req[w].op = "approve" THEN "create"
                                                ELSE "lock"]]
  /\ UNCHANGED << served, row, lock, shown, agreed, events >>

(* No document, or one that is not valid: the old ones stay.  A refresh    *)
(* notes the attempt; its update waits for the row, or finds none. *)
NotFetched(w) ==
  /\ req[w].pc = "fetch"
  /\ IF req[w].op = "refresh" /\ row # None
     THEN lock = None /\ row' = [row EXCEPT !.tried = TRUE]
     ELSE UNCHANGED row
  /\ End(w)
  /\ UNCHANGED << served, shown, agreed >>

FetchRejected(w) == ~Valid(served) /\ NotFetched(w) /\ UNCHANGED events
FetchFails(w) == Event /\ NotFetched(w)

-----------------------------------------------------------------------------
(* The transactions.                                                       *)

Row(doc) ==
  [inForce |-> doc, pending |-> None, enabled |-> TRUE, expired |-> FALSE, tried |-> TRUE]

(* Of two approvals that raced past the check, one finds the row. *)
Create(w) ==
  /\ req[w].pc = "create" /\ lock = None
  /\ IF row = None
     THEN row' = Row(req[w].doc) /\ agreed' = agreed \cup {req[w].doc}
     ELSE UNCHANGED << row, agreed >>
  /\ End(w)
  /\ UNCHANGED << served, shown, events >>

(* The page or the CLI lists what waits; accepting names that document. *)
Show ==
  /\ row # None /\ row.pending # None /\ Widens(row.inForce, row.pending)
  /\ shown' = shown \cup {row.pending}
  /\ UNCHANGED << served, row, lock, req, agreed, events >>

BeginAccept(w) == w \in Operators /\ \E d \in shown : Begin(w, "accept", "lock", d)

(* lockServerRow: a row that is not there is not locked. *)
LockIf(w, present) ==
  /\ req[w].pc = "lock" /\ lock = None
  /\ lock' = IF present THEN w ELSE None
  /\ req' = [req EXCEPT ![w] = [@ EXCEPT !.pc = "read", !.missed = row = None]]
  /\ UNCHANGED << served, row, shown, agreed, events >>

LockNothing(w) == LockIf(w, FALSE)
Lock(w) == LockIf(w, row # None)

AsShown(w) == row.pending = req[w].doc
AnyPending(w) == row.pending # None

(* An accept goes on only with the document that was shown. *)
ReadIf(w, accepts) ==
  /\ req[w].pc = "read"
  /\ IF row # None /\ (req[w].op = "refresh" \/ accepts)
     THEN /\ req' = [req EXCEPT ![w] = [@ EXCEPT !.pc = "store",
                       !.seen = IF req[w].op = "accept" THEN row.pending ELSE row.inForce]]
          /\ UNCHANGED lock
     ELSE End(w)
  /\ UNCHANGED << served, row, shown, agreed, events >>

ReadUnchecked(w) == ReadIf(w, AnyPending(w))
Read(w) == ReadIf(w, AsShown(w))

(* What a refresh stores, by the document in force that it read. *)
Refreshed(inForce, doc) ==
  [row EXCEPT !.inForce = IF Widens(inForce, doc) THEN Merge(inForce, doc) ELSE doc,
              !.pending = IF Widens(inForce, doc) THEN doc ELSE None,
              !.expired = FALSE, !.tried = TRUE]

Accepted(pending) == [row EXCEPT !.inForce = pending, !.pending = None]

(* The update is by identifier: a row without a lock may be another one by *)
(* now, or none. *)
Store(w) ==
  /\ req[w].pc = "store" /\ Free(w)
  /\ row' = IF row = None THEN None
            ELSE IF req[w].op = "accept" THEN Accepted(req[w].seen)
            ELSE Refreshed(req[w].seen, req[w].doc)
  /\ agreed' = IF req[w].op = "accept" THEN agreed \cup {req[w].doc} ELSE agreed
  /\ End(w)
  /\ UNCHANGED << served, shown, events >>

-----------------------------------------------------------------------------
(* removeResourceServer (its revocations are RemoveResource in             *)
(* TokenEndpoint) and updateResourceServer: single statements. *)
Remove ==
  /\ row # None /\ lock = None /\ Event
  /\ row' = None
  /\ UNCHANGED << served, lock, req, shown, agreed >>

SetEnabled ==
  /\ row # None /\ lock = None /\ Event
  /\ row' = [row EXCEPT !.enabled = ~@]
  /\ UNCHANGED << served, lock, req, shown, agreed >>

(* The handler dies or the database refuses; the transaction rolls back. *)
Fails(w) ==
  /\ req[w].pc # "idle" /\ Event
  /\ End(w)
  /\ UNCHANGED << served, row, shown, agreed >>

Publish ==
  /\ Event /\ served' \in Published \ {served}
  /\ UNCHANGED << row, lock, req, shown, agreed >>

Expire ==
  /\ row # None /\ ~row.expired
  /\ row' = [row EXCEPT !.expired = TRUE]
  /\ UNCHANGED << served, lock, req, shown, agreed, events >>

MinutePasses ==
  /\ row # None /\ row.tried
  /\ row' = [row EXCEPT !.tried = FALSE]
  /\ UNCHANGED << served, lock, req, shown, agreed, events >>

-----------------------------------------------------------------------------
Step(w) == Fetched(w) \/ FetchRejected(w) \/ Create(w) \/ Read(w) \/ Store(w)

MetadataNext ==
  \/ \E w \in Workers : Step(w) \/ Lock(w) \/ FetchFails(w) \/ Fails(w)
  \/ \E w \in Operators : BeginApprove(w) \/ BeginRefresh(w) \/ BeginAccept(w)
  \/ RefreshDue \/ Show \/ Remove \/ SetEnabled \/ Publish \/ Expire \/ MinutePasses

MetadataSpec == MetadataInit /\ [][MetadataNext]_metadataVars

(* A handler goes on, PostgreSQL hands a locked row on in order, time      *)
(* passes and the job is called every minute. *)
FairMetadata ==
  /\ MetadataSpec
  /\ \A w \in Workers : WF_metadataVars(Step(w)) /\ SF_metadataVars(Lock(w))
  /\ WF_metadataVars(RefreshDue)
  /\ WF_metadataVars(Expire) /\ WF_metadataVars(MinutePasses)

-----------------------------------------------------------------------------
(* What waits always has something for the operator to accept: a pending   *)
(* document is wider than the one in force, also after merges and accepts  *)
(* in any order (service.ts:423-436, 471-478). *)
PendingWidens ==
  (row # None /\ row.pending # None) => Widens(row.inForce, row.pending)

(* No scope is in force wider than in a document that an operator approved *)
(* or was shown and accepted, whatever documents came and went, or came    *)
(* late, or were replaced under review (metadata-changes.ts:1-4). *)
InForceAgreed ==
  row # None =>
    \A s \in DOMAIN row.inForce : \E d \in agreed :
      /\ s \in DOMAIN d /\ d[s].flags \subseteq row.inForce[s].flags
      /\ d[s].description = row.inForce[s].description

(* What was withdrawn stays withdrawn until an operator accepts: no other  *)
(* step widens what is in force, except that of a refresh that came to     *)
(* lock the row while there was none (service.ts:416-436). *)
OnlyAcceptWidens ==
  [][(row # None /\ row' # None /\ Widens(row.inForce, row'.inForce)) =>
       \E w \in Workers : req[w].pc = "store" /\ (req[w].op = "accept" \/ req[w].missed)]_metadataVars

(* What the server withdraws, or flags, is in the end out of force, or     *)
(* flagged, while it is enabled and serves a valid document. *)
Withdrawn(p, d) ==
  \E s \in DOMAIN d : s \notin DOMAIN p \/ ~(p[s].flags \subseteq d[s].flags)

NarrowsInTheEnd ==
  <>[]((row # None /\ row.enabled /\ Valid(served)) => ~Withdrawn(Parsed(served), row.inForce))
=============================================================================
