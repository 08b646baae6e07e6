----------------------------- MODULE ConsentFlow -----------------------------
(***************************************************************************)
(* From an authorization request to the user's verdict: the requests that  *)
(* oauth/authorize.ts and oauth/device.ts create, the sign-in that names   *)
(* their subject (identity/oidc.ts, identity/local-accounts-router.ts),    *)
(* the consent page and its form (oauth/consent.ts).                       *)
(*                                                                         *)
(* One client and one resource server: the grant is then one per user.     *)
(* The flow-binding cookie is the browser field of the request, and the    *)
(* signed form token is the pair (request, subject) of a page the browser  *)
(* holds, which is what identity/csrf.ts computes it from.                 *)
(*                                                                         *)
(* A page load or a form post is a worker w; its pc names the await it is  *)
(* at.  The transaction of a post first deletes the request, which locks   *)
(* the row until it commits: other writers of the row wait and then find   *)
(* it gone, readers still see it.  The grant is read plainly and written   *)
(* back by the upsert, which is the last write before the commit.          *)
(***************************************************************************)
EXTENDS Naturals

CONSTANTS
  Users, Browsers, Workers, None,
  Flows,          \* handles of authorization requests
  Devices,        \* device codes
  Scopes, Claims,
  Requested,      \* the sets of scopes that are ever requested
  Policies,       \* what the registry and the users' groups may come to say
  MaxEvents       \* bound: sign-ins, expiries, revocations, policy changes, failures

(* released: claims the server may receive; short: scopes never kept on a   *)
(* grant; fresh: scopes that need a fresh sign-in (all of them short);      *)
(* forbidden[u]: scopes gated by a group u is not in.                       *)
Policy ==
  [registered : BOOLEAN, released : SUBSET Claims, short : SUBSET Scopes,
   fresh : SUBSET Scopes, forbidden : [Users -> SUBSET Scopes]]

ASSUME FlowAssumption ==
  /\ None \notin Users \cup Browsers \cup Flows \cup Devices
  /\ Flows \cap Devices = {}
  /\ Requested \subseteq SUBSET Scopes
  /\ Policies \subseteq {p \in Policy : p.fresh \subseteq p.short}
  /\ Policies # {}
  /\ MaxEvents \in Nat

VARIABLES
  requests,   \* authorization_requests
  devices,    \* device_codes, up to the verdict
  grants,     \* the grant of each user
  session,    \* session[b]: the user browser b is signed in as, or None
  pages,      \* pages[b]: the consent forms browser b has been shown
  policy,     \* what registry and groups say now
  req,        \* req[w]: where request w is, and what it carries
  events,     \* bound only: how many such events there were
  verdicts,   \* history: verdicts given to each request and device code
  approvals,  \* history: what the approval of each request was about
  pinned      \* history: what page loads have pinned on their requests

tables == << requests, devices, grants >>
history == << verdicts, approvals, pinned >>
vars == << requests, devices, grants, session, pages, policy, req, events,
           history >>

-----------------------------------------------------------------------------
(* Rows.  A request row is there while it is open or expired; the other     *)
(* states say how it went.                                                  *)

There == {"open", "expired"}

RequestRow ==
  [st : {"unborn", "open", "expired", "approved", "refused", "dropped"},
   device : Devices \cup {None}, scopes : SUBSET Scopes, fresh : BOOLEAN,
   subject : Users \cup {None}, shown : SUBSET Claims,
   browser : Browsers \cup {None}]

UnbornRequest ==
  [st |-> "unborn", device |-> None, scopes |-> {}, fresh |-> FALSE,
   subject |-> None, shown |-> {}, browser |-> None]

DeviceRow ==
  [st : {"unborn", "pending", "approved", "denied", "expired"},
   scopes : SUBSET Scopes, user : Users \cup {None}]

Grant == [st : {"none", "live", "revoked"}, scopes : SUBSET Scopes, claims : SUBSET Claims]

(* A form, or what a load pins for the form that it is to render. *)
Page == [flow : Flows, user : Users, listed : SUBSET Claims]

PCs == {"idle", "getCheck", "getPin", "getRender", "postCheck", "consume",
        "decideDevice", "readGrant", "commit"}

(* row: the request as loadFlow read it; approve: what the post asks for, or *)
(* FALSE for a refusal; released: the claims of the server as looked up;     *)
(* listed: the claims on the page submitted; base: the grant merged into.    *)
Call ==
  [pc : PCs, flow : Flows \cup {None}, row : RequestRow, approve : BOOLEAN,
   released : SUBSET Claims, listed : SUBSET Claims,
   baseScopes : SUBSET Scopes, baseClaims : SUBSET Claims]

Idle ==
  [pc |-> "idle", flow |-> None, row |-> UnbornRequest, approve |-> FALSE,
   released |-> {}, listed |-> {}, baseScopes |-> {}, baseClaims |-> {}]

NoApproval == [user |-> None, listed |-> {}, recorded |-> {}]

Init ==
  /\ requests = [f \in Flows |-> UnbornRequest]
  /\ devices = [d \in Devices |-> [st |-> "unborn", scopes |-> {}, user |-> None]]
  /\ grants = [u \in Users |-> [st |-> "none", scopes |-> {}, claims |-> {}]]
  /\ session = [b \in Browsers |-> None]
  /\ pages = [b \in Browsers |-> {}]
  /\ policy \in Policies
  /\ req = [w \in Workers |-> Idle]
  /\ events = 0
  /\ verdicts = [i \in Flows \cup Devices |-> 0]
  /\ approvals = [f \in Flows |-> NoApproval]
  /\ pinned = {}

-----------------------------------------------------------------------------
At(w, pc) == req[w].pc = pc
Flow(w) == req[w].flow
Row(w) == req[w].row
Goto(w, pc) == req' = [req EXCEPT ![w].pc = pc]
Return(w) == req' = [req EXCEPT ![w] = Idle]

Event == events < MaxEvents /\ events' = events + 1

(* The row of f, or of d, is locked by a transaction that has written it. *)
FlowLocked(f) ==
  \E w \in Workers : req[w].pc \in {"decideDevice", "readGrant", "commit"} /\ Flow(w) = f
DeviceLocked(d) ==
  \E w \in Workers : req[w].pc \in {"readGrant", "commit"} /\ Row(w).device = d

(* requestsFreshSignIn. *)
NeedsFresh(S) == S \cap policy.fresh # {}

(* findForbiddenScope and lacksRequiredFreshSignIn, on what holds now. *)
MustRefuse(row) ==
  \/ row.scopes \cap policy.forbidden[row.subject] # {}
  \/ ~row.fresh /\ NeedsFresh(row.scopes)

-----------------------------------------------------------------------------
(* Requests begin, and get a subject.                                      *)

Opened(b, d, S) ==
  [UnbornRequest EXCEPT !.st = "open", !.device = d, !.scopes = S,
     !.fresh = NeedsFresh(S), !.browser = b]

Authorize(f, b, S) ==
  /\ requests[f].st = "unborn" /\ policy.registered
  /\ requests' = [requests EXCEPT ![f] = Opened(b, None, S)]
  /\ UNCHANGED << devices, grants, session, pages, policy, req, events, history >>

IssueDeviceCode(d, S) ==
  /\ devices[d].st = "unborn" /\ policy.registered
  /\ devices' = [devices EXCEPT ![d] = [st |-> "pending", scopes |-> S, user |-> None]]
  /\ UNCHANGED << requests, grants, session, pages, policy, req, events, history >>

(* The user code is entered; nothing stops several requests on one code. *)
EnterUserCode(f, b, d) ==
  /\ requests[f].st = "unborn" /\ devices[d].st = "pending"
  /\ requests' = [requests EXCEPT ![f] = Opened(b, d, devices[d].scopes)]
  /\ UNCHANGED << devices, grants, session, pages, policy, req, events, history >>

(* A sign-in for the request, in the browser it is bound to: the last write *)
(* names the subject, the response starts the session. *)
SignIn(b, f, u) ==
  /\ Event
  /\ requests[f].st = "open" /\ requests[f].browser = b /\ ~FlowLocked(f)
  /\ requests' = [requests EXCEPT ![f].subject = u]
  /\ session' = [session EXCEPT ![b] = u]
  /\ UNCHANGED << devices, grants, pages, policy, req, history >>

(* A sign-in for the account pages, and the end of a session. *)
SetSession(b, u) ==
  /\ Event
  /\ session[b] # u
  /\ session' = [session EXCEPT ![b] = u]
  /\ UNCHANGED << tables, pages, policy, req, history >>

-----------------------------------------------------------------------------
(* The consent page.                                                       *)

(* loadFlow and requireFlowBrowser. *)
Usable(f, b) ==
  /\ requests[f].st = "open" /\ requests[f].subject # None
  /\ requests[f].browser = b /\ session[b] = requests[f].subject

Begin(w, pc, f, approve, listed) ==
  req' = [req EXCEPT ![w] = [Idle EXCEPT !.pc = pc, !.flow = f, !.row = requests[f],
                                         !.approve = approve, !.listed = listed]]

GetConsent(w, b, f) ==
  /\ At(w, "idle") /\ Usable(f, b)
  /\ Begin(w, "getCheck", f, FALSE, {})
  /\ UNCHANGED << tables, session, pages, policy, events, history >>

(* resolveClient, lookupResourceServer and the two refusals, on what holds  *)
(* now; next is where a request goes that passes them. *)
Check(w, next) ==
  /\ IF ~policy.registered THEN Return(w)
     ELSE IF MustRefuse(Row(w))
     THEN req' = [req EXCEPT ![w].pc = "consume", ![w].approve = FALSE]
     ELSE req' = [req EXCEPT ![w].pc = next, ![w].released = policy.released]
  /\ UNCHANGED << tables, session, pages, policy, events, history >>

GetCheck(w) == At(w, "getCheck") /\ Check(w, "getPin")

PageOf(w) == [flow |-> Flow(w), user |-> Row(w).subject, listed |-> req[w].released]

(* updateMany: the claims are pinned, unless the row is gone by now. *)
GetPin(w) ==
  /\ At(w, "getPin") /\ ~FlowLocked(Flow(w))
  /\ IF requests[Flow(w)].st \in There
     THEN /\ requests' = [requests EXCEPT ![Flow(w)].shown = req[w].released]
          /\ pinned' = pinned \cup {PageOf(w)}
     ELSE UNCHANGED << requests, pinned >>
  /\ Goto(w, "getRender")
  /\ UNCHANGED << devices, grants, session, pages, policy, events, verdicts, approvals >>

(* The page goes out.  A load that dies before leaves its claims pinned. *)
GetRender(w) ==
  /\ At(w, "getRender")
  /\ pages' = [pages EXCEPT ![Row(w).browser] = @ \cup {PageOf(w)}]
  /\ Return(w)
  /\ UNCHANGED << tables, session, policy, events, history >>

-----------------------------------------------------------------------------
(* The form.                                                               *)

SubmitUnbound(w, b, page, approve) ==
  /\ At(w, "idle") /\ page \in pages[b] /\ Usable(page.flow, b)
  /\ Begin(w, IF approve THEN "postCheck" ELSE "consume", page.flow, approve, page.listed)
  /\ UNCHANGED << tables, session, pages, policy, events, history >>

(* The token of the form is bound to the request and to its subject. *)
Submit(w, b, page, approve) ==
  /\ At(w, "idle") /\ page \in pages[b]
  /\ Usable(page.flow, b) /\ page.user = requests[page.flow].subject
  /\ Begin(w, IF approve THEN "postCheck" ELSE "consume", page.flow, approve, page.listed)
  /\ UNCHANGED << tables, session, pages, policy, events, history >>

PostCheck(w) == At(w, "postCheck") /\ Check(w, "consume")

Verdict(D) == verdicts' = [i \in Flows \cup Devices |-> verdicts[i] + (IF i \in D THEN 1 ELSE 0)]
Refused(f) == requests' = [requests EXCEPT ![f].st = "refused"]

(* consumeRequest and, for a plain request that is refused, the commit. *)
ConsumeIf(w, there) ==
  LET f == Flow(w)
      plain == Row(w).device = None IN
  /\ At(w, "consume") /\ ~FlowLocked(f)
  /\ \/ ~there /\ Return(w) /\ UNCHANGED << requests, verdicts >>
     \/ there /\ ~plain /\ Goto(w, "decideDevice") /\ UNCHANGED << requests, verdicts >>
     \/ /\ there /\ plain /\ req[w].approve
        /\ Goto(w, "readGrant") /\ UNCHANGED << requests, verdicts >>
     \/ /\ there /\ plain /\ ~req[w].approve
        /\ Refused(f) /\ Verdict({f}) /\ Return(w)
  /\ UNCHANGED << devices, grants, session, pages, policy, events, approvals, pinned >>

ConsumeAnyway(w) == ConsumeIf(w, TRUE)
Consume(w) == ConsumeIf(w, requests[Flow(w)].st \in There)

(* The pending code gets its verdict.  A code that is not pending any more  *)
(* leaves the request consumed and nothing else. *)
Decide(w, pending, approve) ==
  LET f == Flow(w)
      d == Row(w).device IN
  /\ At(w, "decideDevice") /\ ~DeviceLocked(d)
  /\ \/ /\ pending /\ approve
        /\ Goto(w, "readGrant") /\ UNCHANGED << requests, devices, verdicts >>
     \/ /\ pending /\ ~approve
        /\ devices' = [devices EXCEPT ![d].st = "denied"]
        /\ Refused(f) /\ Verdict({f, d}) /\ Return(w)
     \/ /\ ~pending
        /\ Refused(f) /\ Verdict({f}) /\ Return(w) /\ UNCHANGED devices
  /\ UNCHANGED << grants, session, pages, policy, events, approvals, pinned >>

DecideAlways(w) == Decide(w, TRUE, req[w].approve)
DecideDevice(w) ==
  At(w, "decideDevice") /\ Decide(w, devices[Row(w).device].st = "pending", req[w].approve)

(* upsertGrant reads the grant, *)
ReadGrant(w) ==
  LET g == grants[Row(w).subject]
      live == g.st = "live" IN
  /\ At(w, "readGrant")
  /\ req' = [req EXCEPT ![w].pc = "commit",
               ![w].baseScopes = IF live THEN g.scopes ELSE {},
               ![w].baseClaims = IF live THEN g.claims ELSE {}]
  /\ UNCHANGED << tables, session, pages, policy, events, history >>

(* isShortLivedScope: of a server that is not registered, no scope is. *)
ShortLived == IF policy.registered THEN policy.short ELSE {}

(* writes it back merged, and everything becomes visible. *)
Merged(w, claims) ==
  [st |-> "live", scopes |-> (req[w].baseScopes \cup Row(w).scopes) \ ShortLived,
   claims |-> req[w].baseClaims \cup claims]

CommitOf(w, claims) ==
  LET f == Flow(w)
      d == Row(w).device
      u == Row(w).subject IN
  /\ At(w, "commit")
  /\ grants' = [grants EXCEPT ![u] = Merged(w, claims)]
  /\ requests' = [requests EXCEPT ![f].st = "approved"]
  /\ devices' = IF d = None THEN devices
                ELSE [devices EXCEPT ![d] = [@ EXCEPT !.st = "approved", !.user = u]]
  /\ Verdict({f, d} \ {None})
  /\ approvals' = [approvals EXCEPT ![f] =
                     [user |-> u, listed |-> req[w].listed, recorded |-> claims]]
  /\ Return(w)
  /\ UNCHANGED << session, pages, policy, events, pinned >>

CommitReleased(w) == CommitOf(w, req[w].released)
Commit(w) == CommitOf(w, Row(w).shown \cap req[w].released)

-----------------------------------------------------------------------------
(* What happens around the requests.                                       *)

UserRevoke(u) ==
  /\ Event
  /\ grants[u].st = "live"
  /\ grants' = [grants EXCEPT ![u].st = "revoked"]
  /\ UNCHANGED << requests, devices, session, pages, policy, req, history >>

ExpireRequest(f) ==
  /\ Event
  /\ requests[f].st = "open"
  /\ requests' = [requests EXCEPT ![f].st = "expired"]
  /\ UNCHANGED << devices, grants, session, pages, policy, req, history >>

(* cleanup.ts. *)
DropExpired(f) ==
  /\ requests[f].st = "expired" /\ ~FlowLocked(f)
  /\ requests' = [requests EXCEPT ![f].st = "dropped"]
  /\ UNCHANGED << devices, grants, session, pages, policy, req, events, history >>

DeviceExpires(d) ==
  /\ Event
  /\ devices[d].st = "pending"
  /\ devices' = [devices EXCEPT ![d].st = "expired"]
  /\ UNCHANGED << requests, grants, session, pages, policy, req, history >>

(* A registry reload, metadata accepted, groups of a user changed. *)
SetPolicy(p) ==
  /\ Event
  /\ policy # p
  /\ policy' = p
  /\ UNCHANGED << tables, session, pages, req, history >>

(* A request dies at an await; the database rolls its transaction back. *)
Fail(w) ==
  /\ Event
  /\ ~At(w, "idle") /\ Return(w)
  /\ UNCHANGED << tables, session, pages, policy, history >>

-----------------------------------------------------------------------------
Handle(w) ==
  \/ GetCheck(w) \/ GetPin(w) \/ GetRender(w) \/ PostCheck(w) \/ Consume(w)
  \/ DecideDevice(w) \/ ReadGrant(w) \/ Commit(w)

(* With no request under way the system may rest; a request that could not  *)
(* go on would be a deadlock of the row locks. *)
Rest == (\A w \in Workers : At(w, "idle")) /\ UNCHANGED vars

Next ==
  \/ Rest
  \/ \E f \in Flows, b \in Browsers, S \in Requested : Authorize(f, b, S)
  \/ \E d \in Devices, S \in Requested : IssueDeviceCode(d, S)
  \/ \E f \in Flows, b \in Browsers, d \in Devices : EnterUserCode(f, b, d)
  \/ \E f \in Flows, b \in Browsers, u \in Users : SignIn(b, f, u)
  \/ \E b \in Browsers, u \in Users \cup {None} : SetSession(b, u)
  \/ \E w \in Workers, b \in Browsers, f \in Flows : GetConsent(w, b, f)
  \/ \E w \in Workers, b \in Browsers, approve \in BOOLEAN :
       \E page \in pages[b] : Submit(w, b, page, approve)
  \/ \E w \in Workers : Handle(w) \/ Fail(w)
  \/ \E u \in Users : UserRevoke(u)
  \/ \E f \in Flows : ExpireRequest(f) \/ DropExpired(f)
  \/ \E d \in Devices : DeviceExpires(d)
  \/ \E p \in Policies : SetPolicy(p)

Spec == Init /\ [][Next]_vars

-----------------------------------------------------------------------------
(* Every variable has its type, and only an approving post writes a grant. *)
TypeOK ==
  /\ requests \in [Flows -> RequestRow]
  /\ devices \in [Devices -> DeviceRow]
  /\ grants \in [Users -> Grant]
  /\ session \in [Browsers -> Users \cup {None}]
  /\ pages \in [Browsers -> SUBSET Page]
  /\ policy \in Policies
  /\ req \in [Workers -> Call]
  /\ \A w \in Workers : req[w].pc \in {"readGrant", "commit"} => req[w].approve
  /\ events \in 0 .. MaxEvents
  /\ verdicts \in [Flows \cup Devices -> Nat]
  /\ approvals \in [Flows -> [user : Users \cup {None}, listed : SUBSET Claims,
                              recorded : SUBSET Claims]]
  /\ pinned \in SUBSET Page

(* A request is approved only by a form that the approving user was shown,  *)
(* for that very request, in the browser that started it: whatever signs in *)
(* or out meanwhile (consent.ts requireFlowBrowser, csrf.ts boundToken). *)
ApprovalWasShown ==
  \A f \in Flows : requests[f].st = "approved" =>
    [flow |-> f, user |-> approvals[f].user, listed |-> approvals[f].listed]
       \in pages[requests[f].browser]

(* Every claim on a grant was pinned by a load of the consent page, signed  *)
(* in and past every check, of a request its user has approved: a claim the *)
(* server came to receive later, or that a lookup at the post would find,   *)
(* is not recorded (consent.ts:448-454).  That the page of that load was    *)
(* seen is not said: see ClaimsWereShown. *)
ClaimsWerePinned ==
  \A u \in Users : \A c \in grants[u].claims :
    \E f \in Flows : \E page \in pinned :
      /\ requests[f].st = "approved" /\ approvals[f].user = u
      /\ page.flow = f /\ c \in page.listed

(* A device code carries the verdict of the one request that decided it: it *)
(* is approved for u exactly if u approved a request for it, and no later   *)
(* request for the same code reverses that (consent.ts:145-151). *)
DeviceFollowsVerdict ==
  \A f \in Flows : LET d == requests[f].device IN
    (d # None /\ requests[f].st = "approved") =>
      devices[d].st = "approved" /\ devices[d].user = approvals[f].user

(* Each request and each device code gets at most one verdict, and a grant  *)
(* comes to life only with the approval of a request of its user. *)
Ledger == INSTANCE ApprovalLedger WITH
  Items <- Flows \cup Devices,
  live <- {u \in Users : grants[u].st = "live"}

LedgerSpec == Ledger!Spec

(* consent.ts:354 pins what a page lists "so approving records exactly that": *)
(* no claim is recorded that the form approved did not list. *)
ApprovedPageListed == \A f \in Flows : approvals[f].recorded \subseteq approvals[f].listed

(* consent.ts:449: "Approving consents to the claims the page listed when it *)
(* was shown": every claim on a grant was listed on some page that was shown *)
(* for a request its user has approved. *)
ClaimsWereShown ==
  \A u \in Users : \A c \in grants[u].claims :
    \E f \in Flows, b \in Browsers : \E page \in pages[b] :
      /\ requests[f].st = "approved" /\ approvals[f].user = u
      /\ page.flow = f /\ c \in page.listed

(* consent.ts:435-438: an approval "must not silently drop previously        *)
(* granted permissions". *)
ApprovalKeepsScopes ==
  [][\A u \in Users :
       (grants[u].st = "live" /\ grants'[u].st = "live") =>
         grants[u].scopes \ ShortLived \subseteq grants'[u].scopes]_vars
=============================================================================
