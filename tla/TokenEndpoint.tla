---------------------------- MODULE TokenEndpoint ----------------------------
(***************************************************************************)
(* The credentials of the authorization server and every operation that    *)
(* redeems or revokes them: POST /oauth/token with its three grant types   *)
(* (oauth/token.ts), POST /grants/:id/revoke and POST /oauth/revoke        *)
(* (oauth/grants.ts), deactivating a local user (cli/local-user.ts),       *)
(* removing a resource server (resource-servers/service.ts) and the        *)
(* deletion of expired rows (cleanup.ts).                                  *)
(*                                                                         *)
(* A request is a worker w.  Each await of its handler is a step of w: the *)
(* pc names the await the request is at, and what the handler carries over *)
(* it (the entry it read, the scopes it computed, the rows its UPDATE is   *)
(* going to touch) is in req[w].  An early return that changes nothing is  *)
(* not a step when the request is at its first await (it never leaves      *)
(* Idle), and is a return to Idle later on.                                *)
(*                                                                         *)
(* The database is PostgreSQL at READ COMMITTED, the default that no call  *)
(* in the code changes:                                                    *)
(*  - a conditional UPDATE of one row (the atomic claims) waits for the    *)
(*    transaction that holds the row, then re-evaluates its condition.     *)
(*    The row stays locked until its transaction ends: the claim and the   *)
(*    commit are two steps, and other transactions may read in between;    *)
(*  - an UPDATE of many rows (the revocations) selects them from the       *)
(*    snapshot its statement began with, waits for those that are locked,  *)
(*    and re-evaluates its condition on those only.  A row that another    *)
(*    transaction inserts in the meantime is not among them.               *)
(***************************************************************************)
EXTENDS Naturals, FiniteSets

CONSTANTS
  Users, Clients, Resources,
  Scopes,           \* scope names, offline_access included
  OfflineAccess,    \* the scope that asks for a refresh token
  PolicyScopes,     \* the scopes whose policy, or group, may change
  Codes, Devices, Tokens,   \* the secrets that can ever be drawn, by hash
  Workers,          \* requests in flight at once
  None,
  CodeLifetime,     \* AUTH_CODE_TTL_MS
  DeviceLifetime,   \* lifetime of a device code
  RefreshLifetime,  \* REFRESH_TOKEN_TTL_MS
  MaxTime,          \* bound: how far the clock runs
  MaxFailures       \* bound: requests that die half way

Credentials == Codes \cup Devices \cup Tokens

(* The unique key of the grants table: one row per user, client, resource. *)
GrantKeys == Users \X Clients \X Resources
UserOf(g) == g[1]
ResourceOf(g) == g[3]

ASSUME ConstantsAssumption ==
  /\ OfflineAccess \in Scopes
  /\ PolicyScopes \subseteq Scopes \ {OfflineAccess}
  /\ Codes \cap Devices = {} /\ Codes \cap Tokens = {} /\ Devices \cap Tokens = {}
  /\ None \notin Credentials
  /\ None \notin GrantKeys
  /\ CodeLifetime \in Nat /\ DeviceLifetime \in Nat /\ RefreshLifetime \in Nat
  /\ MaxTime \in Nat /\ MaxFailures \in Nat

VARIABLES
  codes,        \* auth_codes
  devices,      \* device_codes, from approval on
  tokens,       \* refresh_tokens
  grants,       \* grants: none, live or revoked (revokedAt set)
  active,       \* users the isUserActive predicate accepts
  registered,   \* resources in the in-memory registry
  unrefreshable,\* scopes the registry marks shortLived or no longer declares
  lost,         \* lost[u]: scopes gated by a group u is not in
  now,          \* the clock
  req,          \* req[w]: where request w is, and what it carries
  failures,     \* how many requests died half way
  answers       \* history: token responses given for each credential

tables == << codes, devices, tokens, grants >>
policy == << registered, unrefreshable, lost >>
vars == << codes, devices, tokens, grants, active, registered, unrefreshable,
           lost, now, req, failures, answers >>

-----------------------------------------------------------------------------
(* Rows.  "unborn": not drawn yet; "deleted": was a row once.              *)

CodeRow ==
  [st : {"unborn", "open", "consumed", "deleted"}, grant : GrantKeys \cup {None},
   scopes : SUBSET Scopes, expires : Nat]

DeviceRow ==
  [st : {"unborn", "approved", "consumed", "deleted"},
   grant : GrantKeys \cup {None}, scopes : SUBSET Scopes, expires : Nat]

(* origin is history: the code or device code the token descends from. *)
TokenRow ==
  [st : {"unborn", "row", "deleted"}, grant : GrantKeys \cup {None},
   scopes : SUBSET Scopes, expires : Nat, rotatedTo : Tokens \cup {None},
   revoked : BOOLEAN, origin : Codes \cup Devices \cup {None}]

Unborn == [st |-> "unborn", grant |-> None, scopes |-> {}, expires |-> 0]
UnbornToken ==
  [st |-> "unborn", grant |-> None, scopes |-> {}, expires |-> 0,
   rotatedTo |-> None, revoked |-> FALSE, origin |-> None]

PCs ==
  {"idle",
   "codeBurn", "codeGrant", "codeUser", "codeMint", "codeClaim", "codeCommit",
   "refreshGrant", "refreshUser", "refreshUpstream", "refreshScopes",
   "refreshClaim", "refreshCommit",
   "deviceUser", "deviceMint", "deviceClaim", "deviceGrant", "deviceCommit",
   "revokeChain", "revoking"}

(* cred: the credential presented; scopes: those of the new refresh token;  *)
(* rows, grantRows: what an open revocation is going to update; users,      *)
(* resources: what else its transaction takes out.                          *)
Request ==
  [pc : PCs, cred : Credentials \cup {None}, scopes : SUBSET Scopes,
   rows : SUBSET Tokens, grantRows : SUBSET GrantKeys,
   users : SUBSET Users, resources : SUBSET Resources]

Idle ==
  [pc |-> "idle", cred |-> None, scopes |-> {}, rows |-> {}, grantRows |-> {},
   users |-> {}, resources |-> {}]

Init ==
  /\ codes = [c \in Codes |-> Unborn]
  /\ devices = [d \in Devices |-> Unborn]
  /\ tokens = [t \in Tokens |-> UnbornToken]
  /\ grants = [g \in GrantKeys |-> "none"]
  /\ active = Users
  /\ registered = Resources
  /\ unrefreshable = {}
  /\ lost = [u \in Users |-> {}]
  /\ now = 0
  /\ req = [w \in Workers |-> Idle]
  /\ failures = 0
  /\ answers = [c \in Credentials |-> 0]

-----------------------------------------------------------------------------
(* Helpers.                                                                *)

At(w, pc) == req[w].pc = pc
Cred(w) == req[w].cred
Goto(w, pc) == req' = [req EXCEPT ![w].pc = pc]
Return(w) == req' = [req EXCEPT ![w] = Idle]
Begin(w, pc, c) == At(w, "idle") /\ req' = [req EXCEPT ![w] = [Idle EXCEPT !.pc = pc, !.cred = c]]

(* A step that only decides whether the handler goes on or returns. *)
Check(w, ok, pc) ==
  /\ IF ok THEN Goto(w, pc) ELSE Return(w)
  /\ UNCHANGED << tables, active, policy, now, failures, answers >>

CommitPCs == {"codeCommit", "refreshCommit", "deviceGrant", "deviceCommit"}

(* The row of credential c is locked by a transaction that has claimed it. *)
Locked(c) == \E w \in Workers : req[w].pc \in CommitPCs /\ Cred(w) = c

(* The row of grant g is locked by a revocation that has not committed. *)
GrantLocked(g) == \E w \in Workers : At(w, "revoking") /\ g \in req[w].grantRows

Expired(row) == row.expires < now

UnrevokedRow(t) == tokens[t].st = "row" /\ ~tokens[t].revoked
Claimable(t) == UnrevokedRow(t) /\ tokens[t].rotatedTo = None

(* The grant whose chain is revoked for credential c. *)
GrantOf(c) == IF c \in Codes THEN codes[c].grant ELSE tokens[c].grant

(* refreshableScopes: an unregistered server leaves the scopes as they are. *)
Refreshable(g, S) == IF ResourceOf(g) \in registered THEN S \ unrefreshable ELSE S

(* Variant: the catalogue of the server, not the scopes of the token. *)
PermittedFromCatalogue(g, S) == Scopes \ lost[UserOf(g)]

(* permittedScopes, on the groups the user has now. *)
Permitted(g, S) == IF ResourceOf(g) \in registered THEN S \ lost[UserOf(g)] ELSE S

Answered(c) == answers' = [answers EXCEPT ![c] = @ + 1]

(* issueRefreshToken: a new chain, with a lifetime of its own. *)
Issued(c, row) ==
  [st |-> "row", grant |-> row.grant, scopes |-> Refreshable(row.grant, row.scopes),
   expires |-> now + RefreshLifetime, rotatedTo |-> None, revoked |-> FALSE,
   origin |-> c]

-----------------------------------------------------------------------------
(* Consent.  The transaction that consumes an authorization request, seen   *)
(* from the tables of this module (ConsentFlow has its steps): the grant is *)
(* created, or its revokedAt is cleared, and a code appears.                *)

(* Account, registration and groups are looked at before further awaits, so *)
(* each of them may have changed by the commit.                             *)
Consentable(g, S) == S # {} /\ ~GrantLocked(g)

Approve(c, g, S) ==
  /\ codes[c].st = "unborn"
  /\ Consentable(g, S)
  /\ grants' = [grants EXCEPT ![g] = "live"]
  /\ codes' = [codes EXCEPT ![c] =
       [st |-> "open", grant |-> g, scopes |-> S, expires |-> now + CodeLifetime]]
  /\ UNCHANGED << devices, tokens, active, policy, now, req, failures, answers >>

ApproveDevice(d, g, S) ==
  /\ devices[d].st = "unborn"
  /\ Consentable(g, S)
  /\ grants' = [grants EXCEPT ![g] = "live"]
  /\ devices' = [devices EXCEPT ![d] =
       [st |-> "approved", grant |-> g, scopes |-> S, expires |-> now + DeviceLifetime]]
  /\ UNCHANGED << codes, tokens, active, policy, now, req, failures, answers >>

-----------------------------------------------------------------------------
(* grant_type=authorization_code.  The entry is read once; whether it was   *)
(* consumed is decided on that read.                                        *)

(* The presenter proves possession: client, redirect_uri, verifier and      *)
(* client authentication check out. *)
CodePresented(w, c) ==
  /\ codes[c].st = "open" /\ ~Expired(codes[c])
  /\ Begin(w, "codeGrant", c)
  /\ UNCHANGED << tables, active, policy, now, failures, answers >>

CodeReplayed(w, c) ==
  /\ codes[c].st = "consumed" /\ ~Expired(codes[c])
  /\ Begin(w, "revokeChain", c)
  /\ UNCHANGED << tables, active, policy, now, failures, answers >>

(* client_id or redirect_uri mismatch on a code read as not consumed. *)
CodeMismatched(w, c) ==
  /\ codes[c].st = "open" /\ ~Expired(codes[c])
  /\ Begin(w, "codeBurn", c)
  /\ UNCHANGED << tables, active, policy, now, failures, answers >>

(* The delete is by hash alone: it takes the row as it is by now. *)
CodeBurn(w) ==
  /\ At(w, "codeBurn") /\ ~Locked(Cred(w))
  /\ codes' = [codes EXCEPT ![Cred(w)].st = "deleted"]
  /\ Return(w)
  /\ UNCHANGED << devices, tokens, grants, active, policy, now, failures, answers >>

CodeCheckGrant(w) ==
  /\ At(w, "codeGrant")
  /\ Check(w, grants[codes[Cred(w)].grant] = "live", "codeUser")

CodeCheckUser(w) ==
  /\ At(w, "codeUser")
  /\ Check(w, UserOf(codes[Cred(w)].grant) \in active, "codeMint")

CodeMint(w) ==
  /\ At(w, "codeMint")
  /\ Check(w, ResourceOf(codes[Cred(w)].grant) \in registered, "codeClaim")

(* Variant: the claim trusts the read at the top of the handler. *)
CodeClaimUnconditional(w) ==
  /\ At(w, "codeClaim") /\ ~Locked(Cred(w))
  /\ Goto(w, "codeCommit")
  /\ UNCHANGED << tables, active, policy, now, failures, answers >>

(* updateMany where consumedAt is null: a count of 0 is taken for a replay. *)
CodeClaim(w) ==
  /\ At(w, "codeClaim") /\ ~Locked(Cred(w))
  /\ Goto(w, IF codes[Cred(w)].st = "open" THEN "codeCommit" ELSE "revokeChain")
  /\ UNCHANGED << tables, active, policy, now, failures, answers >>

CodeCommit(w) ==
  LET c == Cred(w) IN
  /\ At(w, "codeCommit")
  /\ codes' = [codes EXCEPT ![c].st = "consumed"]
  /\ \/ /\ OfflineAccess \in codes[c].scopes
        /\ \E t \in Tokens :
             /\ tokens[t].st = "unborn"
             /\ tokens' = [tokens EXCEPT ![t] = Issued(c, codes[c])]
     \/ /\ OfflineAccess \notin codes[c].scopes
        /\ UNCHANGED tokens
  /\ Answered(c)
  /\ Return(w)
  /\ UNCHANGED << devices, grants, active, policy, now, failures >>

-----------------------------------------------------------------------------
(* grant_type=refresh_token.                                               *)

RefreshPresented(w, t) ==
  /\ Claimable(t)
  /\ Begin(w, "refreshGrant", t)
  /\ UNCHANGED << tables, active, policy, now, failures, answers >>

(* A rotated token is a reuse, revoked or not, expired or not. *)
RefreshReused(w, t) ==
  /\ tokens[t].st = "row" /\ tokens[t].rotatedTo # None
  /\ Begin(w, "revokeChain", t)
  /\ UNCHANGED << tables, active, policy, now, failures, answers >>

(* Expiry and the registry are checked before the await that reads the grant. *)
RefreshCheckGrant(w) ==
  LET row == tokens[Cred(w)] IN
  /\ At(w, "refreshGrant")
  /\ Check(w, /\ ~Expired(row)
              /\ ResourceOf(row.grant) \in registered
              /\ grants[row.grant] = "live",
           "refreshUser")

RefreshCheckUser(w) ==
  /\ At(w, "refreshUser")
  /\ Check(w, UserOf(tokens[Cred(w)].grant) \in active, "refreshUpstream")

(* recheckUpstream: up to ten seconds at the identity provider, either verdict. *)
RefreshUpstream(w) ==
  /\ At(w, "refreshUpstream")
  /\ \/ Check(w, TRUE, "refreshScopes")
     \/ Check(w, FALSE, "refreshScopes")

(* refreshableScopes and permittedScopes, then mintOrRefuse. *)
RefreshScopes(w) ==
  LET row == tokens[Cred(w)] IN
  /\ At(w, "refreshScopes")
  /\ \/ /\ ResourceOf(row.grant) \in registered
        /\ req' = [req EXCEPT ![w].pc = "refreshClaim",
             ![w].scopes = Permitted(row.grant, Refreshable(row.grant, row.scopes))]
     \/ /\ ResourceOf(row.grant) \notin registered
        /\ Return(w)
  /\ UNCHANGED << tables, active, policy, now, failures, answers >>

(* Variant: a row claimed by another transaction is claimed again. *)
RefreshClaimUnlocked(w) ==
  /\ At(w, "refreshClaim")
  /\ Goto(w, IF Claimable(Cred(w)) THEN "refreshCommit" ELSE "revokeChain")
  /\ UNCHANGED << tables, active, policy, now, failures, answers >>

(* Variant: the claim does not ask for revokedAt to be null. *)
RefreshClaimRevoked(w) ==
  /\ At(w, "refreshClaim") /\ ~Locked(Cred(w))
  /\ Goto(w, IF tokens[Cred(w)].st = "row" /\ tokens[Cred(w)].rotatedTo = None
             THEN "refreshCommit" ELSE "revokeChain")
  /\ UNCHANGED << tables, active, policy, now, failures, answers >>

(* Variant: a lost claim is tried again. *)
RefreshClaimRetries(w) ==
  /\ At(w, "refreshClaim") /\ ~Locked(Cred(w))
  /\ Goto(w, IF Claimable(Cred(w)) THEN "refreshCommit" ELSE "refreshClaim")
  /\ UNCHANGED << tables, active, policy, now, failures, answers >>

(* updateMany where rotatedTo and revokedAt are null; 0 is taken for a reuse. *)
RefreshClaim(w) ==
  /\ At(w, "refreshClaim") /\ ~Locked(Cred(w))
  /\ Goto(w, IF Claimable(Cred(w)) THEN "refreshCommit" ELSE "revokeChain")
  /\ UNCHANGED << tables, active, policy, now, failures, answers >>

(* Variant: every rotation starts the lifetime over. *)
SuccessorRenewed(w, row) ==
  [st |-> "row", grant |-> row.grant, scopes |-> req[w].scopes,
   expires |-> now + RefreshLifetime, rotatedTo |-> None, revoked |-> FALSE,
   origin |-> row.origin]

(* The successor keeps the grant and the expiry of the token it replaces. *)
Successor(w, row) ==
  [st |-> "row", grant |-> row.grant, scopes |-> req[w].scopes,
   expires |-> row.expires, rotatedTo |-> None, revoked |-> FALSE,
   origin |-> row.origin]

RefreshCommit(w) ==
  LET t == Cred(w) IN
  /\ At(w, "refreshCommit")
  /\ \E s \in Tokens :
       /\ tokens[s].st = "unborn"
       /\ tokens' = [tokens EXCEPT ![t].rotatedTo = s, ![s] = Successor(w, tokens[t])]
  /\ Answered(t)
  /\ Return(w)
  /\ UNCHANGED << codes, devices, grants, active, policy, now, failures >>

-----------------------------------------------------------------------------
(* The device_code grant, from approval on: polling a pending code and      *)
(* refusing a denied one yield no credential.                               *)

DevicePresented(w, d) ==
  /\ devices[d].st = "approved" /\ ~Expired(devices[d])
  /\ Begin(w, "deviceUser", d)
  /\ UNCHANGED << tables, active, policy, now, failures, answers >>

DeviceCheckUser(w) ==
  /\ At(w, "deviceUser")
  /\ Check(w, UserOf(devices[Cred(w)].grant) \in active, "deviceMint")

DeviceMint(w) ==
  /\ At(w, "deviceMint")
  /\ Check(w, ResourceOf(devices[Cred(w)].grant) \in registered, "deviceClaim")

(* Variant: the device code is claimed whatever became of it. *)
DeviceClaimUnconditional(w) ==
  /\ At(w, "deviceClaim") /\ ~Locked(Cred(w))
  /\ Goto(w, "deviceGrant")
  /\ UNCHANGED << tables, active, policy, now, failures, answers >>

(* A lost claim is only refused here: it revokes nothing. *)
DeviceClaim(w) ==
  /\ At(w, "deviceClaim") /\ ~Locked(Cred(w))
  /\ Check(w, devices[Cred(w)].st = "approved", "deviceGrant")

(* The grant is read again inside the transaction; without it the claim    *)
(* still commits, so a dead code is not polled forever.                     *)
DeviceCheckGrant(w) ==
  LET d == Cred(w) IN
  /\ At(w, "deviceGrant")
  /\ \/ /\ grants[devices[d].grant] = "live"
        /\ Goto(w, "deviceCommit")
        /\ UNCHANGED devices
     \/ /\ grants[devices[d].grant] # "live"
        /\ devices' = [devices EXCEPT ![d].st = "consumed"]
        /\ Return(w)
  /\ UNCHANGED << codes, tokens, grants, active, policy, now, failures, answers >>

DeviceCommit(w) ==
  LET d == Cred(w) IN
  /\ At(w, "deviceCommit")
  /\ devices' = [devices EXCEPT ![d].st = "consumed"]
  /\ \/ /\ OfflineAccess \in devices[d].scopes
        /\ \E t \in Tokens :
             /\ tokens[t].st = "unborn"
             /\ tokens' = [tokens EXCEPT ![t] = Issued(d, devices[d])]
     \/ /\ OfflineAccess \notin devices[d].scopes
        /\ UNCHANGED tokens
  /\ Answered(d)
  /\ Return(w)
  /\ UNCHANGED << codes, grants, active, policy, now, failures >>

-----------------------------------------------------------------------------
(* Revocations.  The statement takes its snapshot, waits for the rows that  *)
(* are locked, and sets revokedAt on the rows of the snapshot.              *)

Revoking(w, rows, grantRows, users, resources) ==
  req' = [req EXCEPT ![w] =
    [Idle EXCEPT !.pc = "revoking", !.cred = req[w].cred, !.rows = rows,
                 !.grantRows = grantRows, !.users = users, !.resources = resources]]

RowsOf(G) == {t \in Tokens : UnrevokedRow(t) /\ tokens[t].grant \in G}
LiveGrants(G) == {g \in G : grants[g] = "live"}

(* Variant: only the token presented is revoked. *)
RevokeChainOne(w) ==
  /\ At(w, "revokeChain")
  /\ Revoking(w, {Cred(w)} \cap Tokens, {}, {}, {})
  /\ UNCHANGED << tables, active, policy, now, failures, answers >>

(* revokeDescendantRefreshTokens, and the UPDATE of POST /oauth/revoke. *)
RevokeChain(w) ==
  /\ At(w, "revokeChain")
  /\ Revoking(w, RowsOf({GrantOf(Cred(w))}), {}, {}, {})
  /\ UNCHANGED << tables, active, policy, now, failures, answers >>

(* POST /oauth/revoke with a token of the client: any row of it will do. *)
ClientRevoke(w, t) ==
  /\ tokens[t].st = "row"
  /\ Begin(w, "revokeChain", t)
  /\ UNCHANGED << tables, active, policy, now, failures, answers >>

(* POST /grants/:id/revoke by the user the grant belongs to. *)
UserRevoke(w, g) ==
  /\ At(w, "idle")
  /\ grants[g] # "none" /\ UserOf(g) \in active /\ ~GrantLocked(g)
  /\ Revoking(w, RowsOf({g}), {g}, {}, {})
  /\ UNCHANGED << tables, active, policy, now, failures, answers >>

(* asterism-cli local-user deactivate. *)
Deactivate(w, u) ==
  LET G == {g \in GrantKeys : UserOf(g) = u} IN
  /\ At(w, "idle")
  /\ \A g \in LiveGrants(G) : ~GrantLocked(g)
  /\ Revoking(w, RowsOf(G), LiveGrants(G), {u}, {})
  /\ UNCHANGED << tables, active, policy, now, failures, answers >>

(* removeResourceServer: the registry reload that follows is part of it. *)
RemoveResource(w, r) ==
  LET G == {g \in GrantKeys : ResourceOf(g) = r} IN
  /\ At(w, "idle") /\ r \in registered
  /\ \A g \in LiveGrants(G) : ~GrantLocked(g)
  /\ Revoking(w, RowsOf(G), LiveGrants(G), {}, {r})
  /\ UNCHANGED << tables, active, policy, now, failures, answers >>

RevokedRow(S, t) == [tokens[t] EXCEPT !.revoked = @ \/ (t \in S /\ tokens[t].st = "row")]

(* Variant: the update does not wait for rows under another transaction. *)
FinishRevokeAtOnce(w) ==
  /\ At(w, "revoking")
  /\ tokens' = [t \in Tokens |-> RevokedRow(req[w].rows, t)]
  /\ grants' = [g \in GrantKeys |-> IF g \in req[w].grantRows THEN "revoked" ELSE grants[g]]
  /\ active' = active \ req[w].users
  /\ registered' = registered \ req[w].resources
  /\ Return(w)
  /\ UNCHANGED << codes, devices, unrefreshable, lost, now, failures, answers >>

FinishRevoke(w) ==
  /\ At(w, "revoking")
  /\ \A t \in req[w].rows : ~Locked(t)
  /\ tokens' = [t \in Tokens |-> RevokedRow(req[w].rows, t)]
  /\ grants' = [g \in GrantKeys |-> IF g \in req[w].grantRows THEN "revoked" ELSE grants[g]]
  /\ active' = active \ req[w].users
  /\ registered' = registered \ req[w].resources
  /\ Return(w)
  /\ UNCHANGED << codes, devices, unrefreshable, lost, now, failures, answers >>

-----------------------------------------------------------------------------
(* The rest of the world.                                                  *)

(* refreshToken.create fails, and the claim rolls back with it.  The pool   *)
(* Tokens is a bound: a draw fails when, and only when, it is used up.      *)
CreateFails(w) ==
  /\ req[w].pc \in {"codeCommit", "refreshCommit", "deviceCommit"}
  /\ \A t \in Tokens : tokens[t].st # "unborn"
  /\ Return(w)
  /\ UNCHANGED << tables, active, policy, now, failures, answers >>

(* The process dies, the connection drops, or the database refuses: an open *)
(* transaction rolls back, and what the handler had still to do is not done. *)
Fail(w) ==
  /\ ~At(w, "idle") /\ failures < MaxFailures
  /\ failures' = failures + 1
  /\ Return(w)
  /\ UNCHANGED << tables, active, policy, now, answers >>

(* Expired rows go, by pruneExpiredRows or when a handler finds one.        *)
DeleteExpiredCode(c) ==
  /\ codes[c].st \in {"open", "consumed"} /\ Expired(codes[c]) /\ ~Locked(c)
  /\ codes' = [codes EXCEPT ![c].st = "deleted"]
  /\ UNCHANGED << devices, tokens, grants, active, policy, now, req, failures, answers >>

DeleteExpiredDevice(d) ==
  /\ devices[d].st \in {"approved", "consumed"} /\ Expired(devices[d]) /\ ~Locked(d)
  /\ devices' = [devices EXCEPT ![d].st = "deleted"]
  /\ UNCHANGED << codes, tokens, grants, active, policy, now, req, failures, answers >>

DeleteExpiredToken(t) ==
  /\ tokens[t].st = "row" /\ Expired(tokens[t]) /\ ~Locked(t)
  /\ tokens' = [tokens EXCEPT ![t].st = "deleted"]
  /\ UNCHANGED << codes, devices, grants, active, policy, now, req, failures, answers >>

(* A resource server is disabled, or registered (again). *)
SetRegistered(r) ==
  /\ \/ registered' = registered \cup {r}
     \/ registered' = registered \ {r}
  /\ UNCHANGED << tables, active, unrefreshable, lost, now, req, failures, answers >>

(* A server's scopes change, by the operator's policy or its own metadata. *)
SetScopePolicy(S) ==
  /\ unrefreshable' = S
  /\ UNCHANGED << tables, active, registered, lost, now, req, failures, answers >>

(* A sign-in or an upstream re-check brings other groups for the user. *)
SetGroups(u, S) ==
  /\ lost' = [lost EXCEPT ![u] = S]
  /\ UNCHANGED << tables, active, registered, unrefreshable, now, req, failures, answers >>

Tick ==
  /\ now < MaxTime
  /\ now' = now + 1
  /\ UNCHANGED << tables, active, policy, req, failures, answers >>

-----------------------------------------------------------------------------
CodeStep(w) ==
  \/ CodeBurn(w) \/ CodeCheckGrant(w) \/ CodeCheckUser(w) \/ CodeMint(w)
  \/ CodeClaim(w) \/ CodeCommit(w)

RefreshStep(w) ==
  \/ RefreshCheckGrant(w) \/ RefreshCheckUser(w) \/ RefreshUpstream(w)
  \/ RefreshScopes(w) \/ RefreshClaim(w) \/ RefreshCommit(w)

DeviceStep(w) ==
  \/ DeviceCheckUser(w) \/ DeviceMint(w) \/ DeviceClaim(w)
  \/ DeviceCheckGrant(w) \/ DeviceCommit(w)

(* What a request in flight does on its own. *)
Handle(w) ==
  \/ CodeStep(w) \/ RefreshStep(w) \/ DeviceStep(w)
  \/ CreateFails(w) \/ RevokeChain(w) \/ FinishRevoke(w)

(* A request arrives. *)
Arrive(w) ==
  \/ \E c \in Codes : CodePresented(w, c) \/ CodeReplayed(w, c) \/ CodeMismatched(w, c)
  \/ \E t \in Tokens : RefreshPresented(w, t) \/ RefreshReused(w, t) \/ ClientRevoke(w, t)
  \/ \E d \in Devices : DevicePresented(w, d)
  \/ \E g \in GrantKeys : UserRevoke(w, g)
  \/ \E u \in Users : Deactivate(w, u)
  \/ \E r \in Resources : RemoveResource(w, r)

Consent ==
  \E g \in GrantKeys, S \in SUBSET Scopes :
    \/ \E c \in Codes : Approve(c, g, S)
    \/ \E d \in Devices : ApproveDevice(d, g, S)

Cleanup ==
  \/ \E c \in Codes : DeleteExpiredCode(c)
  \/ \E d \in Devices : DeleteExpiredDevice(d)
  \/ \E t \in Tokens : DeleteExpiredToken(t)

Environment ==
  \/ Tick
  \/ \E r \in Resources : SetRegistered(r)
  \/ \E S \in SUBSET PolicyScopes : SetScopePolicy(S)
  \/ \E u \in Users, S \in SUBSET PolicyScopes : SetGroups(u, S)

Next ==
  \/ \E w \in Workers : Arrive(w) \/ Handle(w) \/ Fail(w)
  \/ Consent
  \/ Cleanup
  \/ Environment

Spec == Init /\ [][Next]_vars

(* The steps that wait for a row another transaction has locked. *)
Waits(w) ==
  CodeBurn(w) \/ CodeClaim(w) \/ RefreshClaim(w) \/ DeviceClaim(w) \/ FinishRevoke(w)

(* A request the server has begun is carried on: Node runs every ready      *)
(* handler, PostgreSQL answers every statement, and hands a locked row to   *)
(* those who wait for it in the order they came, so a wait is not overtaken *)
(* for ever.  Nothing else is fair.                                         *)
FairSpec ==
  /\ Spec
  /\ \A w \in Workers : WF_vars(Handle(w)) /\ SF_vars(Waits(w))
-----------------------------------------------------------------------------
(* What the module promises.                                               *)

TypeOK ==
  /\ codes \in [Codes -> CodeRow]
  /\ devices \in [Devices -> DeviceRow]
  /\ tokens \in [Tokens -> TokenRow]
  /\ grants \in [GrantKeys -> {"none", "live", "revoked"}]
  /\ active \in SUBSET Users
  /\ registered \in SUBSET Resources
  /\ unrefreshable \in SUBSET PolicyScopes
  /\ lost \in [Users -> SUBSET PolicyScopes]
  /\ now \in Nat
  /\ req \in [Workers -> Request]
  /\ failures \in Nat
  /\ answers \in [Credentials -> Nat]

OpenCodes == {c \in Codes : codes[c].st = "open"}
OpenDevices == {d \in Devices : devices[d].st = "approved"}
OpenTokens == {t \in Tokens : Claimable(t)}

(* A transaction that has claimed a credential (oauth/token.ts, the three   *)
(* updateMany claims) still finds it claimable when it commits, and nobody  *)
(* else has claimed it: revocations, burns and cleanups wait for the row.   *)
ClaimsHold ==
  /\ \A w \in Workers :
       /\ At(w, "codeCommit") => Cred(w) \in OpenCodes
       /\ At(w, "refreshCommit") => Cred(w) \in OpenTokens
       /\ req[w].pc \in {"deviceGrant", "deviceCommit"} => Cred(w) \in OpenDevices
  /\ \A v, w \in Workers :
       (req[v].pc \in CommitPCs /\ req[w].pc \in CommitPCs /\ Cred(v) = Cred(w)) => v = w

(* Rotation makes a line (handleRefreshTokenGrant): a rotated token has a   *)
(* successor, of the same chain, with the same deadline, no other token has *)
(* the same successor, and an approval is the start of one line only, so a  *)
(* replayed token always has the live one downstream of it.                 *)
HasPredecessor(t) == \E p \in Tokens : tokens[p].rotatedTo = t

LinearChain ==
  /\ \A t \in Tokens : tokens[t].rotatedTo # None =>
       LET s == tokens[tokens[t].rotatedTo] IN
       /\ s.st # "unborn"
       /\ s.origin = tokens[t].origin
       /\ s.grant = tokens[t].grant
       /\ s.expires = tokens[t].expires
  /\ \A s, t \in Tokens :
       (tokens[s].rotatedTo = tokens[t].rotatedTo /\ tokens[s].rotatedTo # None) => s = t
  /\ \A s, t \in Tokens :
       (/\ tokens[s].origin = tokens[t].origin /\ tokens[s].st # "unborn"
        /\ tokens[t].st # "unborn" /\ ~HasPredecessor(s) /\ ~HasPredecessor(t)) => s = t

(* One approval stands behind at most one credential that can be exchanged: *)
(* the code, or one refresh token of its chain, whatever the interleaving   *)
(* of exchanges, retries, replays and revocations.                          *)
OneLivePerApproval ==
  \A a \in Codes \cup Devices :
    /\ \A s, t \in OpenTokens :
         (tokens[s].origin = a /\ tokens[t].origin = a) => s = t
    /\ \A t \in OpenTokens : tokens[t].origin = a => a \notin OpenCodes \cup OpenDevices

(* As long as a refresh token works, the rows of the tokens it replaced are *)
(* still there, so presenting one of those is noticed: the cleanup of       *)
(* expired rows does not outrun a chain, because the deadline is absolute.  *)
EvidenceKept ==
  \A p, t \in Tokens :
    (tokens[p].rotatedTo = t /\ Claimable(t) /\ ~Expired(tokens[t])) => tokens[p].st = "row"

(* A refresh token never carries a scope its user did not approve in the    *)
(* request its chain started from, however policies, groups and the grant   *)
(* change in between.                                                       *)
ScopesWithinApproval ==
  \A t \in Tokens : tokens[t].st # "unborn" =>
    /\ tokens[t].origin \in Codes => tokens[t].scopes \subseteq codes[tokens[t].origin].scopes
    /\ tokens[t].origin \in Devices => tokens[t].scopes \subseteq devices[tokens[t].origin].scopes

(* The credentials that a request on grant g could still exchange. *)
OpenOn(g) ==
  {c \in OpenCodes : codes[c].grant = g} \cup {d \in OpenDevices : devices[d].grant = g}
    \cup {t \in OpenTokens : tokens[t].grant = g}

(* A grant with nothing left to exchange gets a working credential again    *)
(* only by the user's consent: no request in flight, however old what it    *)
(* has read, brings one back.                                               *)
OnlyConsentRevives ==
  [][\A g \in GrantKeys :
       (OpenOn(g) = {} /\ OpenOn(g)' # {}) => OpenOn(g)' \subseteq Codes \cup Devices]_vars

(* The token endpoint implements the ledger of credentials. *)
Ledger ==
  INSTANCE CredentialLedger WITH
    open <- OpenCodes \cup OpenDevices \cup OpenTokens,
    retired <- {c \in Codes : codes[c].st \in {"consumed", "deleted"}}
                 \cup {d \in Devices : devices[d].st \in {"consumed", "deleted"}}
                 \cup {t \in Tokens : tokens[t].st # "unborn" /\ ~Claimable(t)}
LedgerSpec == Ledger!Spec

(* Every request is answered: no two transactions wait for each other.      *)
EveryRequestReturns == \A w \in Workers : ~At(w, "idle") ~> At(w, "idle")

(* A reuse, once detected, takes down every token of the grant that was     *)
(* there when it was detected, unless the process dies on the way.          *)
DetectedReuseRevokes ==
  \A w \in Workers, t \in Tokens :
    (At(w, "revokeChain") /\ tokens[t].st = "row" /\ tokens[t].grant = GrantOf(Cred(w)))
      ~> (tokens[t].revoked \/ tokens[t].st = "deleted" \/ failures > 0)

(* oauth/token.ts:83, PLAN.md:803: a reuse revokes the whole chain.         *)
RevokesWholeChain ==
  [][\A w \in Workers :
       (At(w, "revoking") /\ Cred(w) # None /\ FinishRevoke(w)) =>
         \A t \in Tokens : tokens[t].grant = GrantOf(Cred(w)) => ~UnrevokedRow(t)']_vars

(* oauth/token.ts:193: a code for a revoked grant must not yield tokens.    *)
RevokedGrantYieldsNothing ==
  [][\A w \in Workers :
       CodeCommit(w) => grants[codes[Cred(w)].grant] = "live"]_vars

(* oauth/token.ts:250: a lost claim is a proven replay.                     *)
LostClaimIsReplay ==
  \A w \in Workers :
    (At(w, "revokeChain") /\ Cred(w) \in Codes) => answers[Cred(w)] > 0
=============================================================================
