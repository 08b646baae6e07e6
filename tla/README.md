# A verification project for Asterism Proxy

Asterism Proxy is an OAuth 2.1 authorization server for MCP resource servers: a Node
(Express, Prisma, PostgreSQL) service under `packages/proxy`, and a library
`packages/asterism-verify` with which a resource server checks the tokens. This directory
holds TLA+ models of its protocol state, TLC configurations that check them on small
instances, and proofs checked by TLAPS of what its parts promise for every size of the
instance. File names without a directory are relative to `packages/proxy/src`.

To check a run: `tlc -config TokenRaces.cfg MCTokenEndpoint.tla` (the module of each
configuration is in the table of runs). To check the proofs of a module:
`tlapm KeyRingProofs.tla`.

## Inventory

| component | state | operations | interacts with | what makes it correct |
|---|---|---|---|---|
| Token endpoint, `oauth/token.ts`, `crypto/refresh-token.ts` | `auth_codes`, `device_codes`, `refresh_tokens` | three grants: exchange, rotation, replay handling | reads grants, users, the registry; signs | one live credential per approval; a replay takes the chain down; nothing comes back without consent |
| Grants and revocation, `oauth/grants.ts` | `grants` | list, revoke a grant, revoke a token, log out | the token endpoint, consent | a revocation reaches every token |
| Consent, `oauth/consent.ts`, `identity/csrf.ts` | `authorization_requests`, `grants` | page, form post | requests, sign-in, the registry, device codes | one verdict per request; only what was shown is approved, by whom it was shown to |
| Authorization requests, `oauth/authorize.ts`, `oauth/device.ts`, `identity/flow-binding.ts` | `authorization_requests`, `device_codes`, binding cookie | create, bind to the browser, enter a user code | sign-in, consent | a request is completed in the browser it began in |
| Upstream sign-in, `identity/oidc.ts` | `users`, state and nonce of the request | callback | requests, sessions | the upstream state is used once |
| Upstream re-check, `identity/upstream-refresh.ts` | upstream token of a user | refresh, back-off | token endpoint, sign-in | the newer token wins; a refusal deactivates, an outage does not for a while |
| Sessions and local accounts, `identity/session.ts`, `identity/local-accounts*.ts`, `identity/device-cookie.ts`, `identity/oidc-router.ts`, `admin/auth.ts`, `cli/local-user.ts` | `users.sessionEpoch`, `local_users`, `login_failures`, signed cookies | set up, log in, log out, change password, add, deactivate, throttle | consent, account pages | no session survives what should end it; parallel guesses do not pass the limit |
| Resource registry, `resource-registry.ts`, `resource-servers/registry-listener.ts` | in-memory view, generation, LISTEN connection | load, notification, reconnect | every handler reads it | the view never loses a change it has seen, and catches up |
| Resource server metadata, `resource-servers/service.ts`, `metadata-changes.ts` | accepted and pending document of a server | refresh, accept, remove, policies | registry | in force is never more than an operator accepted |
| Signing keys, `crypto/signing-keys.ts` | `signing_keys` | create, rotate, sign, publish, delete | verifier | one active key; a token's key is published while it is valid |
| Verifier, `asterism-verify/src` | JWKS cache | verify, refresh | signing keys | a withdrawn key is not trusted past the limit |
| Clients, `clients/*.ts` | cached metadata documents, denylist | resolve, deny | authorize, consent, token | a denied client has no grant |
| Client authentication, `oauth/client-assertion.ts` | jti store, JWKS of clients | verify an assertion | token endpoint | an assertion is accepted once |
| Cleanup, `cleanup.ts` | - | delete expired rows | all tables | deletes nothing a request relies on |
| Outbound fetches, rate limits, administration, shell | counters | - | - | sequential, see the components in PROJECT.json |

Everything shared lives in one PostgreSQL at READ COMMITTED, used by a single instance of the
proxy (server.ts:167, resource-registry.ts:86) and, beside it, by the processes of the CLI.
Handlers interleave at every `await`. What is hard here: decisions on state
read before an `await`; conditional updates and row locks as the only arbiters; revocations
of many rows against inserts in flight; a second tab, a second request, a retry; clock and
cleanup; a handler that dies between two statements. Each is a hazard in PROJECT.json,
at the line where it bites, with the property that covers it.

## Modules

| module | models |
|---|---|
| `CredentialLedger` | abstract: a credential is opened once, exchanged at most once for at most one other, or withdrawn |
| `TokenEndpoint` | `oauth/token.ts`, `oauth/grants.ts`, `crypto/refresh-token.ts`, `cleanup.ts`, with the committed effect of consent |
| `MCTokenEndpoint` | its symmetry for TLC |
| `TokenEndpointProofs` | its inductive invariant; claims hold; one live credential, linear chains, evidence, no revival, scopes, implementation of `CredentialLedger` |
| `ApprovalLedger` | abstract: at most one verdict per request and device code, a grant lives by approval only |
| `ConsentFlow` | `oauth/consent.ts`, `oauth/authorize.ts`, `oauth/device.ts` (creation and entry), the subject written by a sign-in |
| `MCConsentFlow` | policies and symmetry for TLC |
| `ConsentProofs` | its inductive invariant; the page approved was shown, the claims on a grant were pinned; implementation of `ApprovalLedger` |
| `RegistrySync` | `resource-registry.ts`, `resource-servers/registry-listener.ts`, the changes of `service.ts` as far as they notify and load |
| `ServerMetadata` | `resource-servers/service.ts` (refresh, accept, approve, remove), `metadata.ts`, `metadata-changes.ts`, `refresh-job.ts`, and the handlers of `admin/router.ts` that call them |
| `ResourceServerProofs` | of `RegistrySync`: the view keeps what it has shown and what was answered, no change is missed; of `ServerMetadata`: what waits is wider, nothing is in force that was not agreed to, only an accept widens |
| `KeyRing` | `crypto/signing-keys.ts`, `cli/rotate-signing-key.ts`, `asterism-verify/src/jwks-cache.ts` |
| `KeyRingProofs` | its inductive invariant; one active key; live tokens stay verifiable; a compromise ends all; trust ends |
| `LocalAccounts` | the clock that the next two share |
| `Sessions` | `identity/session.ts`, `local-accounts-router.ts`, `oidc-router.ts`, `device-cookie.ts`, `admin/auth.ts` (`isRecentReauth`), `cli/local-user.ts` |
| `LoginThrottle` | the throttle of `identity/local-accounts.ts` |
| `LocalAccountsProofs` | of `Sessions`: revoked cookies stay dead, one setup, the administrator's proof of presence; of `LoginThrottle`: the limits hold, nobody is refused without cause, nobody waits in a circle |
| `UpstreamCheck` | `identity/upstream-refresh.ts`, the callback of `identity/oidc.ts` |
| `UpstreamProofs` | its inductive invariant; a sign-in wins; the fail-open window; tokens and codes are used once |
| `ClientAuth` | `oauth/client-assertion.ts` |
| `ClientAuthProofs` | its inductive invariant; no replay; withdrawn keys die |
| `Clients` | `resolveClient` of `clients/cimd.ts`, `clients/denylist.ts`, `clients/trust-policy.ts` as far as it asks the denylist |
| `ClientsProofs` | its inductive invariant; no older document; the age of what is served; a denial holds |
| `MCServerMetadata`, `MCSessions`, `MCLoginThrottle`, `MCUpstreamCheck`, `MCClientAuth`, `MCKeyRing` | documents and symmetry for TLC |

How they fit together: `TokenEndpoint` takes the commit of a consent (`ConsentFlow`), the verdict
of the upstream re-check (`UpstreamCheck`), and what registry and groups say (`RegistrySync`,
`ServerMetadata`) as events that may come at any moment, and never looks behind them, so what
is shown of it holds whatever those parts do. The subject that a login writes to a request is
`SignIn` of `ConsentFlow`; the session it starts is `Sessions`, whether a guess is let through `LoginThrottle`. The row
that the provider's callback writes is there twice: as what the next re-check compares with (`UpstreamCheck`), and as the account that a session is for (`Sessions`). A denied client loses
its grants in `Clients`, and the refresh tokens of a revoked grant are `TokenEndpoint`'s.

### TokenEndpoint

A request is a worker `w`; `req[w].pc` names the `await` its handler is at and the other
fields hold what the handler carries over it. `codes`, `devices`, `tokens` and `grants`
are the tables. An early return at the first await is no step; later it is a return to
`idle`. The handlers:

| handler | actions |
|---|---|
| `handleAuthorizationCodeGrant` | `CodePresented`, `CodeReplayed`, `CodeMismatched`, `CodeBurn`, `CodeCheckGrant`, `CodeCheckUser`, `CodeMint`, `CodeClaim`, `CodeCommit` |
| `handleRefreshTokenGrant` | `RefreshPresented`, `RefreshReused`, `RefreshCheckGrant`, `RefreshCheckUser`, `RefreshUpstream`, `RefreshScopes`, `RefreshClaim`, `RefreshCommit` |
| `handleDeviceCodeGrant` | `DevicePresented`, `DeviceCheckUser`, `DeviceMint`, `DeviceClaim`, `DeviceCheckGrant`, `DeviceCommit` |
| `revokeDescendantRefreshTokens` | `RevokeChain`, `FinishRevoke` |
| revoke grant, revoke token, deactivate, remove server | `UserRevoke`, `ClientRevoke`, `Deactivate`, `RemoveResource`, each followed by `FinishRevoke` |
| consent, cleanup, registry, groups, time | `Approve`, `ApproveDevice`, `DeleteExpired...`, `SetRegistered`, `SetScopePolicy`, `SetGroups`, `Tick` |

A transaction is two or more steps: the claim locks the row (`Locked`), the commit makes the
effect visible. A conditional update waits for the lock and looks again. A revocation of many
rows selects them when its statement begins and touches those only; it waits for all the
locked ones together rather than one after the other, which leaves out no final outcome,
because none of its writes is visible before its commit.

Abstracted: secrets are model values, drawn once; PKCE, client authentication and polling are
only the branch they take (polling a pending or denied code yields no credential); the
upstream re-check says yes or no; the access token is not stored, `answers` counts
responses. `origin` and `answers` are history and no guard reads them. An approval looks at account, registration and
groups before its transaction (`consent.ts:402-433`), so at the commit they may have changed: `Consentable` asks only for the row lock of the grant.

### ConsentFlow

One client and one resource server, hence one grant per user. `requests` and `devices`
are tables, `session[b]` is the user browser `b` is signed in as, `pages[b]` the forms it
has been shown: a page is the request, the user and the claims it listed, and the first two
are what the form token is computed from (`boundToken`). `policy` is what registry and
groups say at the moment.

| handler | actions |
|---|---|
| authorize, device authorization, device entry | `Authorize`, `IssueDeviceCode`, `EnterUserCode` |
| OIDC callback, local login; self-login, logout | `SignIn`; `SetSession` |
| `GET /oauth/consent` | `GetConsent`, `GetCheck`, `GetPin`, `GetRender` |
| `POST /oauth/consent` | `Submit`, `PostCheck`, `Consume`, `DecideDevice`, `ReadGrant`, `Commit` |
| refusals by group or missing fresh sign-in, on either | `GetCheck` or `PostCheck`, then `Consume`, `DecideDevice` |
| revoke, expiry, cleanup, registry | `UserRevoke`, `ExpireRequest`, `DeviceExpires`, `DropExpired`, `SetPolicy` |

The row is the one `loadFlow` read (`req[w].row`): the claims recorded at the commit are
the pinned claims of that snapshot. Deleting the request locks it until the commit, so a
second post waits and then finds it gone. The session cookie is per browser here; a logout,
which ends the sessions of a user in every browser, is several `SetSession`.
`verdicts`, `approvals` and `pinned` are history.

A load pins the claims in an awaited write (`GetPin`) and renders its page after it (`GetRender`); in between it may be
overtaken or die (`Fail`). So the claims recorded need not have been on any page: `ClaimsWerePinned` says that a load had
pinned them, signed in and past every check, for a request that its user approved, and `ClaimsWereShown`, which says more, is
among the counterexamples.

### RegistrySync

The database is its number of committed changes (`version`), the registry in memory the
number of changes its servers and its scope policies show (`view`): Prisma reads the two with
two queries. `load[l]` is the call of `loadRegistry` that `l` awaits, where `l` is a caller in
this process or the loop of `requestReload`. `client` is the listener's connection as the
process sees it, `session` whether the database still has it, `note` an undelivered
notification (they carry nothing, so one stands for many).

| code | actions |
|---|---|
| `loadRegistry` | `BeginLoad` (the generation), `ReadRows`, `ReadPolicies`, `Swap` |
| a change by `service.ts`, by the CLI | `Change`, `CallerLoads`, `CallerReturns`, `CallerFails`; `CliChange` |
| `requestReload` | `RequestReload`, `Reloaded`, `ReloadFails`, `RetryReload` |
| `connect`, `lost`, `scheduleReconnect` | `Listen`, `Connected`, `ConnectFails`, `Notification`, `Lost`, `Reconnect` |
| start, stop, the end of a session in the database | `StartRegistryListener`, `StopRegistryListener`, `Stopped`; `DropSession` |

The initial state is that after the load of the start-up, so a change by the CLI can fall
between it and the LISTEN. `since`, `floor` and `acked` are history.

### ServerMetadata

One resource server. `served` is the document its host publishes at the moment, `row` the row of the
database: what is in force, what waits for the operator, whether it is enabled, expired, tried
in this minute. A handler is a worker: an operator, or the job. It fetches (`fetch`), asks
for the row lock (`lock`), reads under it (`read`) and stores (`store`).

| code | actions |
|---|---|
| approve, refresh, accept | `BeginApprove`, `BeginRefresh`, `BeginAccept`; `Fetched`, `FetchRejected`, `FetchFails`, `Create`, `Lock`, `Read`, `Store`, `Fails` |
| the job | `RefreshDue`, once a minute (`MinutePasses`), for what has expired (`Expire`) |
| the page of an operator, remove, enable | `Show`, `Remove`, `SetEnabled` |
| the server | `Publish` |

A document is a function from scopes to a description and a set of flags; `Widens` is the
comparison of `metadata-changes.ts`, `Merge` that of the service, `Valid` and `Parsed` are the checks and
defaults of `metadata.ts`. `shown` and `agreed` are history.

The lock of a row that does not exist locks nothing (`missed`): a refresh whose row was removed
while it fetched, and approved again between its `SELECT ... FOR UPDATE` and its read, stores its older document
over the newer. Then `OnlyAcceptWidens` fails without its proviso, against the comment on
service.ts:160-162: whoever removes and approves within one refresh must look at the result.
`InForceAgreed` holds there too: the document that comes back was agreed to once.

### KeyRing

`status` is the table `signing_keys`; `signer[s]` is a handler that holds a key it has read and signs
within `HoldTime`; `rotation[r]` is a process of the CLI between its reads and its transaction; `cache`, `fetch`
and `waiting` are one `JwksCache`, the callers of one `inflight` promise being the kids they asked for.

| code | actions |
|---|---|
| `getSigningKeyForSigning`, `createAndActivateKey`, `signJwt` | `ReadKey`, `CreateKey`, `ReadWinner`, `Sign` |
| `rotateSigningKey` | `ReadCurrent`, `ReadExisting`, `Commit`, `Rejected` |
| `getKey`, `refresh` | `FromCache`, `RateLimited`, `Join`, `Refresh`; `Answer`, `FetchSucceeds`, `FetchFails`, `Restart` |

The unique index on the active key is checked as each statement runs, so a rotation retires or deletes before it
inserts (`Remaining`). `overdue` keeps the longest time after its deletion that a key was given out.
Seen on the way: the second and third attempts of `createAndActivateKey` are never needed, because
nothing leaves the table without an active key; a caller that joins a fetch begun before a rotation is
told `unknown_kid` for up to the five seconds until it may ask again; and `verify.ts:87` calls a path
reachable only on a cold cache that is reached past the stale limit too.

### Sessions and LoginThrottle

`Sessions`: `account[u]` are the rows of a user with the two epochs, `jar[b]` the cookies of a browser, `call[b]` its
request with the cookies that the response will set. A user is local or the identity provider's. Actions: `SetupPost`, `SetupLock`,
`SetupCount`, `SetupCreate`; `LoginPost`; `CallbackGet`, `Upsert`; the tail that these share, `StartSession`, `TrustDevice` (after a
password only), `Answer`; `PasswordPost`, `ReadHash`, `ChangePassword`, `KeepSession`; `LogoutPost`, `Logout`; `AdminPost`,
`AdminCheck`, `AdminWrite`; the CLI's `Add` and `Deactivate`; by hand `SetActive`; `Copy` is a copied cookie. A cookie stays in its jar
when the server would refuse it.

`ended` counts how often the sessions or devices of a user were ended. A cookie takes the count at the moment its epoch is
read (`StartSession`, `TrustDevice`) or returned by the change (`ChangePassword`), which is before the cookie is signed and the response arrives. So `RevokedStaysDead` is
about cookies still to be set as well, and it compares what is accepted with what was promised, not with
the epoch: a password change that answered with the epoch as it is by then (`KeepsCurrent`) would sign in against a later logout. `entered` is
when a user last proved presence: when the password is compared (`LoginPost`), or what the provider says of a fresh sign-in
when the code is exchanged (`CallbackGet`; at most `ReauthMax` before, the `max_age` of the exchange). The marker is dated when it is set, so what
`AdminRecent` can promise is `ProofMax`: `ReauthMax` and the time between proof and marker (`LoginTime`) for a password, twice `ReauthMax`
and that time for a fresh sign-in upstream. Of the device cookies, which have one name per user, a browser keeps one here.

What `RevokedStaysDead` does not say, because it is not so: a login whose password was compared before a
password change or deactivation reads the epoch (session.ts:30) after it, and its session outlives the
change, against local-accounts-router.ts:308; a changer whose own session was revoked meanwhile is signed in again
by the answer; a marker of re-authentication is not bound to an epoch and survives a logout.

`LoginThrottle`: `attempt[a]` is an attempt from its advisory locks (`TakeLock`, in the order of the code) through the count
(`Count`, `Refuse`) and the record (`Record`) to the comparison (`GuessWrong`, `GuessRight`) and what it does to the table
(`EndAttempt`: a success deletes the rows of its key). `Prune` is the job. Deadlock is not possible (`NobodyWaitsInACircle`): two attempts share at most one key
lock and one address lock, and every attempt asks for them in an order that cannot close a
cycle, sorted or not. A success also clears the rows of other addresses and of attempts still in
flight with the same key (`forgiven`), so up to twice the limit less one may be compared
around a success.

### UpstreamCheck

One user of the configured issuer. `user` is what the row keeps (the refresh token, when it was last checked), `check[c]` a call of
`recheckUpstream`, `inflight` and `failedAt` the two maps in memory, `state` and `callback[s]` a sign-in, `provider` the external side:
which tokens it takes, which it has seen spent, whether the user is enabled.

| code | actions |
|---|---|
| `recheckUpstream`, `doRecheck` | `Ask`, `ReadRecent`, `ReadNoToken`, `ReadBackingOff`, `ReadToken`; `Confirms`, `AnswerLost`, `Rejects`, `NoVerdict` (the grant at the provider), `Userinfo`; `Store`, `Reject`, `Unavailable`, `Refuse` |
| `startUpstreamAuth`, `handleUpstreamCallback` | `BeginFlow`, `FindFlow`, `ConsumeState`, `Exchange`, `ExchangeFails`, `Upsert` |

`NoTokenTwice` has a proviso (`orphaned`), for a rotated token may be lost: the answer is lost, userinfo
fails after the rotation, the store fails, or a sign-in without a new token is stored while the re-check
rotates, and the compare-and-set (which looks at the time of the check also) then drops the rotated
token. The next check presents a spent token, which a provider may take for theft.

A caller is dated when it asks, and the leader of a shared call again when it reads the row. Whoever shares the call gets the verdict that was computed from the
leader's time (`upstream-refresh.ts:33-34, 67`), so one that joins a call late is let through although it began past the window. `overdue` follows any of
those who are let through; the bound is the window and two `CallTime`: one for a confirmation stored late, one for a joiner. TLC shows that the
bound is reached, and so "beyond it the refresh is refused" (`upstream-refresh.ts:13-15`) is true of the leader and of a joiner up to the length of a call. `CallTime` stands for at most three requests
to the provider, each of which times out (discovery, the grant and userinfo; `oidc.ts:12-16`), and for the write that follows.

### ClientAuth

One client. `published` is the number of the key it publishes, `jwksCache` its cached set, `seenJti` the store
of used assertions, `call[r]` a request. Actions: `PresentCold`, `PresentCached`, `PresentUnknownKid`,
`FetchReads`, `FetchArrives`, `FetchFails`, `Evict` (other clients fill the cache), `Accept`, `Refuse`, `Sweep`, `Restart`; the client signs and rotates. A restart
forgets the store; a replay after it is out of what the code promises, so `AssertionOnce` is about
one process (`accepted` starts again). An older answer may overwrite a newer
one in the cache (`FetchArrives`); what holds is the limit of `WithdrawnKeyDies`.

### Clients

One client identified by the URL of its document; documents are numbered. `client` is its row, `inflight` the
shared resolution, `call[c]` a request, `denied` and `denial` the denylist and an `addDenial` between its list of grants
and its commit, `grant` the grant. Actions: `Ask`, `ReadLive`, `ReadMiss`, `Touch`,
`TouchVanished`, `FetchReads`, `FetchArrives`, `FetchRefused`, `FetchFails`, `Prune`, `Approve`, `Leave`, `Revoke`, `DenyReads`, `DenyCommits`, `RemoveDenial`.

Two limits of what the code promises, seen here. A leader that read an expired row before another
resolution stored a newer document that may not be cached, serves the older one when its fetch is
refused, to those who joined it later as well; the stale window bounds it (`OutdatedInTime`), and the hourly
cleanup deletes expired rows earlier than that. And a grant approved by a request past the check
survives the denial (`OnlyOutrunSurvives` allows just these) and works again after
`removeDenial`, against "Revoked grants are not restored" of `cli/deny-client.ts`.

## Runs

| run | module | question | instance |
|---|---|---|---|
| `token_races` | `MCTokenEndpoint` | do any interleavings of exchange, rotation, retry, replay and revocation break the ledger, the line of a chain, or bring a dead grant back? | 2 requests at once, a code, a device code, 3 refresh tokens, no clock |
| `token_time` | `MCTokenEndpoint` | does the cleanup outrun a chain, can a chain gain a scope while policies and groups change? | 1 request, a clock of 3 instants, 2 scopes |
| `token_liveness` | `MCTokenEndpoint` | is every request answered, does a detected reuse revoke? | 2 requests of which one may die, 2 refresh tokens, fairness |
| `consent_verdicts` | `MCConsentFlow` | one verdict, of the user who saw the page, for claims that a load had pinned, and no deadlock? | 2 requests of which both may be for one device code, 2 users, 1 browser, 2 posts or loads at once, 4 policies, 3 events |
| `registry_sync` | `RegistrySync` | does the view lose a change, does the listener forget one, does it catch up? | 1 caller beside the listener, 2 changes, 2 failures, fairness |
| `server_metadata` | `MCServerMetadata` | is anything in force that no operator agreed to, does a withdrawal take effect? | 1 operator and the job, 5 documents, 2 events, fairness |
| `key_ring` | `MCKeyRing` | one active key, never without, verifiable tokens, and no trust in deleted keys? | 3 keys, 1 signer, 2 rotations, 1 verifier, a clock of 4 instants |
| `sessions` | `MCSessions` | does a revoked cookie stay dead, is one account set up, is an administrator asked for a proof of presence? | 2 users, each local or upstream, 2 browsers, 5 events, a clock of 3 instants |
| `login_throttle` | `MCLoginThrottle` | does a burst pass a limit, is anyone refused without cause? | 3 attempts of any kind, 2 addresses, 1 key, limits 1 and 2, 2 windows |
| `upstream_check` | `MCUpstreamCheck` | who wins, a sign-in or a re-check; how long is an outage let through; is a token used twice? | 2 refreshes, 2 callbacks, 3 tokens, 3 flows, a clock of 5 instants |
| `client_auth` | `MCClientAuth` | is an assertion accepted twice, how long does a withdrawn key live? | 2 requests, 2 assertions, a store of 1, 2 keys, a clock of 4 instants |
| `clients` | `Clients` | does the cache go back, how old is what it serves, who escapes a denial, is everyone answered? | 2 requests, 2 documents, 1 denial, a clock of 6 instants, fairness |

Bounds. Two requests at once are enough for every race of a claim, a revocation and an
insert: each handler holds at most one claim, and the properties compare two credentials.
Three refresh tokens give a chain with a replaced, a live and an inserted token. `MaxTime`
covers before, at and after the deadlines, which are 1 or 2. `MaxFailures` bounds requests
that die half way; `MaxEvents` bounds sign-ins, expiries, revocations, policy changes and
failures together, and three reach each of the hazards: a sign-in, a change, and what
races with it. Two requests are what it takes for two verdicts to meet on one device code
or one grant.

For the registry, a caller's load and the loop's are the two that can overtake each other,
two changes tell a load before, between and after them, and two failures let a reconnect
fail again or a retry meet a lost connection. For the documents of a server, an operator and
the job are two handlers that fetch apart and store in either order; the five documents are wider and narrower
than each other by a scope, by a flag, by a text, without descriptions, and invalid; two events give a
change of the document and a removal. For keys, two rotations and a creation can meet at the
index, three keys are one for each, and the clock reaches the end of a token, a retention
and a stale limit. Two browsers are a cookie and its copy, or a request under way and the revocation that races with it; five events are two
sign-ins, a copy, a revocation and an administrator's post. Three attempts exceed a limit of
two, and two windows let a first row expire. Two callers share or do not share; two callbacks replay; three tokens are
the stored, the rotated and that of a sign-in; `MaxTime` is past the fail-open window with a call in it. A store of one assertion is full at
once. Two documents, two requests and a clock beyond lifetime, stale window and fetch together reach the oldest document that can be
served. The proofs have no bounds.

Symmetry is over tokens, requests, users and workers, keys, browsers, attempts and the like, and only in runs without liveness.
Deadlock is checked in the runs of the token endpoint, consent and the registry and in `server_metadata`; the
others stop where their bounded clock does (`CHECK_DEADLOCK FALSE`).
In `ConsentFlow` the action `Rest` lets the system stand still when no request is under
way, so that a cycle of row locks would be reported as a deadlock.

Fairness (`FairSpec`, `token_liveness`): weak for the steps of a request that has begun,
since Node runs every ready continuation and PostgreSQL answers; strong for the steps that
wait for a locked row, since PostgreSQL queues the waiters of a row and hands it on in
order. No arrival, tick, cleanup or failure is fair. In `registry_sync` the steps of loads,
of the loop and of the connection are weakly fair: queries answer, timers fire, and a dead
connection is noticed by an error or by the keep-alive probes of `registry-listener.ts:18`.
In `server_metadata` the steps of a handler are weakly and its row lock strongly fair, and the timers of the job are
weakly fair (`refresh-job.ts`); that a fetch succeeds is not assumed beyond the bound on failures.
In `clients` a request that has begun goes on: its queries answer and its fetch ends by the three
seconds of its timeout; nothing makes the client, the operator or the clock move.

Type invariants are not listed in the runs: where a module has one, it is proved for every
instance (`TypeCorrect` of its proof module, or `MetadataTypeCorrect`, `SessionsTypeCorrect`, `ThrottleTypeCorrect`).

## Counterexamples

Seven statements of the repository that the code does not keep. Each has a definition in its module
and a configuration that makes TLC show the behaviour, outside the runs above, which are those
that hold.

| configuration, module | property | what happens |
|---|---|---|
| `TokenChainSurvivor.cfg`, `MCTokenEndpoint` | `RevokesWholeChain` | a rotation in flight inserts its successor after the snapshot of the chain's revocation, and the successor survives (`oauth/token.ts:89`) |
| `TokenRevokedGrant.cfg`, `MCTokenEndpoint` | `RevokedGrantYieldsNothing` | the code grant checks the grant before minting and not again in the transaction that claims the code (`oauth/token.ts:194`) |
| `TokenLostClaim.cfg`, `MCTokenEndpoint` | `LostClaimIsReplay` | a claim is lost also when the cleanup deleted the code; the handler treats a first exchange as a proven replay (`oauth/token.ts:250`) |
| `ConsentOldPage.cfg`, `MCConsentFlow` | `ApprovedPageListed` | a newer page load re-pins the claims, the form of the older page stays valid, and approving it records claims it never listed (`oauth/consent.ts:356`) |
| `ConsentUnseen.cfg`, `MCConsentFlow` | `ClaimsWereShown` | a load dies after it has pinned the claims and before its page goes out; an older form of the same request then records claims that no page has listed (`oauth/consent.ts:356`) |
| `ConsentLostScope.cfg`, `MCConsentFlow` | `ApprovalKeepsScopes` | two approvals for the same grant merge into the same old row, and the later commit drops the scopes of the earlier (`oauth/consent.ts:440`) |
| `RegistryOlder.cfg`, `RegistrySync` | `NeverOlder` | generations order loads by their start, not by what they read, so an older view can replace a newer one until the next reload (`resource-registry.ts:110`) |

Smaller ones are told with the modules above: `ServerMetadata` (a removal during a refresh), `Sessions` (a login that began before a
password change), `UpstreamCheck` (a lost rotated token), `Clients` (a grant that outran a denial).

## Proofs

All from the assumption on the constants alone (`ConstantsAssumption`: the sorts of secrets
are disjoint, `None` is none of them, lifetimes are naturals; the other modules likewise). Beyond sorts, this is assumed:

| assumption | module | why the code has it |
|---|---|---|
| `TokenLife + HoldTime < Retention` | `KeyRing` | one hour and the time a handler holds a key, against two (`signing-keys.ts:92-93`) |
| `0 < JwksTTL`, `0 < MaxKeys` | `ClientAuth` | constants of `client-assertion.ts`; a client has a key |
| `CallTime <= Stale + 1`, `0 < MaxDocuments` | `Clients` | a fetch ends in three seconds, the stale window is a day (`cimd.ts:27`); there is a document |
| `0 < Interval`, `Interval <= FailOpen` | `UpstreamCheck` | five minutes and a day (`upstream-refresh.ts:11, 15`) |
| `p.fresh \subseteq p.short` for each policy, `Policies # {}` | `ConsentFlow` | a scope that needs a fresh sign-in is short-lived (`resource-registry.ts:75`) |
| `PolicyScopes \subseteq Scopes \ {OfflineAccess}` | `TokenEndpoint` | `offline_access` is no scope of a resource server |

In the modules with a clock `None` is no instant, and nowhere is it a document, worker, user or browser. Four bounds on time are no assumptions on constants but guards of `Tick`: the time that
a handler holds a key (`HoldTime`), that a fetch takes (`FetchTime`), that a call takes (`CallTime`) and that a sign-in takes from the proof to its marker
(`LoginTime`). The theorems name them, and hold for every value.

`TokenEndpointProofs`. `ClaimsHold` is not inductive: a request at its commit must also hold a
credential of the kind its pc says, drawn, with a well-formed row, and two requests that
claim it must be kept apart by the lock. `IInv` adds these: `RowsOK` (a row that is drawn has
its grant and origin; a chain begins from a credential that was exchanged) and `CredsOK` (pc
and credential agree). Each handler has a lemma that keeps `IInv`.

Its second half is about chains. Every step is one of four: consent, an exchange, a withdrawal, or no change
of the tables (`Moves`). `ExchangeEffect` says once what an exchange does, whichever grant it
is, and the properties follow from these: `OneLive`, `Linear`, `NoRevival`, `ScopesStayWithin`
and `ImplementsLedger`. `Evidence` needs that a deleted row is expired and that the deadline
of a chain is absolute.

`ConsentProofs`. `IInv` is `TypeOK`, `ApprovalWasShown` and `DeviceFollowsVerdict`, and what they
need to be inductive: `CallsOK` (a post carries the browser and the device code of its request,
an approving one a page that was shown, and a request whose transaction has begun is still
there), `LocksOK` (two transactions never hold the same request or device code) and `RowsOK`
(nothing undecided has a verdict). A step gives no verdict (`QuietStep`), moves one request on
(`CallStep`) or gives a verdict (`VerdictStep`); each of the three is proved once to keep
`IInv`, and each action is shown to be one of them. `ImplementsLedger` follows from `Undecided`:
what is about to get a verdict has none. `ClaimsStayPinned` has an invariant of its own,
`ClaimsInv`, over what is on a request, what a post copied of it and what it read of the
grant; pins and approvals last (`LastingStep`), so a backed claim stays backed.

`ResourceServerProofs`. `AppliedStays` and `AnsweredIsServed` say nothing of the loads under way, on
which they depend. `LoadsInv` does: loads that began later carry a higher generation and have
seen at least as much (`Ordered`); a load below the applied generation began no later than
what was applied, one above it no earlier (`LoadOK`). So what a load that is passed over owes
its caller is shown already. `LoadsMove` covers every step that begins or ends loads,
`LoadsSwap` the application of one. `ListenerInv` is `NothingMissed` with the floor in place
of the view, and says that a notification goes with its session and that with its client.

The documents of a server, in the same module. `PendingWidens` and `InForceAgreed` depend on what a handler holds of the row. `CallOK`
says it: what was read under the lock is the row as it is, unless the lock was asked for when there was no row and locked nothing;
then the copy is of a row that was there once, and what was in force in it is covered by something agreed to (`CoveredBy`). The lemmas about
`Merge` and `Widens` do the rest: a merge is not wider than what was in force, and is covered by what covered that.

`KeyRingProofs`. `OneActive` and `LiveKeyPublished` say nothing of what handlers hold. `HoldOK` does: a handler that holds a
retired key read it before the retirement, and so signs within `HoldTime` of it; hence `LifeOK`: the
tokens of a retired key end by `HoldTime + TokenLife` after its retirement. `RotationOK` is why the
list read before the transaction is enough: as long as the active key is among those read, all
stored ones are; a key added since would be the active one, and the index refuses the transaction.
`FetchOK` and `CacheOK` say that a deleted key in an answer or in the cache was in the table when the
fetch began. Everything that touches the table is an addition (`Adds`, `TableStep`); the verifier has `VerifierStep`.

`UpstreamProofs`. At most one caller is past the read (`Led`). No time of a check is later than the provider's last
word and a call, and a caller past its read has read no longer ago than a call (`Timed`); whoever joined it asked before now, hence `LetThroughInTime`. Until an answer is lost, the stored token is
unspent unless the caller under way has its successor (`TokensOK`), from which `NoTokenTwice`. Exchanges are bounded by the
states consumed (`FlowsOK`). `SignInWins` follows from `Timed`: what a re-check has read is older than any sign-in
that outran it, so its compare-and-set fails.

`ClientAuthProofs`. An accepted assertion is in the store until it can no longer be accepted (`Remembered`): a sweep
takes expired ones only. A cached or fetched set that shows a withdrawn key was read before the withdrawal (`Timely`).

`ClientsProofs`. Only the leader stores a document (`Leads`), so the row changes under no one who
fetches, and what arrives is not older than the row (`Ordered`); what is stored, or held by a request, outlives its document by a fetch and
its lifetime (`Aged`). `OnlyOutrunSurvives` is inductive beside the types.

`LocalAccountsProofs`. The epoch of an account counts its revocations (`AccountsOK`), and a cookie, in a jar or still to be set, carries the
epoch of the count it took (`SessionCookies`, `DeviceCookies`, part of the types), so one that carries the epoch of its account was read after all of them:
`RevokedStaysDead`. `RefusedForGood`: epochs only grow, so what they refuse stays refused. A marker is dated at most `LoginTime` after a proof of presence of its
account (`MarkersOK`), and so is one that a request has yet to set (`CallOK`): hence `AdminRecent`. Who counts or creates in
`/setup` holds its lock, so what it counted still holds when it creates: `SetupOnce`.

The throttle, in the same module. Who has counted holds the locks that its request names until it records (`Locked`), and no lock has two holders
(`Exclusive`), so between a count and its row nobody adds to what was counted: an attempt about to record is still below its
limits (`AttemptOK`). A row is there until its window is over or a success clears it (`RowOK`), so every attempt in a window that
the new one falls into was counted by it, whichever attempt the window begins with (`RecordKeeps`). That gives `GuessesBounded` for any limits and any
number of attempts; `RefusedWithCause` says that nothing else has a row. Besides, `NobodyWaitsInACircle`: the names of the locks are sorted, so
a wait leads to a later name each time. TLC cannot show this one as a deadlock, because a transaction may always time out.

## Only model-checked, and not modelled

Every safety invariant and every action property that a run checks is a theorem, for every value of the constants. Liveness under fairness
is TLC's alone (`EveryRequestReturns`, `DetectedReuseRevokes`, `CatchesUp`, `NarrowsInTheEnd`, `EveryCallReturns`), because the
provers handle neither fairness nor ENABLED, and so is absence of deadlock where a run checks it. The counterexamples have nothing to prove.

Not modelled, each listed in PROJECT.json with its reason: one outbound fetch (`clients/safe-fetch.ts`: address checks,
redirects and limits, sequential); the rate limits (`rate-limit.ts`: counters updated without an await); the
front ends of the services (the rest of `admin/` and `cli/`: parsing and rendering); the process shell. Of modelled parts,
left out are the pure validation of parameters and documents beyond what a property is
about, signatures and tokens of the libraries jose and openid-client, and the rendering: they hold no protocol state.

## Plan

1. done: the modules and runs above, and a theorem for each of their safety properties.
2. To prove: what remains are statements that no run makes yet, such as for the handlers that hold row locks in
   `ConsentFlow` and `TokenEndpoint` what `NobodyWaitsInACircle` says of advisory locks.
3. To compose: a module in which `Approve` of `TokenEndpoint` is the `Commit` of `ConsentFlow`, and
   `Clients` with both at the denial.
