---------------------------- MODULE RegistrySync ----------------------------
(***************************************************************************)
(* How the registry of resource servers in the memory of the proxy follows *)
(* the database (resource-registry.ts, registry-listener.ts): loads that   *)
(* overlap, the LISTEN connection with its losses and reconnects, the      *)
(* coalesced reloads, and the changes made by this process (callers of     *)
(* service.ts) and by another one (the CLI).                               *)
(*                                                                         *)
(* The content of the database is its number of committed changes.  A load *)
(* reads servers and scope policies with two queries, hence two numbers.   *)
(* A load under way belongs to a caller or to the loop of requestReload.   *)
(***************************************************************************)
EXTENDS Naturals

CONSTANTS
  Callers,       \* operations of service.ts that run in this process
  Listener,      \* the loop of requestReload
  MaxChanges,    \* bound: committed changes
  MaxFailures    \* bound: failed loads, failed and lost connections

ASSUME SyncAssumption == Listener \notin Callers /\ MaxChanges \in Nat /\ MaxFailures \in Nat

Loaders == Callers \cup {Listener}

VARIABLES
  version,     \* how many changes are committed
  view,        \* which changes the registry in memory shows
  nextGeneration, appliedGeneration,
  load,        \* load[l]: the load that l is at, and the change it made before
  reload,      \* the loop of requestReload, whether it runs or waits
  reloadQueued,
  running,     \* of the listener
  client,      \* its connection as the process sees it
  session,     \* the database has a session that LISTENs for the client
  note,        \* a notification is on its way to the client
  failures,    \* bound only
  floor,       \* history: all changes a load that has been applied began after
  acked        \* history: the last change whose caller has been answered

generations == << nextGeneration, appliedGeneration >>
loop == << reload, reloadQueued >>
connection == << client, session, note >>
vars == << version, view, generations, load, loop, running, connection, failures, floor, acked >>

-----------------------------------------------------------------------------
Load ==
  [pc : {"idle", "committed", "rows", "policies", "apply"}, mine : Nat,
   generation : Nat, since : Nat, rows : Nat, policies : Nat]

NoLoad == [pc |-> "idle", mine |-> 0, generation |-> 0, since |-> 0, rows |-> 0, policies |-> 0]

(* The state after the load of the startup (server.ts). *)
Init ==
  /\ version = 0 /\ view = [rows |-> 0, policies |-> 0]
  /\ nextGeneration = 1 /\ appliedGeneration = 1
  /\ load = [l \in Loaders |-> NoLoad]
  /\ reload = "off" /\ reloadQueued = FALSE
  /\ running = "no"
  /\ client = "none" /\ session = FALSE /\ note = FALSE
  /\ failures = 0 /\ floor = 0 /\ acked = 0

Failure == failures < MaxFailures /\ failures' = failures + 1

Larger(m, n) == IF m < n THEN n ELSE m

-----------------------------------------------------------------------------
(* loadRegistry.                                                           *)

(* It takes its generation when it starts; since is history. *)
Started(mine) ==
  [pc |-> "rows", mine |-> mine, generation |-> nextGeneration + 1, since |-> version,
   rows |-> 0, policies |-> 0]

BeginLoad(l, mine) ==
  /\ nextGeneration' = nextGeneration + 1
  /\ load' = [load EXCEPT ![l] = Started(mine)]

ReadRows(l) ==
  /\ load[l].pc = "rows"
  /\ load' = [load EXCEPT ![l] = [@ EXCEPT !.pc = "policies", !.rows = version]]
  /\ UNCHANGED << version, view, generations, loop, running, connection, failures, floor, acked >>

ReadPolicies(l) ==
  /\ load[l].pc = "policies"
  /\ load' = [load EXCEPT ![l] = [@ EXCEPT !.pc = "apply", !.policies = version]]
  /\ UNCHANGED << version, view, generations, loop, running, connection, failures, floor, acked >>

(* The swap, unless a load that started later has been applied already. *)
SwapIf(l, current) ==
  IF current
  THEN /\ appliedGeneration' = load[l].generation
       /\ view' = [rows |-> load[l].rows, policies |-> load[l].policies]
       /\ floor' = Larger(floor, load[l].since)
  ELSE UNCHANGED << appliedGeneration, view, floor >>

SwapAlways(l) == SwapIf(l, TRUE)
SwapLatest(l) == SwapIf(l, load[l].generation = nextGeneration)
Swap(l) == SwapIf(l, load[l].generation >= appliedGeneration)

-----------------------------------------------------------------------------
(* A change by this process: commit, then load, then the answer.           *)

(* pg_notify is part of the transaction: it reaches who listens at commit. *)
Commit ==
  /\ version < MaxChanges /\ version' = version + 1
  /\ note' = (note \/ session)

Change(c) ==
  /\ load[c].pc = "idle" /\ running = "on" /\ Commit
  /\ load' = [load EXCEPT ![c] = [NoLoad EXCEPT !.pc = "committed", !.mine = version']]
  /\ UNCHANGED << view, generations, loop, running, client, session, failures, floor, acked >>

CallerLoads(c) ==
  /\ load[c].pc = "committed" /\ BeginLoad(c, load[c].mine)
  /\ UNCHANGED << version, view, appliedGeneration, loop, running, connection, failures, floor,
                  acked >>

CallerReturns(c) ==
  /\ load[c].pc = "apply" /\ Swap(c)
  /\ load' = [load EXCEPT ![c] = NoLoad]
  /\ acked' = Larger(acked, load[c].mine)
  /\ UNCHANGED << version, nextGeneration, loop, running, connection, failures >>

(* The load fails, or the caller dies: the operator gets an error. *)
CallerFails(c) ==
  /\ load[c].pc # "idle" /\ Failure
  /\ load' = [load EXCEPT ![c] = NoLoad]
  /\ UNCHANGED << version, view, generations, loop, running, connection, floor, acked >>

(* A change by the CLI. *)
CliChange ==
  /\ Commit
  /\ UNCHANGED << view, generations, load, loop, running, client, session, failures, floor, acked >>

-----------------------------------------------------------------------------
(* requestReload.                                                          *)

RequestReload ==
  IF reload = "off"
  THEN /\ reload' = "loading" /\ reloadQueued' = FALSE /\ BeginLoad(Listener, 0)
  ELSE reloadQueued' = TRUE /\ UNCHANGED << reload, nextGeneration, load >>

(* A reload is done; the loop goes round if one was asked for meanwhile. *)
ReloadedThen(again) ==
  /\ load[Listener].pc = "apply" /\ Swap(Listener)
  /\ IF again
     THEN reloadQueued' = FALSE /\ BeginLoad(Listener, 0) /\ UNCHANGED reload
     ELSE /\ reload' = "off" /\ load' = [load EXCEPT ![Listener] = NoLoad]
          /\ UNCHANGED << reloadQueued, nextGeneration >>
  /\ UNCHANGED << version, running, connection, failures, acked >>

ReloadedOnce == ReloadedThen(FALSE)
Reloaded == ReloadedThen(reloadQueued)

(* A failed reload is tried again after a while, unless the listener stops. *)
ReloadFailsThen(next) ==
  /\ load[Listener].pc # "idle" /\ Failure
  /\ load' = [load EXCEPT ![Listener] = NoLoad]
  /\ reload' = next
  /\ UNCHANGED << version, view, generations, reloadQueued, running, connection, floor, acked >>

ReloadGivesUp == ReloadFailsThen("off")
ReloadFails == ReloadFailsThen(IF running = "on" THEN "sleeping" ELSE "off")

RetryReload ==
  /\ reload = "sleeping"
  /\ IF running = "on"
     THEN reload' = "loading" /\ reloadQueued' = FALSE /\ BeginLoad(Listener, 0)
     ELSE reload' = "off" /\ UNCHANGED << reloadQueued, nextGeneration, load >>
  /\ UNCHANGED << version, view, appliedGeneration, running, connection, failures, floor, acked >>

-----------------------------------------------------------------------------
(* The connection.                                                         *)

StartRegistryListener ==
  /\ running = "no" /\ running' = "on" /\ client' = "connecting"
  /\ UNCHANGED << version, view, generations, load, loop, session, note, failures, floor, acked >>

(* The database accepts the connection and the LISTEN. *)
Listen ==
  /\ client = "connecting"
  /\ client' = "listening" /\ session' = TRUE
  /\ UNCHANGED << version, view, generations, load, loop, running, note, failures, floor, acked >>

ConnectedThen(request) ==
  /\ client = "listening" /\ client' = "up"
  /\ request
  /\ UNCHANGED << version, view, appliedGeneration, running, session, note, failures, floor, acked >>

ConnectedOnly == ConnectedThen(UNCHANGED << loop, nextGeneration, load >>)
Connected == ConnectedThen(RequestReload)

ConnectFails ==
  /\ client = "connecting" /\ Failure
  /\ client' = "none"
  /\ UNCHANGED << version, view, generations, load, loop, running, session, note, floor, acked >>

(* The session ends and takes with it what it had not delivered; the client *)
(* learns of it by an error or, at the latest, from a keep-alive probe. *)
DropSession ==
  /\ session /\ Failure
  /\ session' = FALSE /\ note' = FALSE
  /\ UNCHANGED << version, view, generations, load, loop, running, client, floor, acked >>

Lost ==
  /\ client \in {"listening", "up"} /\ ~session
  /\ client' = "none"
  /\ UNCHANGED << version, view, generations, load, loop, running, session, note, failures, floor,
                  acked >>

Reconnect ==
  /\ client = "none" /\ running = "on"
  /\ client' = "connecting"
  /\ UNCHANGED << version, view, generations, load, loop, running, session, note, failures, floor,
                  acked >>

(* A notification can come before connect has resumed. *)
Notification ==
  /\ note /\ note' = FALSE
  /\ RequestReload
  /\ UNCHANGED << version, view, appliedGeneration, running, client, session, failures, floor, acked >>

(* The connection goes at once; the answer waits for the loop to end. *)
StopRegistryListener ==
  /\ running = "on" /\ running' = "stopping"
  /\ client' = "none" /\ session' = FALSE /\ note' = FALSE
  /\ UNCHANGED << version, view, generations, load, loop, failures, floor, acked >>

Stopped ==
  /\ running = "stopping" /\ reload = "off" /\ running' = "stopped"
  /\ UNCHANGED << version, view, generations, load, loop, connection, failures, floor, acked >>

-----------------------------------------------------------------------------
LoadStep(l) == ReadRows(l) \/ ReadPolicies(l)
CallerStep(c) == LoadStep(c) \/ CallerLoads(c) \/ CallerReturns(c)
LoopStep == LoadStep(Listener) \/ Reloaded \/ RetryReload
ConnectionStep == Listen \/ Connected \/ Lost \/ Reconnect \/ Notification

(* When the process has ended, and everything with it. *)
Ended == running = "stopped" /\ UNCHANGED vars

Next ==
  \/ \E c \in Callers : Change(c) \/ CallerStep(c) \/ CallerFails(c)
  \/ CliChange \/ LoopStep \/ ReloadFails
  \/ ConnectionStep \/ ConnectFails \/ DropSession
  \/ StartRegistryListener \/ StopRegistryListener \/ Stopped \/ Ended

Spec == Init /\ [][Next]_vars

(* Timers fire, the database answers, a lost connection is noticed.  No     *)
(* change, failure or stop has to happen. *)
FairSpec ==
  /\ Spec
  /\ \A c \in Callers : WF_vars(CallerStep(c))
  /\ WF_vars(LoopStep)
  /\ WF_vars(StartRegistryListener) /\ WF_vars(Stopped)
  /\ WF_vars(Listen) /\ WF_vars(Connected) /\ WF_vars(Lost) /\ WF_vars(Reconnect)
  /\ WF_vars(Notification)

-----------------------------------------------------------------------------
Shows(n) == view.rows >= n /\ view.policies >= n

TypeOK ==
  /\ version \in 0 .. MaxChanges
  /\ view \in [rows : Nat, policies : Nat]
  /\ nextGeneration \in Nat /\ appliedGeneration \in Nat
  /\ load \in [Loaders -> Load]
  /\ reload \in {"off", "loading", "sleeping"} /\ reloadQueued \in BOOLEAN
  /\ reload = "loading" <=> load[Listener].pc \in {"rows", "policies", "apply"}
  /\ load[Listener].pc # "committed"
  /\ running \in {"no", "on", "stopping", "stopped"}
  /\ client \in {"none", "connecting", "listening", "up"}
  /\ session \in BOOLEAN /\ note \in BOOLEAN
  /\ failures \in 0 .. MaxFailures
  /\ floor \in Nat /\ acked \in Nat

(* Once a load has been applied, the view never again lacks a change that   *)
(* was committed when that load began, however loads overlap and finish     *)
(* (resource-registry.ts:90-113). *)
AppliedStays == Shows(floor)

(* When an operator is told that a change was made, this process serves it, *)
(* also if the load made for it was the one not applied (service.ts). *)
AnsweredIsServed == Shows(acked)

(* While the listener is connected, a change that the view lacks is never   *)
(* forgotten: a notification is on its way, or a reload that will see it is *)
(* queued, waiting or under way (registry-listener.ts:51-57, 125-127). *)
NothingMissed ==
  (client = "up" /\ session /\ ~Shows(version)) =>
    \/ note \/ reload = "sleeping"
    \/ reload = "loading" /\ (reloadQueued \/ load[Listener].since = version)

(* After the last change and the last failure, the view becomes current and *)
(* stays so, unless the listener is stopped. *)
CatchesUp == <>[](running = "on" => Shows(version))

(* resource-registry.ts:93: "so a slow read of older data never replaces a  *)
(* newer view". *)
NeverOlder == [][view'.rows >= view.rows /\ view'.policies >= view.policies]_vars
=============================================================================
