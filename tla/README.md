# Game panel: TLA+ specifications, model checking and proofs

The program is the back end of a panel for Don't Starve Together servers. A
*panel* process (`cmd/server`) serves an HTTP API, keeps its records in a
database and its short-lived state in Redis. On every game server an *agent*
process (`cmd/agent`) dials the panel over a web socket, receives commands and
runs `scripts/dst.sh`. This directory holds TLA+ models of its parts, the TLC
instances that check them, and proofs checked by TLAPS.

- [Inventory](#inventory): the system's parts, and where they are hard
- [Modules](#modules): which module models what, and how it corresponds to the code
- [Runs](#runs): what each run checks, its bounds, and why they are enough
- [Fairness](#fairness)
- [Proofs](#proofs): what holds for every value of the constants
- [Findings](#findings)
- [Behaviour worth knowing](#behaviour-worth-knowing)
- [What is not modelled](#what-is-not-modelled)
- [Plan](#plan)

To run anything: `tlc -config AgentSystem.cfg MCAgentSystem.tla`,
`tlapm AgentHubProofs.tla`. `PROJECT.json` lists runs, theorems, the source
lines of each definition, the hazards, and for every property a *mutant*: a
plausible bug in a mapped definition, written next to it in the module, under
which the property fails.

## Inventory

Paths are relative to the repository. "Hard" is what interleaves, fails or
races; the list of hazards with their lines is in `PROJECT.json`.

| Part | State | Operations | Hard | What makes it correct |
|---|---|---|---|---|
| Agent hub, `internal/agent_manager` | `Hub.conns` (server to agent), per agent `pending` ids and `closed`, one socket per connection | `ServeWS`, `Register`, `Unregister`, `Disconnect`, `Send`, `Finish`, the four callbacks | two kinds of locks never held together; a goroutine per connection, per command, per deletion; reconnections overlap; deletion while an agent connects | one final callback per accepted command, none lost, none after an error; no agent of a deleted server is served; an old connection does not remove the new one |
| Agent process, `internal/agent_client`, `cmd/agent` | the session, one goroutine per command, `Executor.mu` | dial and redial, read, heartbeat, acknowledge, execute, report | jobs outlive their session; a write fails at any point; the process is killed | one script at a time; replies go out on the session the command came on; a failed write ends the session; what is reported is what happened |
| Protocol, `internal/protocol` | none | ack, log, result, ping, command | lost or late messages | covered with the two parts above |
| Server, save and task records, `internal/service/{server,dst,task}`, `internal/repository` | tables `servers`, `dst`, `tasks` | create, update, delete, read | several statements per request; concurrent requests; lost confirmations; transactions | ownership; a task with every server; answers that were right; no save without its server (see Findings) |
| Accounts and sessions, `internal/service/auth`, `repository/cache/auth_cache.go`, `platform/jwt`, `middleware/auth.go` | user rows with `token_version`, the blacklist and reset tokens in Redis, signed tokens | register, login by password or SMS, authenticate, refresh, logout, verify reset code, reset password | checks and writes in different stores; double use of a token; expiry | a refresh token is used once; logout and reset are final; a reset token works once |
| SMS codes and quotas, `internal/service/sms`, `repository/cache/sms_*.go` | four sorted sets per request, one code per phone | send, verify | three steps with a way back; unknown delivery; windows | quotas hold for what was sent; a code works once and for three tries |
| Captcha, `internal/service/captcha`, `platform/captcha` | an answer per id in Redis | generate, verify | many requests with one captcha; expiry | an answer lets one request through |
| Rate limiter, `platform/redis/limiter.go`, `middleware/ratelimit.go` | one sorted set in Redis: the log of the last window | allow | every panel's own clock scores and removes; the key expires by Redis's clock, in whole seconds; replies that are lost | no more than the limit in any window, but for what the clocks differ |
| `scripts/dst.sh` | sessions of two shards per slot; the world's directory, the game's files, the deploy marker | deploy, update, init, start, stop, delete, status | shards die and scripts are killed between any two steps; checks are made first and acted on later; downloads fail halfway | half a deployment is never taken for a whole one; stop stops; a world is lost only to delete; every script ends |
| Start-up, routing, configuration, logging, encryption | none that changes | | | |

How they interact: HTTP handlers call services; services call repositories
(database), caches (Redis) and, for a deletion, `Hub.Disconnect`. `ServeWS`
asks the server repository twice (before the upgrade and after `Register`).
The hub calls the agent service back (`OnAck`, `OnLog`, `OnResult`,
`OnInterrupted`); these are where a later layer would drive tasks. At this
commit nothing in the repository calls `Deploy`, `Start` and their like, and
nothing executes a task: the agent service is modelled as its interface allows
it to be used. The agent's executor runs `dst.sh` one script at a time and kills
it after `ExecTimeout`; to `AgentClient` a script is an exit status, to
`DstScript` the executor is what begins and kills scripts. Every route but the
agents' passes the rate limiter, whose refusal, like a wrong captcha, ends a
request before any of its effects.

## Modules

| Module | Models | Extends or instantiates |
|---|---|---|
| `AgentHub` | the hub, `ServeWS`, the service's sends and callbacks, deletion of a server | `CommandContract` (as the specification it implements) |
| `CommandContract` | what the agent service promises its callers | |
| `AgentHubProofs` | theorems about `AgentHub` | `AgentHub`, `TLAPS` |
| `AgentClient` | the agent process | |
| `AgentSystem` | panel and agent joined by connections | `AgentClient`, `AgentHub` |
| `AgentSystemProofs` | theorems about `AgentSystem` | `AgentSystem`, `AgentHubProofs`, `TLAPS` |
| `ServerRegistry` | records of servers, saves and tasks | |
| `ServerRegistryProofs` | theorems about `ServerRegistry` | `ServerRegistry`, `TLAPS` |
| `AuthSession` | accounts and sessions | |
| `AuthSessionProofs` | theorems about `AuthSession` | `AuthSession`, `TLAPS` |
| `SmsCode` | SMS codes, their quotas, the captcha before them | |
| `SmsCodeProofs` | theorems about `SmsCode` | `SmsCode`, `TLAPS` |
| `RateLimiter` | the rate limit and its script in Redis | |
| `RateLimiterProofs` | theorems about `RateLimiter` | `RateLimiter`, `TLAPS` |
| `DstScript` | `dst.sh` on a game server | |
| `DstScriptProofs` | theorems about `DstScript` | `DstScript`, `TLAPS` |
| `MC*` | instances for TLC: constants, symmetry, views | the module named |

**AgentHub.** `h.mu` and `agent.mu` are never held together, so each critical
section is one action and each gap between two is a point where other
goroutines run. A `ServeWS` call moves `hpc` through its steps: `Authenticate`,
`Register` (the section under `h.mu`; the agent it replaces becomes this
goroutine's `victim`), `CloseAgent` and `Interrupt` (the two halves of
`closeAgent`), `RecheckOk`/`RecheckFail`, `ReadMessage`, `HandleAccept`,
`FinishLookup`, `FinishLocked`, `Report`, `ReadFail`, and the deferred
`Unregister` and `HandlerReturn`. A send is `SendLookup` (under the read lock)
and then `SendRefused`, `SendWritten` or `SendFailed` (under `agent.mu`, with
the write inside). A deletion is `DeleteRow` (which may lose its confirmation
and then stops there), `Disconnect`, the same `closeAgent`, `DeleteReturn`.
`LinkLost` is the environment: the peer left, the 90 s of `readTimeout` passed,
or a frame could not be decoded. `outcome` is a history of final callbacks.
`ReadMessage` in this module lets an agent send anything about any command
whose send has begun; `AgentSystem` restricts it to what the real agent sends.

**CommandContract** knows no connection and no lock: a call fails and nothing
follows, or is accepted and at most one final callback follows; `interrupted`
only if the link broke; and a command whose link broke is settled.
`AgentHub!KeepsContract` maps a looked-up but unwritten send to "new", and to
`broken` the sent commands whose socket is no longer up.

**AgentClient.** One session at a time in `Client.Start`; a goroutine per
command (`job`), which survives its session and writes on that session's
socket only; `lock` is `Executor.mu`, which is only ever tried. `"mute"` is a
socket on which no write succeeds any more although reading still does; a
failed acknowledgement, log line or result closes it (`HangUp`), a failed
refusal does not. `ScriptExit` stands for all returns of `Execute` after the
lock: a status, a script that cannot be started, one killed after
`ExecTimeout`. `Restart` kills the process and starts it with nothing left.

**AgentSystem** joins both: the k-th dial is the k-th `ServeWS` call;
`in`/`out` are the two directions of a connection, in order. Either side may
find the connection gone first; what is then under way is lost. One server is
enough: an agent belongs to one server, and the hub keeps servers apart by the
key of `Hub.conns`, which `AgentHub` has for any number of servers.

**ServerRegistry.** The database runs one statement at a time; each statement
of a request is an action, and any other request may run in between. A failed
statement, and one that took effect but whose confirmation was lost, end a
request with an error. `Recheck` is the read with which an `UPDATE` or `DELETE`
that touched no row finds its answer. Transactions are taken both as SQLite has
them (others read only) and as MySQL does (others write other rows); a statement
about a row that is inserted but not committed waits. Ids are auto-incremented
and the handlers take any positive number, so that a request may name a row long
before it is there: a `DELETE` can run before a creation commits, and the read
that follows it after. `seen` is a history of what was so of the row a request
is about: whether it was there, read as asked, or was in conflict.

**AuthSession.** Each statement to the user table or to Redis is an action.
A pair of tokens is named by the request that signed it and carries the
`token_version` it was signed with and, as history, its `root`: the password or
version the session goes back to over any number of refreshes. A password is
named by the version it came with, because `UpdatePassword` changes both in one
statement. `late` records, when a request begins, why it should be refused: its
token was given to a `Logout` that has answered, or its session or password is
from before a reset that took effect. Tokens expire between any two steps;
a key in the blacklist may go once its token has expired. Accounts and
tokens may exist from before (`Past`).

**SmsCode.** The Lua scripts are atomic in Redis and are one action each.
`Reserve` counts and books all four quotas or refuses; `SetCode` stores the
code, or fails without saying whether it did; `Release` gives the booking back,
or fails and does not; `SendSMS` hands the message to the provider, or ends
without anyone knowing. Each script puts a send into all four sorted sets or
takes it out of all of them, so one set `booked` with scores `at` is enough;
windows are counted from the scores as the scripts do. Time is counted in
ticks of Redis's clock. Codes are random, so a send also stands for its code.
One captcha stands for all, since the store keeps them apart by their ids: it is
made by `Generate`, may expire, and whichever request verifies it first, with the
right answer or a wrong one, takes it out of Redis. A request that brings the
right answer and finds it there begins as a send.

**RateLimiter.** `Allow` is one run of the script with what `Allow` and the
middleware make of its answer: it removes what is too old, counts, and adds or
refuses, all by the time `t` that the request brought from its panel's clock.
`t` is up to `Ahead` later and up to `Behind` earlier than true time, which
stands for clocks that are off or set back and for the time a request was on its
way. Without an answer a request is refused, counted or not. `Tick` is Redis's
clock and ends the key. `admitted` is the history that the property counts.

**DstScript.** The host is `up` (the screen sessions of each slot and shard),
`world` (the directory of a slot), `game` (the files of the game), `marker`
(`.deploy_complete`) and `steamcmd`; the script is a command, the place it has
come to and the count of the loop it is in. Every look at `screen -list` and
every change of files is a step, and `Kill` may fall between any two.

| Actions | Code in `dst.sh` |
|---|---|
| `SkipDeploy`, `BeginDeploy`, `Prepare`, `Mark` | `install_env` with `install_steamcmd` |
| `BeginAttempt`, `Downloaded`, `AttemptFailed` | `update_dst_with_retry` |
| `NoUpdate`, `BeginUpdate` | `update_server` |
| `BeginInit`, `Clone`, `Clean`, `SetPorts`; `PortOf` | `init_cluster`, `configure_cluster_ports` |
| `RefuseStart`, `LaunchMaster`, `WarmUp`, `LaunchCaves`, `VerifyCaves`, `AwaitLog`, `FollowLog` | `start_server`, `wait_for_startup` |
| `BeginStop`, `Announce`, `WaitForExit`, `KeepWaiting`, `QuitSessions` | `stop_server` |
| `Remove`, `Removed` | `delete_server` |
| `CheckStatus` | `check_status` |
| `Begin`, `Kill` | `Executor.Execute` of the agent |
| `LeftoverEnds`, `ShardDies` | the environment: a steamcmd that outlived its script, a shard that ends |

Files that are whole are told from files of an unfinished deploy (`"part"`) and
of an unfinished update (`"mixed"`), a directory that is being cloned or removed
from one as it came from the archive, one without saves and one that was played
in. Two sessions of one name matter because `screen -X` then reaches neither.

## Runs

Every run but `registry_orphan`, `dst_update` and `dst_stop` passes; deadlock is checked in
all of them (finished states step to themselves explicitly).

| Run | Instance | Checks |
|---|---|---|
| `hub_commands` | 1 server, 2 connections, 2 commands | types; `AtMostOneOutcome`, `CommandNeverLost`, `FailedSendStaysSilent`, `NoStrandedCommand`, `KeepsContract` |
| `hub_liveness` | 1 server, 2 connections, 1 command, fairness | `NoGhostOnline`, `DeletedServerHasNoLiveAgent`, `OnlyOwnerUnregisters`; `SettlesBrokenCommands` (the contract with its promise), `DeletedGoesOffline` |
| `system_safety` | 2 sessions, 2 commands or a deletion | types; `OutcomeIsGenuine`, `AckBeforeResult`, `NoSilence`, `RepliesStayOnTheirLink` |
| `system_liveness` | 2 sessions, 1 command or a deletion, 1 restart, fairness | `EveryCommandSettles`, `EveryJobEnds`, `DeletedAgentIsCutOff`; `OutcomeIsGenuine` across the restart |
| `registry` | 2 users, 2 addresses, 1 slot, 4 requests | types; `EveryServerHasItsTask`, `SavesStayWithTheirOwner`, `AnswersWereRight`, `OnlyOwnersChangeRows` |
| `registry_orphan` | 2 users, 3 requests | `NoOrphanSave`: violated (see Findings) |
| `sessions` | 2 users, 2 earlier and 3 overlapping requests | types; `OneUsePerRefreshToken`, `LogoutIsFinal`, `ResetEndsSessions`, `OneResetPerVersion` |
| `sms_codes` | 3 sends, 1 captcha, 2 phones, 2 addresses, 4 points of time | types; `QuotaHolds`, `CodeWorksOnce`, `ThreeTries`, `CaptchaWorksOnce` |
| `rate_limit` | 5 requests, a limit of 2 in 7 ticks, 4 ticks to the second, clocks one off either way, 11 points of time | `LimitHolds` |
| `dst_script` | 2 slots, any sequence of scripts, fairness | `MarkerVouches`, `StopStops`, `PlayedWorldsAreSafe`, `EveryScriptEnds` |
| `dst_update` | 2 slots | `UpdateOnlyWhenAllStopped`: violated (see Findings) |
| `dst_stop` | 2 slots | `StopMeansStopped`: violated (see Findings) |

**Bounds.** Two connections are what one reconnection needs: an old handler
that leaves late beside a new one, and a late reply that meets the new pending
set; the properties of the hub that speak of single commands and connections are
proved for any number besides. A second command gives the executor somebody to
refuse, and a pending set and a list of interruptions more than one member. Four
requests allow two creations that compete with an update or deletion, or a whole
chain create, look up, delete, insert. The run leaves out ids of the wrong kind (a
save named by a number that only a server has: `RightKind`), which would only be
missing rows once more, and saves named before they are asked for. Three more requests over an existing
session and reset token allow two refreshes of one token and a logout, or a
refresh, a login and a reset that overtakes both. Three sends are two that fill a
quota and one that must be refused; quotas of one suffice for each of the four to
be the one that refuses, since two phones and two addresses can be combined
freely, and a minute of two ticks in a day of three crosses midnight. Five
requests fill a limit of two, are refused, and fill it again once the window has
moved on; a window of a second and three quarters expires with the key after two
seconds, so that rounding matters, and a tick either way puts scores and true
time out of order. The number of scripts is not bounded: the state of a game
server is finite. A second slot shows what the commands of one do to the other,
two attempts are one that is repeated, and `Patience` of two lets each loop look,
look again and give up; the code's 6, 10 and 15 looks differ in nothing but
their number.

`Mixed` is FALSE in the runs of panel and agent: a behaviour has commands or a
deletion, not both. What commands and a deletion do to each other is the hub's
affair and is in `hub_commands` and `hub_liveness`; the theorems about safety hold
whether or not the two mix.

`MaxRestarts`, `Mixed`, `Mortal`, `Horizon`, `Patience` and `Attempts` are
bounds and named so in the modules (the last two are parameters of the code as
well); all other growth is bounded by the numbers of connections, commands,
requests and sends.

**Symmetry and views.** Symmetry sets contain only values no definition
distinguishes, and are not used where liveness is checked. There
`MCAgentSystem!FirstBeforeOthers` says which of the connections is dialled first:
they are alike and a connection that was dialled stays so, so that the constraint
keeps one of two mirror images of each behaviour and cuts none short.
`MCAgentSystem!View` identifies states that differ only in replies on a
connection whose panel side is lost or closed: `ReadReply` needs the socket up
and no socket comes up again, so nobody will read them. `NoSilence` is satisfied
by the state of such a socket alone; `RepliesStayOnTheirLink` is checked for
every reply that is written while the panel can still read it. `MCSmsCode!View`
forgets the tries against a code that is gone for good, and who passed with a
captcha that is gone, once the properties that count them have been evaluated:
whether they hold is part of the view.

## Fairness

`AgentHub!Fairness` asks only that goroutines which can run do run: handlers,
whoever is in `closeAgent`, deletions past their first statement, and senders.
This is what the Go scheduler gives, as neither lock is held across anything
that waits for a peer without a deadline (a write has 5 s). Nothing is assumed
of agents, of the network, of those who send commands or delete servers.

`AgentSystem!Fairness` adds: `ConnectTimeout` ends every dial; `ExecTimeout`
ends every script; a connection one side has closed ends for the other
(by the close, by `readTimeout`, by a failed heartbeat); what is under way on
a connection that stays up arrives. A connection may be lost at any time, and a
redial is not assumed: no liveness property here needs one.

`DstScript!FairSpec` asks that a script which can take a step takes one: the
shell runs, and git, steamcmd, `sleep` and `timeout 180 tail` come back. Nothing is
assumed of the shards, which may run for ever, ignore their shutdown or die.
`ExecTimeout` is not needed: `EveryScriptEnds` holds if no script is ever
killed.

`ServerRegistry`, `AuthSession`, `SmsCode` and `RateLimiter` have safety
properties only: a request ends when its statements do, and nothing waits for
another request.

## Proofs

Seven modules hold proofs. Every invariant and every action property without
fairness that a passing run checks is a theorem. In each module the theorems
follow from invariants that are inductive, in lemmas of one kind: `Init` implies
it, each action keeps it, it implies the property.

### The hub

`AgentHubProofs` proves, for any set of servers, connections and commands:

| Theorem | States |
|---|---|
| `TypeCorrect` | `[]TypeOK`, including that no goroutine goes on with a nil agent |
| `OutcomeOnce` | `[]AtMostOneOutcome` |
| `NeverLost` | `[]CommandNeverLost` |
| `FailedSilent` | `[]FailedSendStaysSilent` |
| `NothingStranded` | `[]NoStrandedCommand` |
| `OnlineIsServed` | `[]NoGhostOnline` |
| `DeletedIsCutOff` | `[]DeletedServerHasNoLiveAgent` |
| `OwnerUnregisters` | the action property `OnlyOwnerUnregisters` |
| `HubKeepsContract` | `Spec => KeepsContract`: the hub implements `CommandContract` |

The only assumption is `HubAssumption`: connections and commands each name a
server, `NoConn` is no connection, and connections are no servers (both name
goroutines that may run `closeAgent`).

None of the properties is inductive. Take `CommandNeverLost`: a command could
leave the pending set of an agent that `closeAgent` has already emptied. That
this cannot happen needs `NoStrandedCommand`, which needs that an agent out of
the map is either closed or some goroutine's victim, which needs that no agent
is the victim of two. The inductive invariant is

    Inv == Links /\ Custody /\ Told /\ CommandNeverLost      (with TypeOK)

- `Links` is about agents and goroutines: connections not yet registered are
  known to nobody; the map holds open agents of running handlers; a victim is
  open, out of the map and one goroutine's only; what was registered is still
  registered, or a victim, or closed with its socket; what a sender or `Finish`
  looked up was registered once; a deletion takes the row before it disconnects.
- `Custody` is about commands: a command is pending, in a list of `closeAgent`,
  or with a reporting handler, one of them only, and while it is, it has no
  final callback behind it. A list excludes a pending set because the one needs
  a closed agent and the other an open one, and `chosen` names it.
- `Told` bounds the history of each command.

Each action of `Next` is one step of `NextInv`; `KeptStep` and `KeptFrame` are
the lemmas most actions need. For `HubKeepsContract` every action is mapped to
`Send`, `Fail`, `Break` or `Settle` of the contract or to a stutter, with the
lemma `BrokenGrows` that a socket that is gone stays gone.

### Panel and agent

`AgentSystemProofs` proves, for any number of sessions, commands and restarts,
and whether or not commands and a deletion mix:

| Theorem | States |
|---|---|
| `SystemTypes` | `[]TypeOK`, for both sides |
| `SystemRunsTheHub` | `Spec => HubProofs!Spec`: the panel's half is `AgentHub` with one server |
| `SystemKeepsContract` | `Spec => HubProofs!KeepsContract`, so the service keeps its contract with this agent too |
| `RepliesKeepTheirLink` | `[]RepliesStayOnTheirLink` |
| `OutcomesAreGenuine` | `[]OutcomeIsGenuine` |
| `AcksComeFirst` | `[]AckBeforeResult` |
| `NeverSilent` | `[]NoSilence` |

`AgentHubProofs` is an instance here, with one server, and `HubSteps` shows that
every step of the two sides together is a step of the hub or leaves its state
alone: the agent may send only what `AgentHub` lets any agent send. With this the
hub's theorems and its inductive invariant hold of the whole (`HubInvariance`)
and need no second proof. `Hub` of `AgentSystem` and `HubProofs` are two instances
with the same state, which `SameState`, `SameHandler`, `SameClosers` and
`SameReading` say once. What is left is about what is under way between the two
sides, which none of the properties mentions and all depend on:

- `Jobs`: a command has a session from its receipt on, which was up then, and a
  verdict exactly when its script is behind it.
- `Flow`: a command is at most once among those under way, on the connection
  `Send` looked up and before its job begins; a reply is on the connection its
  command came on. A job that outlives its session, or a second session, cannot
  carry anything across; `RepliesStayOnTheirLink` follows at once.
- `Truth`: each reply under way, in the handler's hands or told is what happened
  to its command. A job that has a verdict goes nowhere else, so that a reply
  that was true when it was written is so when it is read.
- `AckFirst`: ahead of every result, on the way or in the handler's hands, is the
  acknowledgement, unless it was told already; and of a job that is still to
  report, on a session that is up, so is the acknowledgement ahead of what is to
  come. A failed acknowledgement leaves the session not up, so that its job is not one of
  these: here the proof uses that `client.go` hangs up.
- `Heard`: `NoSilence` with answers only, and that the agent a handler looked up
  for a reply is its own, unless its connection is over or about to be. `Finish`
  looks up by server: for a connection that was replaced it finds another agent
  and drops the reply, which is right only because whoever replaced it, or the
  deletion, is about to interrupt the command. That the agent that was looked up
  has the command pending comes from `Links` and `Custody` of the hub.

The assumptions are `ClientAssumption` and `SystemAssumption` (the server is no
connection, as in the hub).

### Server, save and task records

`ServerRegistryProofs` proves, for any number of users, addresses, slots and
requests, `RegistryTypes`, `ServersHaveTasks`, `SavesKeepTheirOwner`,
`AnswersAreRight` and the action property `OwnersChangeRows`. A request learns
something in one statement and acts on it in another, and the proofs say what of
it the others cannot undo:

- `InPlace`: a request is at a statement of its own operation.
- `Keyed`: a row carries the request that inserted it and that request's user; a
  save that is looked up but not yet inserted has the user of the server's
  *creation*, which stays true when the server is deleted in between. So
  `SavesStayWithTheirOwner` holds although `NoOrphanSave` does not.
- `Noted`: what is so now has been noted, and a `DELETE` or `UPDATE` that affected
  no row has noted why: the server was not there, or it had saves, or it read as
  asked. Without this a save could be deleted before `Recheck`, and "conflict"
  would be true at no moment that the induction remembers.
- If the server was not there and `Recheck` finds it, it came into being between
  the two statements: "not found" and "found" have both been noted
  (`CameBetween`). `AnswersWereRight` excepts exactly these requests, since what
  the code answers them was never so (see below, Behaviour worth knowing).
- `ServersHaveTasks` needs no invariant besides: a commit is one step.

`NoRowAssumption` says that the value for "no row" is no row and no request. The
proof of the types did not go through at first: `Reason` was a `CASE` whose
guards overlapped, which the logic leaves open although TLC takes the first. It
now asks in the order of the code.

### Accounts and sessions

`AuthSessionProofs` proves, for any number of users and requests, `SessionTypes`,
`RefreshTokensWorkOnce`, `LogoutStaysFinal`, `ResetsEndSessions` and
`ResetsHappenOnce`. They rest on what no other request can undo: versions only
grow, a pair never changes, a token that is listed or expired stays one or the
other, an answer is given once (`Lasting`, `SuccessLasts`). `Basics` are the types
with the place of each request, that a token in use was handed out, and that who
has a session has a pair. Each property then has an invariant of its own:

- `Spent`: the token of a refresh that succeeded is listed or expired. A second
  one must get its `SETNX` through, and finds the key or the token's end.
- `Revoked`: so are both tokens of a logout that was confirmed, which needs it of
  the first when the second is about to be listed; and whoever begins with such a
  token and gets past the blacklist does so only because the token has expired.
- `Stale`: a pair's version is its root, so that a session is out of date exactly
  when its token is, over any number of refreshes; who began out of date stays so
  and never comes to the statement that would spend a token. That
  `RefreshToken` and `Authenticate` read the user only after they began is what
  makes this work.
- `Advanced`: a reset that took effect went by a version that is the user's no
  more. `UPDATE ... WHERE token_version = ?` lets a second one through only if the
  version it read is the user's still.

`NoneAssumption` says that "none" is no token and no pair.

### The rate limit

`RateLimiterProofs` proves `LimiterTypes` and `LimitAlwaysHolds` for every finite
set of requests and every limit, window, second and bound on clocks
(`LimiterAssumption`). That the sorted set has at most `Limit` members
(`LogIsBounded`) is inductive but says nothing of the requests that were removed
from it. `PassedIsLogged` closes the gap: a request that passed has a score at
most `Behind` before its time, the key lives on until its window is over
(`LifetimeCovers`: `EXPIRE` rounds up), and as long as no clock can have removed
it, that is until `Window - Ahead - Behind` has passed (`FreshSurvives`), it is in
the set. Those that passed within such a stretch are thus a subset of the set
(`IInvLimits`).

### The script

`DstScriptProofs` proves, for any number of slots and any `Patience` and
`Attempts` (`ScriptAssumption`), `ScriptTypes`, `MarkerAlwaysVouches`,
`StopAlwaysStops`, `PlayedWorldsStaySafe` and, apart from the state machine,
`PortsDiffer`: the ports `configure_cluster_ports` gives the shards of five slots
all differ. The invariant says what a script relies on between two of its steps:

- `Unmarked` and `Whole`: a deploy past its check has removed the marker, and
  writes it only over files it has brought to an end. Without it `MarkerVouches`
  would fail where a second deploy is cut off after a first had succeeded.
- `Fetching`: an init that clones or cleans works on a directory that was not
  there when it began.
- `OneMaster`: a slot never has two sessions of its Master, since `start` asks for
  one before it launches one; this is why a quit addressed to the name ends it
  (`Emptied`). It is false of Caves, and `StopStops` has its exception for it.

`StopStep` and `WorldStep` derive the two action properties; `StopsOnly` and
`WritesOnly` say which actions can be meant at all.

### SMS codes

`SmsCodeProofs` proves `SmsTypes`, `QuotaAlwaysHolds`, `CodesWorkOnce`,
`AtMostThreeTries` and `CaptchasWorkOnce` for any number of sends, phones and
addresses and any quotas (`SmsAssumption`).

- `CodeInv`: a send that has still to store its code has not been tried by anyone
  (`FreshSends`), and the count in Redis is all the tries a stored code had
  (`CountsAreTrue`).
- `QuotaInv`: what was handed to the provider is booked and is past the point
  where it could be given back (`Bookings`); and what is booked for a phone or an
  address is within its quotas in every minute and on every day, counted at *any*
  time (`Quotas`). `Reserve` counts at the present time only; the lemma
  `OneMoreWithin` shows that this is enough because a booking is never earlier
  than those before it, so that every other window that holds the new one holds
  no more than the present one does.
- `CaptchaInv`: nobody has passed while the answer is still there.

### What is only model-checked

All liveness (`SettlesBrokenCommands`, `DeletedGoesOffline`,
`EveryCommandSettles`, `EveryJobEnds`, `DeletedAgentIsCutOff`,
`EveryScriptEnds`), because fairness and ENABLED are beyond the prover. Of these,
`SettlesBrokenCommands` has its safety half proved: it is `KeepsContract` with a
promise added. The three properties under Findings are false of the code and
nothing is proved in their place. No module uses recursion over data.

## Findings

`registry_orphan`: `service/dst/service.go` `Create` looks the server up
(line 47) and inserts the save in a later statement (line 74) with nothing
around the two, and `dst.server_id` has no foreign key. A `Delete` of the
server in between sees no save and succeeds; then the save is inserted. The
code says elsewhere that this must not be: "服务器下仍有存档，请先删除存档"
(the server still has saves, delete them first; `service/server/service.go`
line 185). Ownership is not affected: `SavesStayWithTheirOwner` holds in
`registry`.

`dst_update`: `update` refuses with "请先停止所有运行中的服务器再执行更新" (stop
all servers that run, then update; `scripts/dst.sh` line 694), but what it looks
for (line 693, and 678) is a session named `master`. A Caves that outlived its
Master is not seen, and the files of the game are replaced under it. `stop` and
`init` do look for both shards.

`dst_stop`: `stop` ends with "Cluster_N 已停止！" (has stopped; `scripts/dst.sh` line
648) and status 0 without another look after its quits. `start` asks for the
Master only (line 565), so that after a Master that died alone it launches a second
Caves under the first one's name (line 597); no `screen -X` reaches either by that
name, and `stop` says that the slot has stopped while both run. `StopStops` states
what does hold: a session that has its name to itself is gone.

## Behaviour worth knowing

Not contradicted by anything the repository says, but visible in the models:

- `Send`'s id may reach its caller after `OnResult` for it has run.
- An accepting acknowledgement is not compared with the pending set
  (`service.go` line 88), so `OnAck` may come after `OnInterrupted`.
- A write that fails may have reached the agent, which then runs a command
  whose sender was told that it failed; `Send`'s error text says so.
- Commands buffered on a connection may still be run by the agent after the
  panel reported them interrupted.
- A command sent after a deletion has begun can reach an agent between its
  `Register` and its second `CheckServer`.
- A `DELETE` that took effect but whose confirmation was lost returns an error
  before `Disconnect`, and a second try is answered 404: the agent is served
  until its link breaks. It cannot come back after that.
- `agent.closed` is what keeps a send from putting an id into a pending set
  nobody will settle; the closed socket alone would only make that write fail.
- A refusal (`nack`) that cannot be written is ignored by the agent
  (`client.go` line 109); the panel learns of it when the next heartbeat fails.
- A refresh that overlaps a logout may answer after it; the tokens it signed
  are valid. Logout is about the two tokens it was given.
- A refresh whose `SETNX` took effect but whose reply was lost has spent the
  refresh token.
- A key in the blacklist lives as long as its token. A request that checked the
  token's time just before it ended may find the key gone; the properties of
  `AuthSession` except exactly this (`\in expired`).
- A stored code can belong to a request that was answered with an error: the
  store may succeed without a reply. It replaces the code before it.

- An update that fails leaves the game in part replaced and the marker in place,
  so that `deploy` skips what is there; `MarkerVouches` claims no more than that
  the files were once whole. Another `update` downloads again.
- A `Delete` that names an id before its row exists, and whose `DELETE` runs before
  the creation commits, finds the server afterwards
  (`repository/server/repository.go` line 117) and is answered 409, "the server
  still has saves", although it never had one. An `Update` in the same place
  (line 92) is answered 200 although it wrote nothing.
- `start` answers 0 where Master runs and Caves does not, and `status` calls this
  running; with Caves alone it calls the slot stopped.
- `start` asks for the directory only: one that an `init` left half-made starts
  with the ports and the saves of the archive.
- A Master that dies during the countdown of `stop` makes `screen -X stuff` fail,
  and `set -e` ends the script before it has asked Caves to shut down.
- `install_steamcmd` asks for `steamcmd.sh` only: an archive that was unpacked in
  part is not unpacked again.
- A steamcmd whose script was killed goes on; the next deploy works beside it.
- The rate limiter refuses when Redis does not answer, and a request refused
  that way may have been counted.
- Two panels whose clocks differ let through up to the limit in a stretch that is
  shorter than the window by as much, and then again.

## What is not modelled

- Redis is taken to keep its keys until they expire, and its scripts to run
  once per call (the client library's retries are left out).
- Passwords, hashing, signatures and tokens are symbols: a token cannot be
  forged, an SMS code not be guessed except as a try that turns out right.
- The limiter and, in front of registration and login, the captcha and the SMS
  code end a request as any early error does, and are not composed with the
  services behind them.
- Of `dst.sh`: its update of itself and the switch to its user, both of which
  come before the command and change none of the files the models are about; and
  the menu, which the panel does not reach. From the menu a second script could
  run beside one of the agent's; the module takes scripts one at a time, as the
  executor does.
- Survivors of a killed script other than steamcmd: a `git`, an `rm`, or the
  script that was re-run under its user, which goes on until its next line of
  output finds the pipe closed. They are a hazard of their own kind (a second
  script at work) that the code does nothing about; what a steamcmd that survives
  does to the game is in the model, but no property claims that it does no harm.
- Packages, the firewall, ports in files and mods: they end well or not.
- A script stalled because a line of its output was longer than the executor's
  1 MiB buffer is a hazard listed in `PROJECT.json` without a property; such a
  command ends with `ExecTimeout`.
- The identity file: `identity.go` writes it in place and once, so that a crash
  during that write leaves one that cannot be read; only a person can mend that.
- The executor's mutex has no property of its own in the composed system: that
  one script runs at a time restates `TryLock`.
- Users that are disabled or deleted: the status is checked in the code, but
  nothing in it changes it.
- Lists, single reads, profiles, configuration, encryption of credentials,
  logging, routing, start-up: no state that the properties are about. On
  shutdown the panel does not close web sockets it has taken over; to an agent
  that is a lost link.

## Plan

Done: `AgentHub` with `CommandContract`, `AgentClient`, `AgentSystem`,
`ServerRegistry`, `AuthSession`, `SmsCode` with the captcha, `RateLimiter`,
`DstScript`, and a module of proofs for each component that runs.
Left, in this order:

1. The parts of the liveness arguments that are safety: that a goroutine which
   owes a callback can always take its next step, stated as an invariant for
   `closeAgent` and for `Finish`; that a script's loop counts down.
2. What a person reads from two theorems at once, such as that a command has one
   outcome and that it is the agent's, stated as a refinement: `AgentSystem`
   against a contract that knows the script's result.
3. Abstract specifications of the registry (rows that change at one moment per
   request) and of sessions (a session that is open or closed), with the present
   modules shown to implement them.
