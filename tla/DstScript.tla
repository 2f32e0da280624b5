------------------------------ MODULE DstScript ------------------------------
(***************************************************************************)
(* The script on a game server: scripts/dst.sh, which the agent's executor *)
(* runs one at a time.  A slot is a directory with a world, and two shard  *)
(* processes, Master and Caves, each in a screen session of its own.  Any  *)
(* shard may die at any moment, and any script may be killed between two   *)
(* of its steps: by ExecTimeout, or because the agent stops.               *)
(*                                                                         *)
(* Every command checks first and acts later, each look at `screen -list`  *)
(* being a step.  External are screen (a session is named, several may     *)
(* have one name, and a command sent to that name then reaches none), the  *)
(* game (a session lasts as long as its shard), git and steamcmd (they     *)
(* work or fail).  What the game logs is a choice where it is read.  The   *)
(* script's update of itself, the switch to its user and the menu are left *)
(* out.                                                                    *)
(***************************************************************************)
EXTENDS Naturals

CONSTANTS
    Slots,
    NoSlot,         \* the slot of deploy and update
    Patience,       \* bound: how often a loop looks before it gives up
    Attempts        \* bound: how often a download is tried

ASSUME ScriptAssumption ==
    /\ NoSlot \notin Slots
    /\ Patience \in Nat \ {0}
    /\ Attempts \in Nat \ {0}

VARIABLES
    up,         \* up[s][k]: sessions of shard k of slot s; 2 is two or more
    world,      \* the directory of a slot
    game,       \* the game's files
    marker,     \* .deploy_complete is there
    steamcmd,   \* steamcmd.sh is there
    leftover,   \* a steamcmd is at work whose script was killed
    cmd, slot,  \* the script that runs, or ran last
    at,         \* where it is, or how it ended
    n           \* the count of the loop it is in

host == <<up, world, game, marker, steamcmd, leftover>>
script == <<cmd, slot, at, n>>
vars == <<host, script>>

Shards == {"master", "caves"}

\* "part": git or rm did not finish; "archive": as cloned, with the saves that
\* came with it; "played": a Master was started in it.
Worlds == {"none", "part", "archive", "clean", "played"}

\* With a binary, but "part": left by a deploy that did not finish; "mixed": by
\* an update, or by a steamcmd that nobody waited for.
Games == {"none", "part", "mixed", "whole"}

SlotCommands == {"init", "start", "stop", "delete", "status"}
Commands == SlotCommands \cup {"deploy", "update"}

\* Exit status 0, exit status 2 of status, any other.
Ended == {"ok", "down", "failed"}

Places == {"check", "prepare", "download", "downloading", "mark",
           "cloning", "cleaning", "ports",
           "warming", "verifying", "awaiting", "following",
           "announcing", "waiting", "removing", "removed"}

TypeOK ==
    /\ up \in [Slots -> [Shards -> 0..2]]
    /\ world \in [Slots -> Worlds]
    /\ game \in Games
    /\ marker \in BOOLEAN
    /\ steamcmd \in BOOLEAN
    /\ leftover \in BOOLEAN
    /\ cmd \in Commands
    /\ slot \in Slots \cup {NoSlot}
    /\ at \in Places \cup Ended
    /\ n \in Nat

\* A fresh machine.
Init ==
    /\ up = [s \in Slots |-> [k \in Shards |-> 0]]
    /\ world = [s \in Slots |-> "none"]
    /\ game = "none"
    /\ marker = FALSE
    /\ steamcmd = FALSE
    /\ leftover = FALSE
    /\ cmd = "deploy" /\ slot = NoSlot /\ at = "failed" /\ n = 0

-----------------------------------------------------------------------------
(* Scripts *)

\* The executor starts a script when the one before has ended.
Begin ==
    /\ at \in Ended
    /\ \E c \in Commands :
        /\ cmd' = c
        /\ slot' \in IF c \in SlotCommands THEN Slots ELSE {NoSlot}
    /\ at' = "check"
    /\ n' = 0
    /\ UNCHANGED host

Doing(c, place) == cmd = c /\ at = place

Goto(place) == at' = place /\ n' = 0 /\ UNCHANGED <<cmd, slot>>

\* A loop looks again.
Again == n' = n + 1 /\ UNCHANGED <<cmd, slot, at>>

SetWorld(w) == world' = [world EXCEPT ![slot] = w]

-----------------------------------------------------------------------------
(* Ports: configure_cluster_ports, configure_firewall *)

SlotCount == 5
PortStep == 10

\* Between the shards; of Master and Caves towards players, Steam and the
\* authentication.
InternalBase == 10888
PublicBases == {10999, 10998, 27018, 8768, 27017, 8767}
Bases == PublicBases \cup {InternalBase}

PortOf(base, i) == base + PortStep * (i - 1)

-----------------------------------------------------------------------------
(* deploy: install_env *)

Deployed == marker /\ game # "none"

SkipDeploy ==
    /\ Doing("deploy", "check")
    /\ Deployed
    /\ Goto("ok")
    /\ UNCHANGED host

\* Mutant: a marker that is out of date stays.
KeptMarker == marker
NoMarker == FALSE

BeginDeploy ==
    /\ Doing("deploy", "check")
    /\ ~ Deployed
    /\ marker' = NoMarker
    /\ Goto("prepare")
    /\ UNCHANGED <<up, world, game, steamcmd, leftover>>

\* install_steamcmd asks for steamcmd.sh alone, and an archive that was unpacked
\* in part may have left it.
Unpacked == {steamcmd, TRUE}

\* Packages, the firewall, and steamcmd.
Prepare ==
    /\ Doing("deploy", "prepare")
    /\ \/ steamcmd' = TRUE /\ Goto("download")
       \/ steamcmd' \in Unpacked /\ Goto("failed")
    /\ UNCHANGED <<up, world, game, marker, leftover>>

\* The marker is the last thing a deploy writes.
Mark ==
    /\ Doing("deploy", "mark")
    /\ marker' = TRUE
    /\ Goto("ok")
    /\ UNCHANGED <<up, world, game, steamcmd, leftover>>

-----------------------------------------------------------------------------
(* update_dst_with_retry, for deploy and for update *)

\* What an attempt makes of the files until it is through, if anything.
Unfinished ==
    {game, "none", IF cmd = "deploy" THEN "part" ELSE "mixed"}

BeginAttempt ==
    /\ at = "download"
    /\ IF steamcmd
       THEN game' \in Unfinished /\ at' = "downloading"
       ELSE at' = "failed" /\ UNCHANGED game
    /\ UNCHANGED <<up, world, marker, steamcmd, leftover, cmd, slot, n>>

Downloaded ==
    /\ at = "downloading"
    /\ game' = "whole"
    /\ Goto(IF cmd = "deploy" THEN "mark" ELSE "ok")
    /\ UNCHANGED <<up, world, marker, steamcmd, leftover>>

AttemptFailed ==
    /\ at = "downloading"
    /\ IF n + 1 < Attempts
       THEN at' = "download" /\ n' = n + 1 /\ UNCHANGED <<cmd, slot>>
       ELSE Goto("failed")
    /\ UNCHANGED host

-----------------------------------------------------------------------------
(* update: update_server *)

\* screen -list | grep master
MasterSomewhere == \E s \in Slots : up[s]["master"] > 0

\* Up to date; or jq cannot be installed, or a Master runs.
NoUpdate ==
    /\ Doing("update", "check")
    /\ Goto("ok") \/ Goto("failed")
    /\ UNCHANGED host

\* There is a new version, or nobody can tell.
BeginUpdate ==
    /\ Doing("update", "check")
    /\ ~ MasterSomewhere
    /\ Goto("download")
    /\ UNCHANGED host

-----------------------------------------------------------------------------
(* init: init_cluster *)

Running(s) == \E k \in Shards : up[s][k] > 0

Missing == world[slot] = "none"

\* Mutant: the default world is fetched whether or not there is one.
AlwaysFetched == TRUE
ToBeFetched == Missing

BeginInit ==
    /\ Doing("init", "check")
    /\ IF Running(slot) THEN Goto("failed") /\ UNCHANGED world
       ELSE IF ToBeFetched THEN Goto("cloning") /\ SetWorld("part")
       ELSE Goto("ports") /\ UNCHANGED world
    /\ UNCHANGED <<up, game, marker, steamcmd, leftover>>

\* A clone that failed is removed.
Clone ==
    /\ Doing("init", "cloning")
    /\ \/ SetWorld("archive") /\ Goto("cleaning")
       \/ SetWorld("none") /\ Goto("failed")
    /\ UNCHANGED <<up, game, marker, steamcmd, leftover>>

\* The saves that came with the archive go.
Clean ==
    /\ Doing("init", "cleaning")
    /\ SetWorld("clean")
    /\ Goto("ports")
    /\ UNCHANGED <<up, game, marker, steamcmd, leftover>>

\* configure_cluster_ports, which fails over a file or a key that is missing,
\* and the token.
SetPorts ==
    /\ Doing("init", "ports")
    /\ Goto("ok") \/ Goto("failed")
    /\ UNCHANGED host

-----------------------------------------------------------------------------
(* start: start_server and wait_for_startup *)

Launched(k) == [up EXCEPT ![slot][k] = IF @ = 0 THEN 1 ELSE 2]

RefuseStart ==
    /\ Doing("start", "check")
    /\ \/ Missing /\ Goto("failed")
       \/ ~ Missing /\ up[slot]["master"] > 0 /\ Goto("ok")
    /\ UNCHANGED host

\* Without the game there is no directory to change to, or Master ends at once.
LaunchMaster ==
    /\ Doing("start", "check")
    /\ ~ Missing
    /\ up[slot]["master"] = 0
    /\ IF game = "none"
       THEN Goto("failed") /\ UNCHANGED <<up, world>>
       ELSE up' = Launched("master") /\ SetWorld("played") /\ Goto("warming")
    /\ UNCHANGED <<game, marker, steamcmd, leftover>>

WarmUp ==
    /\ Doing("start", "warming")
    /\ n < Patience
    /\ IF up[slot]["master"] = 0 THEN Goto("failed") ELSE Again
    /\ UNCHANGED host

LaunchCaves ==
    /\ Doing("start", "warming")
    /\ n = Patience
    /\ up' = Launched("caves")
    /\ Goto("verifying")
    /\ UNCHANGED <<world, game, marker, steamcmd, leftover>>

VerifyCaves ==
    /\ Doing("start", "verifying")
    /\ Goto(IF up[slot]["caves"] = 0 THEN "failed" ELSE "awaiting")
    /\ UNCHANGED host

\* The first line of the log, as long as Master runs.
AwaitLog ==
    /\ Doing("start", "awaiting")
    /\ \/ n < Patience /\ up[slot]["master"] = 0 /\ Goto("failed")
       \/ n < Patience /\ up[slot]["master"] > 0 /\ Again
       \/ n = Patience /\ Goto("failed")
       \/ (n = Patience \/ up[slot]["master"] > 0) /\ Goto("following")
    /\ UNCHANGED host

\* "is now connected", whichever shard wrote it, or the end of the 180 s.
FollowLog ==
    /\ Doing("start", "following")
    /\ Goto("ok") \/ Goto("failed")
    /\ UNCHANGED host

-----------------------------------------------------------------------------
(* stop and delete: stop_server, delete_server, check_status *)

Stopping(place) == cmd \in {"stop", "delete"} /\ at = place

Stopped == IF cmd = "stop" THEN "ok" ELSE "removing"

BeginStop ==
    /\ Stopping("check")
    /\ Goto(IF ~ Running(slot) THEN Stopped
            ELSE IF up[slot]["master"] > 0 THEN "announcing"
            ELSE "waiting")
    /\ UNCHANGED host

\* The countdown: a Master that is gone makes `screen -X stuff` fail, and with
\* it, under set -e, the script.  In the end both shards are told to shut down,
\* which they do when they do.
Announce ==
    /\ Stopping("announcing")
    /\ \/ n < Patience /\ up[slot]["master"] = 0 /\ Goto("failed")
       \/ n < Patience /\ up[slot]["master"] > 0 /\ Again
       \/ n = Patience /\ Goto("waiting")
    /\ UNCHANGED host

WaitForExit ==
    /\ Stopping("waiting")
    /\ ~ Running(slot)
    /\ Goto(Stopped)
    /\ UNCHANGED host

\* Mutant: retry is not counted.
NotCounted == n
Counted == n + 1

KeepWaiting ==
    /\ Stopping("waiting")
    /\ Running(slot)
    /\ n < Patience
    /\ n' = Counted
    /\ UNCHANGED <<host, cmd, slot, at>>

\* Mutant: only Caves is made to quit.
QuitCaves == [up EXCEPT ![slot]["caves"] = IF @ = 1 THEN 0 ELSE @]

\* screen -X quit ends a session whose name is its own.
QuitBoth ==
    [up EXCEPT ![slot] = [k \in Shards |-> IF @[k] = 1 THEN 0 ELSE @[k]]]

QuitSessions ==
    /\ Stopping("waiting")
    /\ Running(slot)
    /\ n = Patience
    /\ up' = QuitBoth
    /\ Goto(Stopped)
    /\ UNCHANGED <<world, game, marker, steamcmd, leftover>>

\* rm -rf takes its time.
Remove ==
    /\ Doing("delete", "removing")
    /\ SetWorld(IF Missing THEN "none" ELSE "part")
    /\ Goto("removed")
    /\ UNCHANGED <<up, game, marker, steamcmd, leftover>>

Removed ==
    /\ Doing("delete", "removed")
    /\ SetWorld("none")
    /\ Goto("ok")
    /\ UNCHANGED <<up, game, marker, steamcmd, leftover>>

\* Only Master counts.
CheckStatus ==
    /\ Doing("status", "check")
    /\ Goto(IF up[slot]["master"] > 0 THEN "ok" ELSE "down")
    /\ UNCHANGED host

-----------------------------------------------------------------------------
(* What happens to scripts and servers *)

\* The script is killed; a steamcmd it started goes on.
Kill ==
    /\ at \notin Ended
    /\ Goto("failed")
    /\ leftover' = (leftover \/ at = "downloading")
    /\ UNCHANGED <<up, world, game, marker, steamcmd>>

LeftoverEnds ==
    /\ leftover
    /\ leftover' = FALSE
    /\ game' \in {game, "none", "mixed", "whole"}
    /\ UNCHANGED <<up, world, marker, steamcmd, script>>

\* A crash, or the shutdown it was told to make.
ShardDies(s, k) ==
    /\ up[s][k] > 0
    /\ \E left \in 0..1 \cup {up[s][k]} :
        /\ IF up[s][k] = 1 THEN left = 0 ELSE left > 0
        /\ up' = [up EXCEPT ![s][k] = left]
    /\ UNCHANGED <<world, game, marker, steamcmd, leftover, script>>

ScriptStep ==
    \/ SkipDeploy \/ BeginDeploy \/ Prepare \/ Mark
    \/ BeginAttempt \/ Downloaded \/ AttemptFailed
    \/ NoUpdate \/ BeginUpdate
    \/ BeginInit \/ Clone \/ Clean \/ SetPorts
    \/ RefuseStart \/ LaunchMaster \/ WarmUp \/ LaunchCaves \/ VerifyCaves
    \/ AwaitLog \/ FollowLog
    \/ BeginStop \/ Announce \/ WaitForExit \/ KeepWaiting \/ QuitSessions
    \/ Remove \/ Removed
    \/ CheckStatus

Next ==
    \/ Begin
    \/ ScriptStep
    \/ Kill
    \/ LeftoverEnds
    \/ \E s \in Slots, k \in Shards : ShardDies(s, k)

Spec == Init /\ [][Next]_vars

\* The script runs, and git, steamcmd, sleep and `timeout 180 tail` come back.
\* No shard ever needs to.
FairSpec == Spec /\ WF_vars(ScriptStep)

-----------------------------------------------------------------------------
(* Properties *)

\* A stop that reports success leaves no Master, and no Caves it could have
\* reached: a lone session is gone, whether or not the game obeyed.
StopStops ==
    [][/\ \E place \in {"check", "announcing", "waiting"} : Stopping(place)
       /\ at' \in {"ok", "removing"}
       => up'[slot]["master"] = 0 /\ up'[slot]["caves"] # 1]_vars

\* A world that was played in is lost only to a delete of its slot, and never
\* under a Master that runs: not to an init that failed, was killed or comes
\* again.
PlayedWorldsAreSafe ==
    [][\A s \in Slots : world[s] = "played" /\ world'[s] # "played" =>
        cmd = "delete" /\ slot = s /\ up[s]["master"] = 0]_vars

\* What a deploy that did not finish left behind is never taken for a deployed
\* game, wherever it was cut off and whatever was there before it.
MarkerVouches == marker => game # "part"

\* Every script ends, although a server may ignore its shutdown, never log a
\* line or die at any moment.
EveryScriptEnds == at \notin Ended ~> at \in Ended

\* "Stop all servers that run, then update": update asks that of the user
\* when it refuses, so no shard runs when it goes ahead.
UpdateOnlyWhenAllStopped ==
    [][Doing("update", "check") /\ at' = "download" =>
        \A s \in Slots : ~ Running(s)]_vars

\* "Cluster_N is stopped!": stop says so when it has waited or lost patience, so
\* no shard of the slot runs then.
StopMeansStopped ==
    [][Doing("stop", "waiting") /\ at' = "ok" => ~ Running(slot)']_vars
=============================================================================
