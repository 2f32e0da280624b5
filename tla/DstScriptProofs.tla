--------------------------- MODULE DstScriptProofs ---------------------------
(***************************************************************************)
(* Proofs about DstScript for any number of slots, however long its loops  *)
(* wait and however often it downloads.  Three facts carry them: a deploy  *)
(* that is past its check has removed the marker, an init that is fetching *)
(* a world found none, and a slot never has two Masters, so that a quit    *)
(* addressed to its name ends it.                                          *)
(***************************************************************************)
EXTENDS DstScript, TLAPS

USE ScriptAssumption

\* start looks for a Master before it launches one.
OneMaster == \A s \in Slots : up[s]["master"] <= 1

\* The commands whose code has a place in it.
InPlace ==
    /\ at \in {"prepare", "mark"} => cmd = "deploy"
    /\ at \in {"download", "downloading"} => cmd \in {"deploy", "update"}
    /\ at \in {"cloning", "cleaning", "ports"} => cmd = "init"
    /\ at \in {"removing", "removed"} => cmd = "delete"
    /\ cmd \in SlotCommands => slot \in Slots

\* What a deploy, an init and a delete rely on between two of their steps.
Unmarked == cmd = "deploy" /\ at \notin Ended \cup {"check"} => ~ marker
Whole == at = "mark" => game # "part"
Fetching ==
    at \in {"cloning", "cleaning"} => world[slot] \in {"part", "archive"}
Emptied == at \in {"removing", "removed"} => up[slot]["master"] = 0

IInv ==
    /\ TypeOK
    /\ MarkerVouches
    /\ OneMaster
    /\ InPlace
    /\ Unmarked
    /\ Whole
    /\ Fetching
    /\ Emptied

-----------------------------------------------------------------------------
(* The invariant *)

\* A fresh machine.
LEMMA InitIInv == Init => IInv
<1> SUFFICES ASSUME Init PROVE IInv
  OBVIOUS
<1>1. marker \in BOOLEAN /\ steamcmd \in BOOLEAN /\ leftover \in BOOLEAN
  BY Zenon DEF Init
<1>2. ~ marker
  BY Zenon DEF Init
<1> QED
  BY <1>1, <1>2 DEF Init, IInv, TypeOK, MarkerVouches, OneMaster, InPlace,
     Unmarked, Whole, Fetching, Emptied, Ended, Places, Commands, SlotCommands,
     Shards, Worlds, Games

\* deploy removes the marker first and writes it last.
LEMMA DeployIInv ==
    ASSUME IInv,
           SkipDeploy \/ BeginDeploy \/ Prepare \/ Mark
    PROVE  IInv'
<1> USE DEF IInv, TypeOK, MarkerVouches, OneMaster, InPlace, Unmarked, Whole,
            Fetching, Emptied, Ended, Places, Commands, SlotCommands, Shards,
            Worlds, Games, Doing, Goto, Again, SetWorld, host
<1>1. CASE SkipDeploy
  BY <1>1 DEF SkipDeploy, Deployed
<1>2. CASE BeginDeploy
  BY <1>2 DEF BeginDeploy, Deployed, NoMarker
<1>3. CASE Prepare
  <2>1. steamcmd \in BOOLEAN
    OBVIOUS
  <2>2. steamcmd' = TRUE \/ steamcmd' \in {steamcmd, TRUE}
    BY <1>3, Zenon DEF Prepare, Unpacked
  <2>3. steamcmd' \in BOOLEAN
    BY <2>1, <2>2, Zenon
  <2>4. /\ cmd = "deploy" /\ at = "prepare"
        /\ at' \in {"download", "failed"} /\ n' = 0
        /\ UNCHANGED <<up, world, game, marker, leftover, cmd, slot>>
    BY <1>3, Zenon DEF Prepare
  <2> QED
    BY <2>3, <2>4
<1>4. CASE Mark
  BY <1>4 DEF Mark
<1> QED
  BY <1>1, <1>2, <1>3, <1>4

\* Only a deploy leaves a game without its parts, and it has no marker then.
LEMMA DownloadIInv ==
    ASSUME IInv,
           BeginAttempt \/ Downloaded \/ AttemptFailed \/ NoUpdate
               \/ BeginUpdate
    PROVE  IInv'
<1> USE DEF IInv, TypeOK, MarkerVouches, OneMaster, InPlace, Unmarked, Whole,
            Fetching, Emptied, Ended, Places, Commands, SlotCommands, Shards,
            Worlds, Games, Doing, Goto, Again, SetWorld, host
<1>1. CASE BeginAttempt
  BY <1>1 DEF BeginAttempt, Unfinished
<1>2. CASE Downloaded
  BY <1>2 DEF Downloaded
<1>3. CASE AttemptFailed
  BY <1>3 DEF AttemptFailed
<1>4. CASE NoUpdate
  BY <1>4 DEF NoUpdate
<1>5. CASE BeginUpdate
  BY <1>5 DEF BeginUpdate, MasterSomewhere
<1> QED
  BY <1>1, <1>2, <1>3, <1>4, <1>5

\* init fetches a world only where there is none.
LEMMA InitClusterIInv ==
    ASSUME IInv,
           BeginInit \/ Clone \/ Clean \/ SetPorts
    PROVE  IInv'
<1> USE DEF IInv, TypeOK, MarkerVouches, OneMaster, InPlace, Unmarked, Whole,
            Fetching, Emptied, Ended, Places, Commands, SlotCommands, Shards,
            Worlds, Games, Doing, Goto, Again, SetWorld, host
<1>1. CASE BeginInit
  BY <1>1 DEF BeginInit, Running, Missing, ToBeFetched
<1>2. CASE Clone
  BY <1>2 DEF Clone
<1>3. CASE Clean
  BY <1>3 DEF Clean
<1>4. CASE SetPorts
  BY <1>4 DEF SetPorts
<1> QED
  BY <1>1, <1>2, <1>3, <1>4

\* start launches a Master only where there is none.
LEMMA StartIInv ==
    ASSUME IInv,
           RefuseStart \/ LaunchMaster \/ WarmUp \/ LaunchCaves
               \/ VerifyCaves \/ AwaitLog \/ FollowLog
    PROVE  IInv'
<1> USE DEF IInv, TypeOK, MarkerVouches, OneMaster, InPlace, Unmarked, Whole,
            Fetching, Emptied, Ended, Places, Commands, SlotCommands, Shards,
            Worlds, Games, Doing, Goto, Again, SetWorld, host
<1>1. CASE RefuseStart
  BY <1>1 DEF RefuseStart, Missing
<1>2. CASE LaunchMaster
  BY <1>2 DEF LaunchMaster, Missing, Launched
<1>3. CASE WarmUp
  BY <1>3 DEF WarmUp
<1>4. CASE LaunchCaves
  BY <1>4 DEF LaunchCaves, Launched
<1>5. CASE VerifyCaves
  BY <1>5 DEF VerifyCaves
<1>6. CASE AwaitLog
  BY <1>6 DEF AwaitLog
<1>7. CASE FollowLog
  BY <1>7 DEF FollowLog
<1> QED
  BY <1>1, <1>2, <1>3, <1>4, <1>5, <1>6, <1>7

\* stop and delete: a slot is removed once no Master is left, for the one
\* there was has quit.
LEMMA StopIInv ==
    ASSUME IInv,
           BeginStop \/ Announce \/ WaitForExit \/ KeepWaiting
               \/ QuitSessions \/ Remove \/ Removed \/ CheckStatus
    PROVE  IInv'
<1> USE DEF IInv, TypeOK, MarkerVouches, OneMaster, InPlace, Unmarked, Whole,
            Fetching, Emptied, Ended, Places, Commands, SlotCommands, Shards,
            Worlds, Games, Doing, Goto, Again, SetWorld, host
<1>1. CASE BeginStop
  BY <1>1 DEF BeginStop, Stopping, Stopped, Running
<1>2. CASE Announce
  BY <1>2 DEF Announce, Stopping
<1>3. CASE WaitForExit
  BY <1>3 DEF WaitForExit, Stopping, Stopped, Running
<1>4. CASE KeepWaiting
  BY <1>4 DEF KeepWaiting, Stopping, Running, Counted
<1>5. CASE QuitSessions
  BY <1>5 DEF QuitSessions, Stopping, Stopped, Running, QuitBoth
<1>6. CASE Remove
  BY <1>6 DEF Remove, Missing
<1>7. CASE Removed
  BY <1>7 DEF Removed
<1>8. CASE CheckStatus
  BY <1>8 DEF CheckStatus
<1> QED
  BY <1>1, <1>2, <1>3, <1>4, <1>5, <1>6, <1>7, <1>8

\* A kill, a steamcmd nobody waited for and a shard that dies disturb none of
\* it: a steamcmd leaves parts only where there were parts, and shards only go.
LEMMA HostIInv ==
    ASSUME IInv,
           \/ Begin \/ Kill \/ LeftoverEnds
           \/ \E s \in Slots, k \in Shards : ShardDies(s, k)
    PROVE  IInv'
<1> USE DEF IInv, TypeOK, MarkerVouches, OneMaster, InPlace, Unmarked, Whole,
            Fetching, Emptied, Ended, Places, Commands, SlotCommands, Shards,
            Worlds, Games
<1>1. CASE Begin
  BY <1>1 DEF Begin, host
<1>2. CASE Kill
  <2>1. leftover' \in BOOLEAN
    BY <1>2, Zenon DEF Kill
  <2> QED
    BY <1>2, <2>1 DEF Kill, Goto
<1>3. CASE LeftoverEnds
  <2>1. leftover' \in BOOLEAN
    BY <1>3, Zenon DEF LeftoverEnds
  <2>2. /\ game' \in {game, "none", "mixed", "whole"}
        /\ UNCHANGED <<up, world, marker, steamcmd, cmd, slot, at, n>>
    BY <1>3 DEF LeftoverEnds, script
  <2> QED
    BY <2>1, <2>2
<1>4. ASSUME NEW s \in Slots, NEW k \in Shards, ShardDies(s, k) PROVE IInv'
  <2>1. PICK left \in 0..1 \cup {up[s][k]} :
          /\ IF up[s][k] = 1 THEN left = 0 ELSE left > 0
          /\ up' = [up EXCEPT ![s][k] = left]
    BY <1>4 DEF ShardDies
  <2>2. up[s][k] \in 1..2 /\ left \in 0..2 /\ left <= up[s][k]
    BY <1>4, <2>1 DEF ShardDies
  <2>3. UNCHANGED <<world, game, marker, steamcmd, leftover, cmd, slot, at, n>>
    BY <1>4 DEF ShardDies, script
  <2>4. \A t \in Slots : up'[t]["master"] <= up[t]["master"]
    BY <2>1, <2>2
  <2>5. up' \in [Slots -> [Shards -> 0..2]]
    BY <2>1, <2>2
  <2>6. at \in {"removing", "removed"} => slot \in Slots
    OBVIOUS
  <2> QED
    BY <2>3, <2>4, <2>5, <2>6
<1> QED
  BY <1>1, <1>2, <1>3, <1>4

LEMMA NextIInv == IInv /\ [Next]_vars => IInv'
<1> SUFFICES ASSUME IInv, [Next]_vars PROVE IInv'
  OBVIOUS
<1>1. CASE UNCHANGED vars
  BY <1>1 DEF vars, host, script, IInv, TypeOK, MarkerVouches, OneMaster,
              InPlace, Unmarked, Whole, Fetching, Emptied
<1>2. CASE ScriptStep
  BY <1>2, DeployIInv, DownloadIInv, InitClusterIInv, StartIInv, StopIInv
  DEF ScriptStep
<1> QED
  BY <1>1, <1>2, HostIInv DEF Next

-----------------------------------------------------------------------------
(* What stop and init may do *)

\* Only the code of stop_server runs in its places.
LEMMA StopsOnly ==
    ASSUME ScriptStep, NEW place \in {"check", "announcing", "waiting"},
           Stopping(place)
    PROVE  BeginStop \/ Announce \/ WaitForExit \/ KeepWaiting \/ QuitSessions
BY DEF ScriptStep, Stopping, Doing,
       SkipDeploy, BeginDeploy, Prepare, Mark, BeginAttempt, Downloaded,
       AttemptFailed, NoUpdate, BeginUpdate, BeginInit, Clone, Clean, SetPorts,
       RefuseStart, LaunchMaster, WarmUp, LaunchCaves, VerifyCaves, AwaitLog,
       FollowLog, Remove, Removed, CheckStatus

\* stop gets through when it sees neither shard, or after it has made both quit.
LEMMA StopStep ==
    ASSUME IInv, [Next]_vars,
           NEW place \in {"check", "announcing", "waiting"}, Stopping(place),
           at' \in {"ok", "removing"}
    PROVE  up'[slot]["master"] = 0 /\ up'[slot]["caves"] # 1
<1>1. slot \in Slots /\ up \in [Slots -> [Shards -> 0..2]] /\ OneMaster
  BY DEF IInv, TypeOK, InPlace, Stopping, SlotCommands
<1>2. at = place
  BY DEF Stopping
<1>3. ScriptStep
  BY <1>2 DEF Next, Begin, Kill, LeftoverEnds, ShardDies, Goto, Ended, vars,
              script
<1>4. CASE BeginStop
  BY <1>1, <1>4 DEF BeginStop, Running, Goto, host, Shards
<1>5. CASE Announce
  BY <1>5 DEF Announce, Goto, Again, Stopping
<1>6. CASE WaitForExit
  BY <1>1, <1>6 DEF WaitForExit, Running, host, Shards
<1>7. CASE KeepWaiting
  BY <1>7 DEF KeepWaiting, Stopping
<1>8. CASE QuitSessions
  <2>1. up' = QuitBoth
    BY <1>8 DEF QuitSessions
  <2>2. \A k \in Shards :
          up'[slot][k] = IF up[slot][k] = 1 THEN 0 ELSE up[slot][k]
    BY <1>1, <2>1 DEF QuitBoth
  <2>3. up[slot]["master"] \in 0..1
    BY <1>1 DEF OneMaster, Shards
  <2> QED
    BY <2>2, <2>3 DEF Shards
<1> QED
  BY <1>3, <1>4, <1>5, <1>6, <1>7, <1>8, StopsOnly

\* The steps that write to a slot's directory.
LEMMA WritesOnly ==
    ASSUME [Next]_vars
    PROVE  \/ UNCHANGED world
           \/ BeginInit \/ Clone \/ Clean \/ LaunchMaster \/ Remove \/ Removed
BY DEF Next, ScriptStep, Begin, Kill, LeftoverEnds, ShardDies, vars, host,
       SkipDeploy, BeginDeploy, Prepare, Mark, BeginAttempt, Downloaded,
       AttemptFailed, NoUpdate, BeginUpdate, SetPorts, RefuseStart, WarmUp,
       LaunchCaves, VerifyCaves, AwaitLog, FollowLog, BeginStop, Announce,
       WaitForExit, KeepWaiting, QuitSessions, CheckStatus

\* init writes where there is no world or what it fetched itself; delete writes
\* once there is no Master.
LEMMA WorldStep ==
    ASSUME IInv, [Next]_vars, NEW s \in Slots,
           world[s] = "played", world'[s] # "played"
    PROVE  cmd = "delete" /\ slot = s /\ up[s]["master"] = 0
<1> USE DEF IInv, TypeOK, SetWorld, Doing
<1>1. CASE BeginInit
  BY <1>1 DEF BeginInit, ToBeFetched, Missing
<1>2. CASE Clone
  BY <1>2 DEF Clone, Fetching
<1>3. CASE Clean
  BY <1>3 DEF Clean, Fetching
<1>4. CASE LaunchMaster
  BY <1>4 DEF LaunchMaster
<1>5. CASE Remove
  BY <1>5 DEF Remove, Emptied
<1>6. CASE Removed
  BY <1>6 DEF Removed, Emptied
<1> QED
  BY <1>1, <1>2, <1>3, <1>4, <1>5, <1>6, WritesOnly

-----------------------------------------------------------------------------
(* The theorems *)

\* The host and the script are well typed, and no slot gets a third session.
THEOREM ScriptTypes == Spec => []TypeOK
<1>1. IInv => TypeOK
  BY DEF IInv
<1> QED
  BY <1>1, InitIInv, NextIInv, PTL DEF Spec

\* install_env never takes for deployed what a deploy that was cut off left.
THEOREM MarkerAlwaysVouches == Spec => []MarkerVouches
<1>1. IInv => MarkerVouches
  BY DEF IInv
<1> QED
  BY <1>1, InitIInv, NextIInv, PTL DEF Spec

\* stop_server leaves no Master, and no Caves session that has its name to
\* itself.
THEOREM StopAlwaysStops == Spec => StopStops
<1>1. IInv /\ [Next]_vars =>
        [/\ \E place \in {"check", "announcing", "waiting"} : Stopping(place)
         /\ at' \in {"ok", "removing"}
         => up'[slot]["master"] = 0 /\ up'[slot]["caves"] # 1]_vars
  BY StopStep
<1> QED
  BY <1>1, InitIInv, NextIInv, PTL DEF Spec, StopStops

\* Only delete_server loses a world that was played in, and only once its
\* Master is gone.
THEOREM PlayedWorldsStaySafe == Spec => PlayedWorldsAreSafe
<1>1. IInv /\ [Next]_vars =>
        [\A s \in Slots : world[s] = "played" /\ world'[s] # "played" =>
            cmd = "delete" /\ slot = s /\ up[s]["master"] = 0]_vars
  BY WorldStep
<1> QED
  BY <1>1, InitIInv, NextIInv, PTL DEF Spec, PlayedWorldsAreSafe

\* The ports of a slot are its own: configure_cluster_ports gives no two shards
\* of no two slots the same one, however many of them run.
THEOREM PortsDiffer ==
    \A i, j \in 1..SlotCount, a, b \in Bases :
        PortOf(a, i) = PortOf(b, j) => i = j /\ a = b
BY DEF SlotCount, PortStep, InternalBase, PublicBases, Bases, PortOf
=============================================================================
