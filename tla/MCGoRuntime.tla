---------------------------- MODULE MCGoRuntime -----------------------------
(***************************************************************************)
(* The parts of pkg/runtime that goroutines use and that share no state,   *)
(* one per behaviour: the green-thread scheduler, a channel, and the       *)
(* connections of a node.                                                  *)
(***************************************************************************)
EXTENDS GreenScheduler, GoChannel, NodeMesh

CONSTANTS t1, t2, t3

\* t2 goes before the others.
Priorities == [t \in Threads |-> IF t = t2 THEN 1 ELSE 0]

AllSizes == {-1, 0, 1, 2}

VARIABLE part   \* the part that runs

rtVars == <<vars, chanVars, meshVars, part>>

SchedulerIdle ==
  /\ runQueue = <<>> /\ blocked = <<>> /\ activeThreads = 0 /\ totalCompleted = 0 /\ totalFailed = 0
  /\ state = [t \in Threads |-> "none"] /\ yields = [t \in Threads |-> 0]
  /\ ready = [t \in Threads |-> TRUE] /\ rpc = "gone" /\ cur = None /\ spawning = None /\ stopCh = TRUE
  /\ waking = [w \in Wakers |-> NotWaking] /\ wait = "off"

ChannelIdle == ChanInit /\ bufferSize = 0

MeshIdle == MeshInit /\ ID = [c \in Conns |-> CHOOSE p \in Peers : TRUE]

RTInit ==
  \/ part = "scheduler" /\ Init /\ ChannelIdle /\ MeshIdle
  \/ part = "channel" /\ SchedulerIdle /\ ChanInit /\ MeshIdle
  \/ part = "mesh" /\ SchedulerIdle /\ ChannelIdle /\ MeshInit

RTNext ==
  /\ \/ part = "scheduler" /\ Next /\ UNCHANGED <<chanVars, meshVars>>
     \/ part = "channel" /\ ChanNext /\ UNCHANGED <<vars, meshVars>>
     \/ part = "mesh" /\ MeshNext /\ UNCHANGED <<vars, chanVars>>
  /\ UNCHANGED part

RTSpec == RTInit /\ [][RTNext]_rtVars /\ SchedulerFair /\ ChanFair /\ MeshFair
=============================================================================
