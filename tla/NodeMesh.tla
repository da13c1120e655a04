------------------------------ MODULE NodeMesh ------------------------------
(***************************************************************************)
(* The network half of pkg/runtime/actor_system.go, seen from one node:    *)
(* the table as.nodes of peers, connections (RemoteNode), their receive    *)
(* loops, the health check and Shutdown.                                   *)
(*                                                                         *)
(* The table is keyed by an identifier: the address of the peer when it    *)
(* connects, the caller's choice in ConnectToNode, so two connections may  *)
(* have the same one.  The peer and the network are external:              *)
(* a connection delivers messages in order until it breaks.  Time is       *)
(* abstracted: a connection is stale when nothing was heard on it for      *)
(* longer than NodeTimeout.  What is sent to peers, and the messages for   *)
(* actors (ActorSystem), change nothing here but LastSeen.                 *)
(***************************************************************************)
EXTENDS Naturals, FiniteSets

CONSTANTS
  Conns, Peers, NoConn,
  Breaks              \* whether a connection may break

ASSUME MeshAssumption ==
  NoConn \notin Conns /\ Breaks \in BOOLEAN

VARIABLES
  nodes,              \* as.nodes: the connection registered for each identifier
  ID,                 \* RemoteNode.ID, of the connections still to come, too
  link,               \* of each connection: "none", "up", "broken"
  alive, nodeClosed,  \* RemoteNode.Alive, RemoteNode.closed
  stale,              \* LastSeen is older than NodeTimeout
  loop,               \* where its receiveLoop goroutine is
  running             \* as.running

meshVars == <<nodes, ID, link, alive, nodeClosed, stale, loop, running>>

\* "top": about to read closed; "recv": in Decode; the others: in the
\* handler of a heartbeat or of MsgLeave (before Close, before delete).
LoopStates == {"none", "top", "recv", "beat", "leave", "delete", "done"}

MeshInit ==
  /\ nodes = [p \in Peers |-> NoConn] /\ ID \in [Conns -> Peers]
  /\ link = [c \in Conns |-> "none"]
  /\ alive = [c \in Conns |-> FALSE] /\ nodeClosed = [c \in Conns |-> FALSE]
  /\ stale = [c \in Conns |-> FALSE] /\ loop = [c \in Conns |-> "none"]
  /\ running = TRUE

Move(c, from, to) == loop[c] = from /\ loop' = [loop EXCEPT ![c] = to]

-----------------------------------------------------------------------------
Register(c) == nodes' = [nodes EXCEPT ![ID[c]] = c]

(* ConnectToNode and handleIncoming: register, then start receiveLoop.     *)
Connect(c) ==
  /\ link[c] = "none"
  /\ link' = [link EXCEPT ![c] = "up"]
  /\ alive' = [alive EXCEPT ![c] = TRUE]
  /\ Register(c)
  /\ UNCHANGED <<nodeClosed, stale, loop, running, ID>>

StartLoop(c) ==
  /\ link[c] # "none" /\ Move(c, "none", "top")
  /\ UNCHANGED <<nodes, link, alive, nodeClosed, stale, running, ID>>

(* receiveLoop: the closed flag is read, a message is decoded (perhaps one *)
(* buffered before the connection was closed), LastSeen is set, and the    *)
(* message is handled.                                                     *)
LoopTop(c) ==
  /\ Move(c, "top", IF nodeClosed[c] THEN "done" ELSE "recv")
  /\ UNCHANGED <<nodes, link, alive, nodeClosed, stale, running, ID>>

Decode(c) ==
  /\ link[c] = "up"
  /\ \E l \in {"beat", "leave", "top"} : Move(c, "recv", l)
  /\ stale' = [stale EXCEPT ![c] = FALSE]
  /\ UNCHANGED <<nodes, link, alive, nodeClosed, running, ID>>

\* Mutant: Close does not close the connection a Decode is waiting on.
DecodeFails_Broken(c) == link[c] = "broken"

DecodeFails(c) == link[c] = "broken" \/ nodeClosed[c]

DecodeError(c) ==
  /\ DecodeFails(c) /\ Move(c, "recv", "done")
  /\ alive' = [alive EXCEPT ![c] = FALSE]
  /\ UNCHANGED <<nodes, link, nodeClosed, stale, running, ID>>

HandleHeartbeat(c) ==
  /\ Move(c, "beat", "top")
  /\ alive' = [alive EXCEPT ![c] = TRUE] /\ stale' = [stale EXCEPT ![c] = FALSE]
  /\ UNCHANGED <<nodes, link, nodeClosed, running, ID>>

\* Mutant: the connection of a peer that leaves stays open.
LeaveClose_Not(c) ==
  /\ Move(c, "leave", "delete")
  /\ UNCHANGED <<nodes, link, alive, nodeClosed, stale, running, ID>>

\* MsgLeave: close, then take the peer - not this connection - off the table.
LeaveClose(c) ==
  /\ Move(c, "leave", "delete")
  /\ nodeClosed' = [nodeClosed EXCEPT ![c] = TRUE]
  /\ UNCHANGED <<nodes, link, alive, stale, running, ID>>

LeaveDelete(c) ==
  /\ Move(c, "delete", "top")
  /\ nodes' = [nodes EXCEPT ![ID[c]] = NoConn]
  /\ UNCHANGED <<link, alive, nodeClosed, stale, running, ID>>

-----------------------------------------------------------------------------
(* checkNodeHealth, on every heartbeat tick while the system runs: a peer  *)
(* that is marked alive and was not heard of is closed and forgotten.      *)
\* Mutant: the health check looks at dead peers only.
Expired_Dead == {p \in Peers : nodes[p] # NoConn /\ ~alive[nodes[p]] /\ stale[nodes[p]]}

Expired == {p \in Peers : nodes[p] # NoConn /\ alive[nodes[p]] /\ stale[nodes[p]]}

CheckNodeHealth ==
  /\ running /\ Expired # {}
  /\ alive' = [c \in Conns |-> alive[c] /\ c \notin {nodes[p] : p \in Expired}]
  /\ nodeClosed' = [c \in Conns |-> nodeClosed[c] \/ c \in {nodes[p] : p \in Expired}]
  /\ nodes' = [p \in Peers |-> IF p \in Expired THEN NoConn ELSE nodes[p]]
  /\ UNCHANGED <<link, stale, loop, running, ID>>

\* Shutdown closes every registered connection.
Shutdown ==
  /\ running /\ running' = FALSE
  /\ nodeClosed' = [c \in Conns |-> nodeClosed[c] \/ (\E p \in Peers : nodes[p] = c)]
  /\ UNCHANGED <<nodes, link, alive, stale, loop, ID>>

(* The environment: the network fails, and time passes in silence.         *)
Break(c) ==
  /\ Breaks /\ link[c] = "up"
  /\ link' = [link EXCEPT ![c] = "broken"]
  /\ UNCHANGED <<nodes, alive, nodeClosed, stale, loop, running, ID>>

GrowStale(c) ==
  /\ link[c] # "none" /\ ~stale[c]
  /\ stale' = [stale EXCEPT ![c] = TRUE]
  /\ UNCHANGED <<nodes, link, alive, nodeClosed, loop, running, ID>>

-----------------------------------------------------------------------------
LoopStep(c) ==
  \/ StartLoop(c) \/ LoopTop(c) \/ DecodeError(c)
  \/ HandleHeartbeat(c) \/ LeaveClose(c) \/ LeaveDelete(c)

MeshNext ==
  \/ \E c \in Conns : Connect(c) \/ Decode(c) \/ LoopStep(c) \/ Break(c) \/ GrowStale(c)
  \/ CheckNodeHealth \/ Shutdown

MeshSpec == MeshInit /\ [][MeshNext]_meshVars

\* Goroutines are scheduled and the heartbeat ticker goes on.  A closed
\* connection has finitely many buffered messages, so its Decode fails at last.
MeshFair ==
  /\ WF_meshVars(CheckNodeHealth)
  /\ \A c \in Conns : WF_meshVars(LoopStep(c)) /\ SF_meshVars(DecodeError(c))

MeshFairSpec == MeshSpec /\ MeshFair

-----------------------------------------------------------------------------
\* Table and connections agree: a connection that was opened and is not in
\* the table (its peer left or expired) is closed, so none is left open and
\* out of reach of Broadcast, the health check and Shutdown - unless the same
\* identifier was used again: as.nodes forgets the older connection, and the
\* older one's MsgLeave takes the newer one off the table.
UnregisteredIsClosed ==
  \A c \in Conns :
    link[c] # "none" /\ nodes[ID[c]] # c =>
      nodeClosed[c] \/ \E d \in Conns \ {c} : link[d] # "none" /\ ID[d] = ID[c]

\* A registered connection that stays silent is removed by checkNodeHealth,
\* unless a message comes after all, the system is shut down, or the link
\* failed: then receiveLoop has marked the node dead, and the check skips it.
SilentRemoved ==
  \A c \in Conns :
    (nodes[ID[c]] = c /\ stale[c])
      ~> (nodes[ID[c]] # c \/ ~stale[c] \/ ~running \/ link[c] = "broken")

\* The receive loop of every closed connection ends, for good.
ClosedLoopEnds == []<>(\A c \in Conns : nodeClosed[c] => loop[c] = "done")
=============================================================================
