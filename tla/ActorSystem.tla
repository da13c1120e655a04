---------------------------- MODULE ActorSystem -----------------------------
(***************************************************************************)
(* The local half of pkg/runtime/actor_system.go: spawning actors, Send,   *)
(* Request and Shutdown on an ActorRef, the goroutine of each actor        *)
(* (runActor), dead letters, messages that arrive from the network, and    *)
(* the shutdown of the whole system.                                       *)
(*                                                                         *)
(* The mailbox is a Go channel of MaxMailboxSize slots that is never       *)
(* closed.  The test of the closed flag and the delivery are two steps.    *)
(***************************************************************************)
EXTENDS Integers, Sequences

CONSTANTS
  Actors, Msgs,
  Requests, Remote,   \* messages sent with Request, messages from the network
  Shut,               \* the MsgShutdown message
  None,
  MaxMailboxSize,
  StartFails,         \* whether OnStart may fail
  LateSpawn           \* whether Spawn may be called after the system's Shutdown

ASSUME ActorAssumption ==
  /\ Requests \subseteq Msgs /\ Remote \subseteq Msgs /\ Requests \cap Remote = {}
  /\ Shut \notin Msgs /\ None \notin Msgs \cup Actors
  /\ MaxMailboxSize \in Nat /\ StartFails \in BOOLEAN /\ LateSpawn \in BOOLEAN

VARIABLES
  status,             \* of each actor's goroutine
  closed, mailbox,    \* ref.closed, ref.mailbox
  shutting,           \* ref.Shutdown has set the flag and not yet delivered
  cur,                \* the message an actor is handling
  fate, target,       \* of each message
  early,              \* (history) accepted before its target was shut down
  window,             \* (history) accepted between the target's last look at an
                      \* empty mailbox and its test of the closed flag
  reply,              \* state of each request
  running, todo       \* as.running, and the actors its Shutdown has still to visit

actorVars == <<status, closed, mailbox, shutting, cur>>
msgVars == <<fate, target, early, window, reply>>
vars == <<actorVars, msgVars, running, todo>>

Init ==
  /\ status = [a \in Actors |-> "none"] /\ closed = [a \in Actors |-> FALSE]
  /\ mailbox = [a \in Actors |-> <<>>] /\ shutting = [a \in Actors |-> FALSE]
  /\ cur = [a \in Actors |-> None]
  /\ fate = [m \in Msgs |-> "fresh"] /\ target = [m \in Msgs |-> None]
  /\ early = {} /\ window = {} /\ reply = [m \in Requests |-> "none"]
  /\ running = TRUE /\ todo = {}

-----------------------------------------------------------------------------
\* Spawn registers the actor and starts its goroutine; actorMu keeps it out
\* while the system's Shutdown goes over the actors.
Spawn(a) ==
  /\ status[a] = "none" /\ todo = {} /\ (running \/ LateSpawn)
  /\ status' = [status EXCEPT ![a] = "starting"]
  /\ UNCHANGED <<closed, mailbox, shutting, cur, msgVars, running, todo>>

\* Send and Request refuse a closed actor; handleNetworkMessage delivers
\* without a test, and has a dead letter for an actor it does not know.
SendCheck(m, a) ==
  /\ fate[m] = "fresh"
  /\ \/ /\ m \notin Remote /\ status[a] # "none"
        /\ fate' = [fate EXCEPT ![m] = IF closed[a] THEN "refused" ELSE "checked"]
     \/ /\ m \in Remote
        /\ fate' = [fate EXCEPT ![m] = IF status[a] = "none" THEN "dead" ELSE "checked"]
  /\ target' = [target EXCEPT ![m] = a]
  /\ UNCHANGED <<actorVars, early, window, reply, running, todo>>

HasRoom(a) == Len(mailbox[a]) < MaxMailboxSize

\* deliver: the mailbox takes the message or reports "mailbox full".
Deliver(m) ==
  /\ fate[m] = "checked"
  /\ LET a == target[m] IN
     \/ /\ HasRoom(a)
        /\ mailbox' = [mailbox EXCEPT ![a] = Append(@, m)]
        /\ fate' = [fate EXCEPT ![m] = "accepted"]
        /\ early' = IF closed[a] THEN early ELSE early \cup {m}
        /\ window' = IF status[a] = "polling" THEN window \cup {m} ELSE window
        /\ reply' = IF m \in Requests THEN [reply EXCEPT ![m] = "waiting"] ELSE reply
     \/ /\ ~HasRoom(a)
        /\ fate' = [fate EXCEPT ![m] = "full"]
        /\ UNCHANGED <<mailbox, early, window, reply>>
  /\ UNCHANGED <<status, closed, shutting, cur, target, running, todo>>

\* Request gives up; its reply channel keeps one slot for a late answer.
RequestTimeout(m) ==
  /\ reply[m] \in {"waiting", "sent"}
  /\ reply' = [reply EXCEPT ![m] = "timeout"]
  /\ UNCHANGED <<actorVars, fate, target, early, window, running, todo>>

RequestReturn(m) ==
  /\ reply[m] = "sent"
  /\ reply' = [reply EXCEPT ![m] = "answered"]
  /\ UNCHANGED <<actorVars, fate, target, early, window, running, todo>>

-----------------------------------------------------------------------------
(* runActor                                                                *)
Start(a) ==
  /\ status[a] = "starting"
  /\ \E s \in {"running"} \cup (IF StartFails THEN {"failed"} ELSE {}) :
       status' = [status EXCEPT ![a] = s]
  /\ UNCHANGED <<closed, mailbox, shutting, cur, msgVars, running, todo>>

Idle(a) == status[a] = "running" /\ cur[a] = None

\* Mutant: a received message is not removed.
Rest_Keeps(a) == mailbox[a]

Rest(a) == Tail(mailbox[a])

\* MsgShutdown ends the goroutine at once, whatever is behind it.
Take(a) ==
  /\ Idle(a) /\ mailbox[a] # <<>>
  /\ mailbox' = [mailbox EXCEPT ![a] = Rest(a)]
  /\ IF Head(mailbox[a]) = Shut
     THEN status' = [status EXCEPT ![a] = "stopped"] /\ UNCHANGED cur
     ELSE cur' = [cur EXCEPT ![a] = Head(mailbox[a])] /\ UNCHANGED status
  /\ UNCHANGED <<closed, shutting, msgVars, running, todo>>

\* HandleMessage: an error makes a dead letter; a request may be answered.
Handle(a) ==
  /\ cur[a] # None
  /\ \E f \in {"handled", "dead"} : fate' = [fate EXCEPT ![cur[a]] = f]
  /\ reply' \in {reply} \cup
       (IF cur[a] \in Requests /\ reply[cur[a]] = "waiting"
        THEN {[reply EXCEPT ![cur[a]] = "sent"]} ELSE {})
  /\ cur' = [cur EXCEPT ![a] = None]
  /\ UNCHANGED <<status, closed, mailbox, shutting, target, early, window, running, todo>>

\* An empty mailbox takes the default branch of the select ...
PollEmpty(a) ==
  /\ Idle(a) /\ mailbox[a] = <<>>
  /\ status' = [status EXCEPT ![a] = "polling"]
  /\ UNCHANGED <<closed, mailbox, shutting, cur, msgVars, running, todo>>

\* Mutant: only the shutdown message stops an actor.
SeesClosed_Never(a) == FALSE

SeesClosed(a) == closed[a]

\* ... which then loads the closed flag: stop, or sleep and look again.
PollFlag(a) ==
  /\ status[a] = "polling"
  /\ IF SeesClosed(a)
     THEN status' = [status EXCEPT ![a] = "stopped"] /\ UNCHANGED window
     ELSE /\ status' = [status EXCEPT ![a] = "running"]
          /\ window' = {m \in window : target[m] # a}
  /\ UNCHANGED <<closed, mailbox, shutting, cur, fate, target, early, reply, running, todo>>

-----------------------------------------------------------------------------
(* ActorRef.Shutdown: the flag, then a message that a full mailbox loses.  *)
SetClosed(a) ==
  /\ closed' = [closed EXCEPT ![a] = TRUE]
  /\ shutting' = [shutting EXCEPT ![a] = ~closed[a] \/ @]

Shutdown(a) ==
  /\ status[a] # "none" /\ ~closed[a] /\ SetClosed(a)
  /\ UNCHANGED <<status, mailbox, cur, msgVars, running, todo>>

\* Mutant: the shutdown message goes before the waiting ones.
ShutdownDeliver_Front(a) ==
  /\ shutting[a]
  /\ shutting' = [shutting EXCEPT ![a] = FALSE]
  /\ mailbox' = IF HasRoom(a) THEN [mailbox EXCEPT ![a] = <<Shut>> \o @] ELSE mailbox
  /\ UNCHANGED <<status, closed, cur, msgVars, running, todo>>

ShutdownDeliver(a) ==
  /\ shutting[a]
  /\ shutting' = [shutting EXCEPT ![a] = FALSE]
  /\ mailbox' = IF HasRoom(a) THEN [mailbox EXCEPT ![a] = Append(@, Shut)] ELSE mailbox
  /\ UNCHANGED <<status, closed, cur, msgVars, running, todo>>

(* ActorSystem.Shutdown: once, over all registered actors.                 *)
SystemShutdown ==
  /\ running /\ running' = FALSE
  /\ todo' = {a \in Actors : status[a] # "none"}
  /\ UNCHANGED <<actorVars, msgVars>>

SystemShutdownActor(a) ==
  /\ a \in todo /\ todo' = todo \ {a}
  /\ SetClosed(a)
  /\ UNCHANGED <<status, mailbox, cur, msgVars, running>>

-----------------------------------------------------------------------------
ActorStep(a) == Start(a) \/ Take(a) \/ Handle(a) \/ PollEmpty(a) \/ PollFlag(a)
SystemStep == SystemShutdown \/ \E a \in Actors : SystemShutdownActor(a)

Next ==
  \/ \E a \in Actors : \/ Spawn(a) \/ ActorStep(a) \/ Shutdown(a) \/ ShutdownDeliver(a)
                       \/ \E m \in Msgs : SendCheck(m, a)
  \/ \E m \in Msgs : Deliver(m)
  \/ \E m \in Requests : RequestTimeout(m) \/ RequestReturn(m)
  \/ SystemStep

Spec == Init /\ [][Next]_vars

\* Goroutines are scheduled, handlers return, and the system is shut down.
FairSpec ==
  /\ Spec /\ WF_vars(SystemStep)
  /\ \A a \in Actors : WF_vars(ActorStep(a)) /\ WF_vars(ShutdownDeliver(a))
  /\ \A m \in Msgs : WF_vars(Deliver(m))

-----------------------------------------------------------------------------
\* "Shutdown gracefully shuts down the actor": of the messages accepted before
\* the shutdown began, the actor has handled all (or made them dead letters)
\* when it stops, but one: only a message that arrived after the
\* actor's last look at an empty mailbox can be left behind, also when the
\* shutdown message finds the mailbox full.
OnlyWindowIsLost ==
  \A m \in early \ window : status[target[m]] = "stopped" => fate[m] # "accepted"

\* A message is accepted by at most one mailbox and is in it, at its actor's
\* hand, or settled: none is lost or handled twice while the actor runs.
AcceptedIsSomewhere ==
  \A m \in Msgs :
    LET a == target[m]
        slots == {i \in DOMAIN mailbox[a] : mailbox[a][i] = m}
    IN  fate[m] = "accepted" =>
          /\ \A i, j \in slots : i = j
          /\ slots = {} <=> cur[a] = m

\* ActorSystem.Shutdown and ActorRef.Shutdown stop a started actor even when
\* the shutdown message is lost to a full mailbox.
ShutdownStops == \A a \in Actors : closed[a] /\ status[a] \in {"running", "polling"} ~> status[a] = "stopped"
=============================================================================
