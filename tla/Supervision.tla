---------------------------- MODULE Supervision ----------------------------
(***************************************************************************)
(* The nodes of raft-repl: the thread of the terminal (main.rs, state.rs)  *)
(* with its table of nodes, the command task of every node (node.rs,       *)
(* handler.rs), and the servers those tasks start, each of which has to    *)
(* bind the port of its node before it can answer (raft-server/lib.rs).    *)
(*                                                                         *)
(* The terminal sends commands to the mailbox of a task and never waits,   *)
(* except when it leaves; the tasks send events to the one mailbox of the  *)
(* terminal.  Nodes are numbered from 1, here as in the order of cleanup.  *)
(* Of the events only the connectivity of a node is kept: the others fill  *)
(* the popup and the list of messages, which no other part reads.          *)
(***************************************************************************)
EXTENDS Naturals, Sequences, FiniteSets

CONSTANTS
    MaxNodes,       \* the ports that may be given to nodes
    Sizes,          \* the cluster sizes that may be spawned
    ProcTypes,      \* of enum ProcType, those that may be asked for
    Nobody,         \* ProcState::Disconnected; a port that is free
    Outsider        \* ProcKind::External; a port some other program has

\* What follows restricts the runs, not the code.
CONSTANTS
    Visited,        \* the ports that other programs take and leave
    MaxCommands,    \* how many commands the tasks are given
    MaxEvents       \* how many events of a node may wait for the terminal

ASSUME SupervisionAssumption ==
    /\ MaxNodes \in Nat \ {0} /\ MaxCommands \in Nat /\ MaxEvents \in Nat
    /\ Sizes \subseteq 1..MaxNodes
    /\ ProcTypes \subseteq {"managed", "binary", "external"}
    /\ Visited \subseteq 1..MaxNodes
    /\ Nobody \notin Nat /\ Outsider \notin Nat /\ Nobody # Outsider

Index == 1..MaxNodes
ServerId == 1..MaxCommands

VARIABLES
    ui,             \* what the terminal does: runs, leaves, is gone
    size,           \* the size of the cluster, from which seeds are made
    nodes,          \* the length of State::nodes
    shown,          \* whether the table shows a node as online
    events,         \* the mailbox of the terminal
    cmds,           \* the mailbox of every command task
    task,           \* where every command task is
    proc,           \* CommandHandler::proc of every task
    servers,        \* every server that was started, in that order
    held,           \* who has the port of a node
    given,          \* how many commands they were given
    wanted          \* history: the last thing asked of a node

terminal == <<ui, size, nodes, shown>>
asked    == <<given, wanted>>
vars == <<terminal, events, cmds, task, proc, servers, held, asked>>

Event == [node : Index, up : BOOLEAN]

NodeCmd == {"managed", "binary", "external", "stop", "ask", "cleanup"}

Server ==
    [node : Index, kind : {"managed", "binary"},
     state : {"starting", "listening", "closed"}, told : BOOLEAN]

IsManaged(s) == s \in DOMAIN servers /\ servers[s].kind = "managed"

\* Whoever has a port answers a call, unless it is a server that shuts down:
\* its thread has ended when the call arrives.
Answers(h) ==
    \/ h = Outsider
    \/ h \in DOMAIN servers /\ ~servers[h].told

\* A Faulty definition below is no part of the model: it is the definition it
\* is named after with a bug, which PROJECT.json pairs with a property.

Init ==
    /\ ui = "running" /\ size = 0 /\ nodes = 0
    /\ shown = [n \in Index |-> FALSE]
    /\ events = <<>>
    /\ cmds = [n \in Index |-> <<>>]
    /\ task = [n \in Index |-> "none"]
    /\ proc = [n \in Index |-> Nobody]
    /\ servers = <<>>
    /\ held = [n \in Index |-> Nobody]
    /\ given = 0
    /\ wanted = [n \in Index |-> "nothing"]

-----------------------------------------------------------------------------
(* The terminal *)

\* A cluster is spawned into an empty table only: a task per node, with the
\* command to start in its mailbox.
SpawnCluster(k, type) ==
    /\ ui = "running" /\ nodes = 0 /\ given + k <= MaxCommands
    /\ size' = k /\ nodes' = k
    /\ task' = [n \in Index |-> IF n <= k THEN "idle" ELSE task[n]]
    /\ cmds' = [n \in Index |-> IF n <= k THEN <<type>> ELSE cmds[n]]
    /\ wanted' = [n \in Index |-> IF n <= k THEN type ELSE wanted[n]]
    /\ given' = given + k
    /\ UNCHANGED <<ui, shown, events, proc, servers, held>>

Order(n, cmd) ==
    /\ ui = "running" /\ n <= nodes /\ given < MaxCommands
    /\ cmds' = [cmds EXCEPT ![n] = Append(@, cmd)]
    /\ given' = given + 1
    /\ UNCHANGED <<terminal, events, task, proc, servers, held>>

\* Start and restart are the same command to the task.
StartNode(n, type) ==
    /\ Order(n, type)
    /\ wanted' = [wanted EXCEPT ![n] = type]

StopNode(n) ==
    /\ Order(n, "stop")
    /\ wanted' = [wanted EXCEPT ![n] = "stop"]

\* Appending to a stream, reading one, a ping, a request for the status.
AskNode(n) ==
    /\ Order(n, "ask")
    /\ UNCHANGED wanted

OnNodeConnectivityChanged ==
    /\ ui = "running" /\ events # <<>>
    /\ shown' = [shown EXCEPT ![Head(events).node] = Head(events).up]
    /\ events' = Tail(events)
    /\ UNCHANGED <<ui, size, nodes, cmds, task, proc, servers, held, asked>>

\* The user leaves: from here on the terminal only cleans up.
Exit ==
    /\ ui = "running"
    /\ ui' = "leaving"
    /\ UNCHANGED <<size, nodes, shown, events, cmds, task, proc, servers, held, asked>>

\* Whether the task of the node that was cleaned up last has said so.
CleanedUp == nodes < size => task[nodes + 1] = "ended"

\* A cleanup that does not see that the table is empty.
FaultyCleanupNode ==
    /\ ui = "leaving" /\ CleanedUp
    /\ cmds' = [n \in Index |-> IF n = nodes THEN Append(cmds[n], "cleanup") ELSE cmds[n]]
    /\ nodes' = nodes - 1
    /\ UNCHANGED <<ui, size, shown, events, task, proc, servers, held, asked>>

\* Nodes leave the table from its end, each when the one before has ended.
CleanupNode ==
    /\ ui = "leaving" /\ nodes > 0 /\ CleanedUp
    /\ cmds' = [cmds EXCEPT ![nodes] = Append(@, "cleanup")]
    /\ wanted' = [wanted EXCEPT ![nodes] = "stop"]
    /\ nodes' = nodes - 1
    /\ UNCHANGED <<ui, size, shown, events, task, proc, servers, held, given>>

\* A terminal that goes on after it has cleaned up.
FaultyLeave ==
    /\ ui = "leaving" /\ nodes = 0 /\ CleanedUp
    /\ ui' = "running"
    /\ UNCHANGED <<size, nodes, shown, events, cmds, task, proc, servers, held, asked>>

\* The program ends, and with it what runs in its process.
Leave ==
    /\ ui = "leaving" /\ nodes = 0 /\ CleanedUp
    /\ ui' = "gone"
    /\ servers' = [s \in DOMAIN servers |->
                     IF IsManaged(s) THEN [servers[s] EXCEPT !.state = "closed"]
                     ELSE servers[s]]
    /\ held' = [n \in Index |-> IF IsManaged(held[n]) THEN Nobody ELSE held[n]]
    /\ UNCHANGED <<size, nodes, shown, events, cmds, task, proc, asked>>

-----------------------------------------------------------------------------
(* The command task of a node *)

\* A task runs one command to its end before it takes the next.
Take(n, cmd) ==
    /\ ui # "gone" /\ task[n] = "idle"
    /\ cmds[n] # <<>> /\ Head(cmds[n]) = cmd
    /\ cmds' = [cmds EXCEPT ![n] = Tail(@)]

\* A shutdown that reaches only a server that waits for it already: one that
\* has not bound its port yet never hears of it.
FaultyStopped(n) ==
    IF IsManaged(proc[n]) /\ servers[proc[n]].state = "listening"
    THEN [servers EXCEPT ![proc[n]].told = TRUE]
    ELSE servers

\* The servers after CommandHandler::stop.  A managed server is told to shut
\* down.  A child process is not: the future that would kill it is dropped
\* before it runs.  A process of somebody else cannot be.
Stopped(n) ==
    IF IsManaged(proc[n]) THEN [servers EXCEPT ![proc[n]].told = TRUE]
                          ELSE servers

\* What a start leaves: the process is in place, the status is asked for.
Starts(n, after, p) ==
    /\ servers' = after
    /\ proc' = [proc EXCEPT ![n] = p]
    /\ task' = [task EXCEPT ![n] = "polling"]
    /\ UNCHANGED <<terminal, events, held, asked>>

NewServer(n, kind) == [node |-> n, kind |-> kind, state |-> "starting", told |-> FALSE]

\* A start that does not stop first: the thread of the server before runs on.
FaultyStartManaged(n) ==
    /\ Take(n, "managed") /\ size % 2 = 1
    /\ Starts(n, Append(servers, NewServer(n, "managed")), Len(servers) + 1)

\* A managed node refuses to be part of a cluster of even size.
StartManaged(n) ==
    /\ Take(n, "managed")
    /\ IF size % 2 = 0
       THEN Starts(n, Stopped(n), Nobody)
       ELSE Starts(n, Append(Stopped(n), NewServer(n, "managed")), Len(servers) + 1)

\* A child process may fail to start.
StartBinary(n) ==
    /\ Take(n, "binary")
    /\ \/ Starts(n, Stopped(n), Nobody)
       \/ Starts(n, Append(Stopped(n), NewServer(n, "binary")), Len(servers) + 1)

StartExternal(n) ==
    /\ Take(n, "external")
    /\ Starts(n, Stopped(n), Outsider)

HandleStop(n) ==
    /\ Take(n, "stop")
    /\ servers' = Stopped(n)
    /\ proc' = [proc EXCEPT ![n] = Nobody]
    /\ UNCHANGED <<terminal, events, task, held, asked>>

\* A question to a node that is not connected is answered by a message.
HandleAsk(n) ==
    /\ Take(n, "ask")
    /\ task' = [task EXCEPT ![n] = IF proc[n] = Nobody THEN "idle" ELSE "asking"]
    /\ UNCHANGED <<terminal, events, proc, servers, held, asked>>

\* A task that goes on after the cleanup and does not report it.
FaultyHandleCleanup(n) ==
    /\ Take(n, "cleanup")
    /\ servers' = Stopped(n)
    /\ proc' = [proc EXCEPT ![n] = Nobody]
    /\ UNCHANGED <<terminal, events, task, held, asked>>

HandleCleanup(n) ==
    /\ Take(n, "cleanup")
    /\ servers' = Stopped(n)
    /\ proc' = [proc EXCEPT ![n] = Nobody]
    /\ task' = [task EXCEPT ![n] = "ended"]
    /\ UNCHANGED <<terminal, events, held, asked>>

NodeCommandHandler(n) ==
    \/ StartManaged(n) \/ StartBinary(n) \/ StartExternal(n)
    \/ HandleStop(n) \/ HandleAsk(n) \/ HandleCleanup(n)

\* A task that only polls what it is connected to.
FaultyPollDue(n) == task[n] = "idle" /\ cmds[n] = <<>> /\ proc[n] # Nobody

\* A second without a command: the task asks its node for the status.
PollDue(n) == task[n] = "idle" /\ cmds[n] = <<>>

Poll(n) ==
    /\ ui # "gone" /\ PollDue(n)
    /\ task' = [task EXCEPT ![n] = "polling"]
    /\ UNCHANGED <<terminal, events, cmds, proc, servers, held, asked>>

\* Whether a status request by the task of n succeeds.  It goes to the port:
\* to the process of the task or to whoever is there in its place.
Up(n) == proc[n] # Nobody /\ Answers(held[n])

\* A terminal that is leaving handles no event any more: none is recorded.
Room(n) ==
    ui = "running" => Cardinality({i \in DOMAIN events : events[i].node = n}) < MaxEvents

Status(n) ==
    /\ ui # "gone" /\ task[n] = "polling" /\ Room(n)
    /\ events' = IF ui = "running" THEN Append(events, [node |-> n, up |-> Up(n)])
                 ELSE events
    /\ task' = [task EXCEPT ![n] = "idle"]
    /\ UNCHANGED <<terminal, cmds, proc, servers, held, asked>>

\* The answer to a question, an error or a timeout.
Reply(n) ==
    /\ ui # "gone" /\ task[n] = "asking"
    /\ task' = [task EXCEPT ![n] = "idle"]
    /\ UNCHANGED <<terminal, events, cmds, proc, servers, held, asked>>

-----------------------------------------------------------------------------
(* The servers and their ports *)

\* A server that finds its port taken gives up for good, although its node
\* goes on.  A child process ends when its cluster is of even size.
Binds(s) == held[servers[s].node] = Nobody /\ size % 2 = 1

Listen(s) ==
    /\ s \in DOMAIN servers /\ servers[s].state = "starting"
    /\ IF Binds(s)
       THEN /\ servers' = [servers EXCEPT ![s].state = "listening"]
            /\ held' = [held EXCEPT ![servers[s].node] = s]
       ELSE /\ servers' = [servers EXCEPT ![s].state = "closed"]
            /\ UNCHANGED held
    /\ UNCHANGED <<terminal, events, cmds, task, proc, asked>>

\* A server that was told to shut down closes its port when its task runs.
Release(s) ==
    /\ s \in DOMAIN servers /\ servers[s].state = "listening" /\ servers[s].told
    /\ servers' = [servers EXCEPT ![s].state = "closed"]
    /\ held' = [held EXCEPT ![servers[s].node] = Nobody]
    /\ UNCHANGED <<terminal, events, cmds, task, proc, asked>>

Visit(n) ==
    /\ n \in Visited /\ n <= size
    /\ \/ held[n] = Nobody /\ held' = [held EXCEPT ![n] = Outsider]
       \/ held[n] = Outsider /\ held' = [held EXCEPT ![n] = Nobody]
    /\ UNCHANGED <<terminal, events, cmds, task, proc, servers, asked>>

Next ==
    \/ \E k \in Sizes, t \in ProcTypes : SpawnCluster(k, t)
    \/ \E n \in Index, t \in ProcTypes : StartNode(n, t)
    \/ \E n \in Index : StopNode(n) \/ AskNode(n)
    \/ OnNodeConnectivityChanged \/ Exit \/ CleanupNode \/ Leave
    \/ \E n \in Index : NodeCommandHandler(n) \/ Poll(n) \/ Status(n) \/ Reply(n)
    \/ \E s \in ServerId : Listen(s) \/ Release(s)
    \/ \E n \in Index : Visit(n)

Spec == Init /\ [][Next]_vars

\* The loop of the terminal and the tasks of the runtime run on.  What the
\* user and other programs do is nobody's obligation.
Fairness ==
    /\ WF_vars(OnNodeConnectivityChanged) /\ WF_vars(CleanupNode) /\ WF_vars(Leave)
    /\ \A n \in Index :
         WF_vars(NodeCommandHandler(n)) /\ WF_vars(Poll(n)) /\ WF_vars(Status(n)) /\ WF_vars(Reply(n))
    /\ \A s \in ServerId : WF_vars(Listen(s)) /\ WF_vars(Release(s))

FairSpec == Spec /\ Fairness

-----------------------------------------------------------------------------
(* Properties *)

\* The types of the variables; a server is at its place in servers.
TypeOK ==
    /\ ui \in {"running", "leaving", "gone"}
    /\ size \in 0..MaxNodes /\ nodes \in 0..size
    /\ shown \in [Index -> BOOLEAN]
    /\ events \in Seq(Event)
    /\ cmds \in [Index -> Seq(NodeCmd)]
    /\ task \in [Index -> {"none", "idle", "polling", "asking", "ended"}]
    /\ servers \in Seq(Server)
    /\ proc \in [Index -> Nat \cup {Nobody, Outsider}]
    /\ held \in [Index -> Nat \cup {Nobody, Outsider}]
    /\ given \in Nat
    /\ wanted \in [Index -> {"nothing", "stop"} \cup ProcTypes]

\* No state machine is left behind: a managed server that was not told to shut
\* down is the process of the task of its node, and that task has not ended.
\* To drop the handle of a server closes its port (lib.rs, start) but does not
\* end its thread, whose seeds hold its mailbox open: it would go on to stand
\* for election.  A start replaces the process, a refused start drops it, a
\* cleanup ends the task: each of them has to stop first what is there
\* (handler.rs, start, cleanup).
ManagedIsOwned ==
    \A s \in DOMAIN servers :
        servers[s].kind = "managed" /\ ~servers[s].told
            => proc[servers[s].node] = s /\ task[servers[s].node] # "ended"

\* The terminal indexes its table with the node of an event, which panics for
\* a node that is not there (state.rs, on_node_connectivity_changed).  So while
\* it handles events each is about a node of its table, which is filled in one
\* step when a cluster is spawned and emptied only once no event is handled.
EventsNameNodes ==
    ui = "running" => \A i \in DOMAIN events : events[i].node <= nodes

\* The table tells the truth in the end: a node that stays reachable is shown
\* as online at last and for good, one that stays unreachable is not.  Events
\* of earlier polls, starts and stops are in the mailbox all the while.
ShownIsTrue ==
    \A n \in Index :
        /\ <>[](ui = "running" /\ n <= nodes /\ Up(n)) => <>[]shown[n]
        /\ <>[](ui = "running" /\ n <= nodes /\ ~Up(n)) => <>[]~shown[n]

\* A node that is asked to stop, or cleaned up, and is not started again ends
\* up without a process, and no managed server keeps its port: whatever was
\* started, asked and polled before, and however late a server binds.
StopTakesEffect ==
    \A n \in Index :
        <>[](wanted[n] = "stop") => <>[](proc[n] = Nobody /\ ~IsManaged(held[n]))

\* Leaving blocks the terminal until every task has ended, and ends: a task
\* that is busy finishes and comes to the cleanup (state.rs, cleanup).
LeavingEnds ==
    ui = "leaving" ~> (ui = "gone" /\ \A n \in Index : task[n] \in {"none", "ended"})

-----------------------------------------------------------------------------
(* Not kept *)

\* "Starts a node", "Restarts a node" (command.rs): a managed node of a
\* cluster of odd size whose port nobody else wants gets to listen on it.
StartsANode ==
    \A n \in Index :
        <>[](ui = "running" /\ size % 2 = 1 /\ wanted[n] = "managed")
            => <>[](held[n] = proc[n])

=============================================================================
