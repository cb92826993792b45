------------------------- MODULE SupervisionProofs -------------------------
(***************************************************************************)
(* Theorems about the supervision of nodes, for any number of them and of  *)
(* commands: the types, that no managed server is lost, and that the       *)
(* terminal never indexes its table beyond the end.                        *)
(***************************************************************************)
EXTENDS Supervision, TLAPS

\* What stop and a start leave is a sequence of servers, no shorter.
LEMMA StoppedServers ==
    ASSUME TypeOK, NEW n \in Index
    PROVE  /\ Stopped(n) \in Seq(Server)
           /\ Len(Stopped(n)) = Len(servers)
           /\ \A s \in DOMAIN servers :
                /\ Stopped(n)[s].node = servers[s].node
                /\ Stopped(n)[s].kind = servers[s].kind
                /\ Stopped(n)[s].told =
                     (servers[s].told \/ (s = proc[n] /\ servers[s].kind = "managed"))
<1>1. servers \in Seq(Server) /\ DOMAIN servers = 1..Len(servers)
  BY DEF TypeOK
<1>2. CASE IsManaged(proc[n])
  <2>1. proc[n] \in 1..Len(servers)
    BY <1>1, <1>2 DEF IsManaged
  <2>2. Stopped(n) = [servers EXCEPT ![proc[n]].told = TRUE]
    BY <1>2 DEF Stopped
  <2>3. servers[proc[n]] \in Server
    BY <1>1, <2>1
  <2>6. [servers[proc[n]] EXCEPT !.told = TRUE] \in Server
    BY <2>3 DEF Server
  <2>4. Stopped(n) \in Seq(Server) /\ Len(Stopped(n)) = Len(servers)
    BY <1>1, <2>1, <2>2, <2>6
  <2>5. \A s \in DOMAIN servers : servers[s] \in Server
    BY <1>1
  <2>7. ASSUME NEW s \in DOMAIN servers
        PROVE  /\ Stopped(n)[s].node = servers[s].node
               /\ Stopped(n)[s].kind = servers[s].kind
               /\ Stopped(n)[s].told =
                    (servers[s].told \/ (s = proc[n] /\ servers[s].kind = "managed"))
    <3>1. CASE s = proc[n]
      <4>1. servers[s].kind = "managed"
        BY <1>2, <3>1 DEF IsManaged
      <4>2. Stopped(n)[s] = [servers[s] EXCEPT !.told = TRUE]
        BY <1>1, <2>1, <2>2, <3>1
      <4> QED
        BY <2>3, <3>1, <4>1, <4>2 DEF Server
    <3>2. CASE s # proc[n]
      <4>1. Stopped(n)[s] = servers[s]
        BY <1>1, <2>1, <2>2, <3>2
      <4> QED
        BY <3>2, <4>1, <2>5 DEF Server
    <3> QED
      BY <3>1, <3>2
  <2> QED
    BY <2>4, <2>7
<1>3. CASE ~IsManaged(proc[n])
  <2>1. Stopped(n) = servers
    BY <1>3 DEF Stopped
  <2>2. \A s \in DOMAIN servers : servers[s] \in Server
    BY <1>1
  <2> QED
    BY <1>1, <1>3, <2>1, <2>2 DEF IsManaged, Server
<1> QED
  BY <1>2, <1>3

\* A task takes a command out of a mailbox of commands.
LEMMA TakenTypes ==
    ASSUME TypeOK, NEW n \in Index, NEW cmd, Take(n, cmd)
    PROVE  cmds' \in [Index -> Seq(NodeCmd)]
<1>1. cmds[n] \in Seq(NodeCmd) /\ cmds[n] # <<>>
  BY DEF TypeOK, Take
<1>2. Tail(cmds[n]) \in Seq(NodeCmd)
  BY <1>1
<1> QED
  BY <1>2 DEF TypeOK, Take

\* Every start keeps the types, whatever it starts.
LEMMA StartTypes ==
    ASSUME TypeOK, NEW n \in Index, NEW after \in Seq(Server),
           NEW p \in Nat \cup {Nobody, Outsider},
           Starts(n, after, p), cmds' \in [Index -> Seq(NodeCmd)]
    PROVE  TypeOK'
BY DEF TypeOK, Starts, terminal, asked

LEMMA StartManagedTypes ==
    ASSUME TypeOK, NEW n \in Index, StartManaged(n)
    PROVE  TypeOK'
<1>1. cmds' \in [Index -> Seq(NodeCmd)]
  BY TakenTypes DEF StartManaged
<1>2. Stopped(n) \in Seq(Server)
  BY StoppedServers
<1>3. NewServer(n, "managed") \in Server
  BY DEF NewServer, Server
<1>4. Append(Stopped(n), NewServer(n, "managed")) \in Seq(Server)
  BY <1>2, <1>3
<1>5. Len(servers) + 1 \in Nat
  BY DEF TypeOK
<1> QED
  BY <1>1, <1>2, <1>4, <1>5, StartTypes DEF StartManaged

LEMMA StartBinaryTypes ==
    ASSUME TypeOK, NEW n \in Index, StartBinary(n)
    PROVE  TypeOK'
<1>1. cmds' \in [Index -> Seq(NodeCmd)]
  BY TakenTypes DEF StartBinary
<1>2. Stopped(n) \in Seq(Server)
  BY StoppedServers
<1>3. NewServer(n, "binary") \in Server
  BY DEF NewServer, Server
<1>4. Append(Stopped(n), NewServer(n, "binary")) \in Seq(Server)
  BY <1>2, <1>3
<1>5. Len(servers) + 1 \in Nat
  BY DEF TypeOK
<1> QED
  BY <1>1, <1>2, <1>4, <1>5, StartTypes DEF StartBinary

LEMMA StartExternalTypes ==
    ASSUME TypeOK, NEW n \in Index, StartExternal(n)
    PROVE  TypeOK'
<1>1. cmds' \in [Index -> Seq(NodeCmd)]
  BY TakenTypes DEF StartExternal
<1>2. Stopped(n) \in Seq(Server)
  BY StoppedServers
<1> QED
  BY <1>1, <1>2, StartTypes DEF StartExternal

\* The commands that start nothing keep the types.
LEMMA CommandTypes ==
    ASSUME TypeOK, NEW n \in Index, HandleStop(n) \/ HandleAsk(n) \/ HandleCleanup(n)
    PROVE  TypeOK'
<1>1. cmds' \in [Index -> Seq(NodeCmd)]
  BY TakenTypes DEF HandleStop, HandleAsk, HandleCleanup
<1>2. Stopped(n) \in Seq(Server)
  BY StoppedServers
<1>3. CASE HandleStop(n)
  BY <1>1, <1>2, <1>3 DEF TypeOK, HandleStop, terminal, asked
<1>4. CASE HandleAsk(n)
  BY <1>1, <1>4 DEF TypeOK, HandleAsk, terminal, asked
<1>5. CASE HandleCleanup(n)
  BY <1>1, <1>2, <1>5 DEF TypeOK, HandleCleanup, terminal, asked
<1> QED
  BY <1>3, <1>4, <1>5

\* What the user asks for keeps the types.
LEMMA OrderTypes ==
    ASSUME TypeOK, NEW n \in Index, NEW cmd \in NodeCmd, Order(n, cmd),
           wanted' \in [Index -> {"nothing", "stop"} \cup ProcTypes]
    PROVE  TypeOK'
<1>1. Append(cmds[n], cmd) \in Seq(NodeCmd)
  BY DEF TypeOK
<1>2. cmds' \in [Index -> Seq(NodeCmd)]
  BY <1>1 DEF TypeOK, Order
<1> QED
  BY <1>2 DEF TypeOK, Order, terminal

LEMMA TypeInit ==
    ASSUME Init PROVE TypeOK
BY SupervisionAssumption DEF Init, TypeOK, Index

LEMMA SpawnTypes ==
    ASSUME TypeOK, NEW k \in Sizes, NEW t \in ProcTypes, SpawnCluster(k, t)
    PROVE  TypeOK'
<1>1. k \in 1..MaxNodes /\ t \in NodeCmd
  BY SupervisionAssumption DEF NodeCmd
<1>2. <<t>> \in Seq(NodeCmd)
  BY <1>1
<1>3. cmds' \in [Index -> Seq(NodeCmd)]
  BY <1>2 DEF TypeOK, SpawnCluster
<1>4. wanted' \in [Index -> {"nothing", "stop"} \cup ProcTypes]
  BY DEF TypeOK, SpawnCluster
<1>5. task' \in [Index -> {"none", "idle", "polling", "asking", "ended"}]
  BY DEF TypeOK, SpawnCluster
<1>6. size' \in 0..MaxNodes /\ nodes' \in 0..size' /\ given' \in Nat
  BY <1>1, SupervisionAssumption DEF TypeOK, SpawnCluster
<1> QED
  BY <1>3, <1>4, <1>5, <1>6 DEF TypeOK, SpawnCluster

LEMMA ConnectivityTypes ==
    ASSUME TypeOK, OnNodeConnectivityChanged PROVE TypeOK'
<1>1. events \in Seq(Event) /\ events # <<>>
  BY DEF TypeOK, OnNodeConnectivityChanged
<1>2. Head(events) \in Event /\ Tail(events) \in Seq(Event)
  BY <1>1
<1>3. Head(events).up \in BOOLEAN
  BY <1>2 DEF Event
<1>4. shown' \in [Index -> BOOLEAN]
  BY <1>3 DEF TypeOK, OnNodeConnectivityChanged
<1> QED
  BY <1>2, <1>4 DEF TypeOK, OnNodeConnectivityChanged, asked

LEMMA CleanupTypes ==
    ASSUME TypeOK, CleanupNode PROVE TypeOK'
<1>1. nodes \in Index
  BY SupervisionAssumption DEF TypeOK, CleanupNode, Index
<1>2. Append(cmds[nodes], "cleanup") \in Seq(NodeCmd)
  BY <1>1 DEF TypeOK, NodeCmd
<1>3. cmds' \in [Index -> Seq(NodeCmd)]
  BY <1>2 DEF TypeOK, CleanupNode
<1>4. nodes' \in 0..size'
  BY <1>1, SupervisionAssumption DEF TypeOK, CleanupNode
<1> QED
  BY <1>3, <1>4 DEF TypeOK, CleanupNode

LEMMA LeaveTypes ==
    ASSUME TypeOK, Leave PROVE TypeOK'
<1>1. servers \in Seq(Server) /\ DOMAIN servers = 1..Len(servers) /\ Len(servers) \in Nat
  BY DEF TypeOK
<1>2. ASSUME NEW s \in DOMAIN servers
      PROVE  (IF IsManaged(s) THEN [servers[s] EXCEPT !.state = "closed"]
              ELSE servers[s]) \in Server
  <2>1. servers[s] \in Server
    BY <1>1
  <2> QED
    BY <2>1 DEF Server
<1>3. servers' \in [1..Len(servers) -> Server]
  BY <1>1, <1>2 DEF Leave
<1>4. servers' \in Seq(Server)
  BY <1>1, <1>3
<1> QED
  BY <1>4 DEF TypeOK, Leave, asked

LEMMA PollTypes ==
    ASSUME TypeOK, NEW n \in Index, Poll(n) \/ Status(n) \/ Reply(n)
    PROVE  TypeOK'
<1>1. CASE Poll(n)
  BY <1>1 DEF TypeOK, Poll, terminal, asked
<1>2. CASE Status(n)
  <2>1. Up(n) \in BOOLEAN
    BY DEF Up, Answers, TypeOK, Server
  <2>2. [node |-> n, up |-> Up(n)] \in Event
    BY <2>1 DEF Event
  <2>3. events' \in Seq(Event)
    BY <1>2, <2>2 DEF Status, TypeOK
  <2> QED
    BY <1>2, <2>3 DEF TypeOK, Status, terminal, asked
<1>3. CASE Reply(n)
  BY <1>3 DEF TypeOK, Reply, terminal, asked
<1> QED
  BY <1>1, <1>2, <1>3

LEMMA ServerTypes ==
    ASSUME TypeOK, NEW s \in ServerId, Listen(s) \/ Release(s)
    PROVE  TypeOK'
<1>1. s \in DOMAIN servers /\ servers \in Seq(Server) /\ s \in Nat
  BY DEF TypeOK, Listen, Release, ServerId
<1>2. servers[s] \in Server
  BY <1>1
<1>3. \A st \in {"listening", "closed"} :
        [servers EXCEPT ![s].state = st] \in Seq(Server)
  <2> TAKE st \in {"listening", "closed"}
  <2>1. [servers[s] EXCEPT !.state = st] \in Server
    BY <1>2 DEF Server
  <2> QED
    BY <1>1, <2>1
<1>4. CASE Listen(s)
  <2>1. servers' \in Seq(Server)
    BY <1>3, <1>4 DEF Listen
  <2>2. held' \in [Index -> Nat \cup {Nobody, Outsider}]
    BY <1>1, <1>4 DEF Listen, TypeOK
  <2> QED
    BY <1>4, <2>1, <2>2 DEF TypeOK, Listen, terminal, asked
<1>5. CASE Release(s)
  <2>1. servers' \in Seq(Server)
    BY <1>3, <1>5 DEF Release
  <2>2. held' \in [Index -> Nat \cup {Nobody, Outsider}]
    BY <1>5 DEF Release, TypeOK
  <2> QED
    BY <1>5, <2>1, <2>2 DEF TypeOK, Release, terminal, asked
<1> QED
  BY <1>4, <1>5

LEMMA TypeStep ==
    ASSUME TypeOK, [Next]_vars PROVE TypeOK'
<1>1. CASE UNCHANGED vars
  BY <1>1 DEF TypeOK, vars, terminal, asked
<1>2. ASSUME NEW k \in Sizes, NEW t \in ProcTypes, SpawnCluster(k, t) PROVE TypeOK'
  BY <1>2, SpawnTypes
<1>3. ASSUME NEW n \in Index, NEW t \in ProcTypes, StartNode(n, t) PROVE TypeOK'
  <2>1. t \in NodeCmd
    BY SupervisionAssumption DEF NodeCmd
  <2>2. wanted' \in [Index -> {"nothing", "stop"} \cup ProcTypes]
    BY <1>3 DEF StartNode, TypeOK
  <2> QED
    BY <1>3, <2>1, <2>2, OrderTypes DEF StartNode
<1>4. ASSUME NEW n \in Index, StopNode(n) \/ AskNode(n) PROVE TypeOK'
  <2>1. wanted' \in [Index -> {"nothing", "stop"} \cup ProcTypes]
    BY <1>4 DEF StopNode, AskNode, TypeOK
  <2>2. "stop" \in NodeCmd /\ "ask" \in NodeCmd
    BY DEF NodeCmd
  <2> QED
    BY <1>4, <2>1, <2>2, OrderTypes DEF StopNode, AskNode
<1>5. CASE OnNodeConnectivityChanged
  BY <1>5, ConnectivityTypes
<1>6. CASE Exit
  BY <1>6 DEF TypeOK, Exit, asked
<1>7. CASE CleanupNode
  BY <1>7, CleanupTypes
<1>8. CASE Leave
  BY <1>8, LeaveTypes
<1>9. ASSUME NEW n \in Index, NodeCommandHandler(n) PROVE TypeOK'
  BY <1>9, StartManagedTypes, StartBinaryTypes, StartExternalTypes, CommandTypes
  DEF NodeCommandHandler
<1>10. ASSUME NEW n \in Index, Poll(n) \/ Status(n) \/ Reply(n) PROVE TypeOK'
  BY <1>10, PollTypes
<1>11. ASSUME NEW s \in ServerId, Listen(s) \/ Release(s) PROVE TypeOK'
  BY <1>11, ServerTypes
<1>12. ASSUME NEW n \in Index, Visit(n) PROVE TypeOK'
  BY <1>12 DEF TypeOK, Visit, terminal, asked
<1> QED
  BY <1>1, <1>2, <1>3, <1>4, <1>5, <1>6, <1>7, <1>8, <1>9, <1>10, <1>11, <1>12
  DEF Next

\* No command, poll or event, in any order, leaves the types of the variables
\* (node.rs, handler.rs, state.rs).
THEOREM SupervisionTypes == Spec => []TypeOK
<1>1. Init => TypeOK
  BY TypeInit
<1>2. TypeOK /\ [Next]_vars => TypeOK'
  BY TypeStep
<1> QED
  BY <1>1, <1>2, PTL DEF Spec

-----------------------------------------------------------------------------

\* A start that first stops, and takes on a new server or none, loses none.
LEMMA OwnedByStart ==
    ASSUME TypeOK, ManagedIsOwned, NEW n \in Index, task[n] = "idle",
           NEW after \in {Stopped(n)} \cup
                 {Append(Stopped(n), NewServer(n, k)) : k \in {"managed", "binary"}},
           after # Stopped(n) => proc' = [proc EXCEPT ![n] = Len(servers) + 1],
           servers' = after,
           \A m \in Index \ {n} : proc'[m] = proc[m] /\ task'[m] = task[m],
           after # Stopped(n) => task'[n] # "ended"
    PROVE  ManagedIsOwned'
<1>1. /\ Stopped(n) \in Seq(Server) /\ Len(Stopped(n)) = Len(servers)
      /\ Len(servers) \in Nat /\ DOMAIN servers = 1..Len(servers)
      /\ \A s \in DOMAIN servers : servers[s] \in Server
  BY StoppedServers DEF TypeOK
<1>2. ASSUME NEW s \in 1..Len(servers),
             Stopped(n)[s].kind = "managed", ~Stopped(n)[s].told
      PROVE  /\ servers[s].node \in Index \ {n}
             /\ proc'[servers[s].node] = s /\ task'[servers[s].node] # "ended"
             /\ Stopped(n)[s].node = servers[s].node
  <2>1. /\ servers[s].kind = "managed" /\ ~servers[s].told /\ s # proc[n]
        /\ Stopped(n)[s].node = servers[s].node
    BY <1>1, <1>2, StoppedServers
  <2>2. proc[servers[s].node] = s /\ task[servers[s].node] # "ended"
    BY <1>1, <2>1 DEF ManagedIsOwned
  <2>3. servers[s].node \in Index \ {n}
    BY <1>1, <2>1, <2>2 DEF Server
  <2> QED
    BY <2>1, <2>2, <2>3
<1>3. CASE after = Stopped(n)
  BY <1>1, <1>2, <1>3 DEF ManagedIsOwned
<1>4. CASE after # Stopped(n)
  <2>1. PICK k \in {"managed", "binary"} : after = Append(Stopped(n), NewServer(n, k))
    BY <1>4
  <2>2. NewServer(n, k) \in Server
    BY DEF NewServer, Server
  <2>3. ASSUME NEW s \in DOMAIN servers',
               servers'[s].kind = "managed", ~servers'[s].told
        PROVE  proc'[servers'[s].node] = s /\ task'[servers'[s].node] # "ended"
    <3>1. s \in 1..(Len(servers) + 1)
      BY <1>1, <2>1, <2>2
    <3>2. CASE s = Len(servers) + 1
      <4>1. servers'[s].node = n
        BY <1>1, <2>1, <2>2, <3>2 DEF NewServer
      <4>2. proc'[n] = s
        BY <1>4, <3>2 DEF TypeOK
      <4> QED
        BY <1>4, <4>1, <4>2
    <3>3. CASE s # Len(servers) + 1
      <4>1. s \in 1..Len(servers) /\ servers'[s] = Stopped(n)[s]
        BY <1>1, <2>1, <2>2, <3>1, <3>3
      <4> QED
        BY <1>2, <2>3, <4>1
    <3> QED
      BY <3>2, <3>3
  <2> QED
    BY <2>3 DEF ManagedIsOwned
<1> QED
  BY <1>3, <1>4

\* A step that starts and stops nothing and ends no task loses no server.
LEMMA OwnedKept ==
    ASSUME TypeOK, ManagedIsOwned, DOMAIN servers' = DOMAIN servers,
           \A s \in DOMAIN servers :
             /\ servers'[s].node = servers[s].node
             /\ servers'[s].kind = servers[s].kind
             /\ servers'[s].told = servers[s].told,
           proc' = proc,
           \A n \in Index : task[n] # "ended" => task'[n] # "ended"
    PROVE  ManagedIsOwned'
<1>1. ASSUME NEW s \in DOMAIN servers PROVE servers[s].node \in Index
  <2>1. servers[s] \in Server
    BY DEF TypeOK
  <2> QED
    BY <2>1 DEF Server
<1> QED
  BY <1>1 DEF ManagedIsOwned

LEMMA OwnedHandler ==
    ASSUME TypeOK, ManagedIsOwned, NEW n \in Index, NodeCommandHandler(n)
    PROVE  ManagedIsOwned'
<1>1. CASE StartManaged(n)
  BY <1>1, OwnedByStart DEF StartManaged, Starts, Take, TypeOK
<1>2. CASE StartBinary(n)
  BY <1>2, OwnedByStart DEF StartBinary, Starts, Take, TypeOK
<1>3. CASE StartExternal(n)
  BY <1>3, OwnedByStart DEF StartExternal, Starts, Take, TypeOK
<1>4. CASE HandleStop(n)
  BY <1>4, OwnedByStart DEF HandleStop, Take, TypeOK
<1>5. CASE HandleAsk(n)
  BY <1>5, OwnedKept DEF HandleAsk, Take, TypeOK
<1>6. CASE HandleCleanup(n)
  BY <1>6, OwnedByStart DEF HandleCleanup, Take, TypeOK
<1> QED
  BY <1>1, <1>2, <1>3, <1>4, <1>5, <1>6 DEF NodeCommandHandler

LEMMA OwnedStep ==
    ASSUME TypeOK, ManagedIsOwned, [Next]_vars PROVE ManagedIsOwned'
<1>1. /\ DOMAIN servers = 1..Len(servers)
      /\ \A s \in DOMAIN servers : servers[s] \in Server
  BY DEF TypeOK
<1>2. CASE UNCHANGED vars
  BY <1>2, OwnedKept DEF vars
<1>3. ASSUME NEW k \in Sizes, NEW t \in ProcTypes, SpawnCluster(k, t)
      PROVE  ManagedIsOwned'
  BY <1>3, OwnedKept DEF SpawnCluster, TypeOK
<1>4. ASSUME NEW n \in Index, NEW cmd, Order(n, cmd) PROVE ManagedIsOwned'
  BY <1>4, OwnedKept DEF Order
<1>5. CASE OnNodeConnectivityChanged \/ Exit \/ CleanupNode
  BY <1>5, OwnedKept DEF OnNodeConnectivityChanged, Exit, CleanupNode
<1>6. CASE Leave
  BY <1>1, <1>6, OwnedKept DEF Leave, Server
<1>7. ASSUME NEW n \in Index, NodeCommandHandler(n) PROVE ManagedIsOwned'
  BY <1>7, OwnedHandler
<1>8. ASSUME NEW n \in Index, Poll(n) \/ Status(n) \/ Reply(n) PROVE ManagedIsOwned'
  BY <1>8, OwnedKept DEF Poll, Status, Reply, TypeOK
<1>9. ASSUME NEW s \in ServerId, Listen(s) \/ Release(s) PROVE ManagedIsOwned'
  BY <1>1, <1>9, OwnedKept DEF Listen, Release, Server
<1>10. ASSUME NEW n \in Index, Visit(n) PROVE ManagedIsOwned'
  BY <1>10, OwnedKept DEF Visit
<1> QED
  BY <1>2, <1>3, <1>4, <1>5, <1>6, <1>7, <1>8, <1>9, <1>10
  DEF Next, StartNode, StopNode, AskNode

\* Whatever is started, stopped, restarted and cleaned up, in any order, no
\* managed server is left without a task that will tell it to shut down
\* (handler.rs, start, stop, cleanup).
THEOREM ServersAreOwned == Spec => []ManagedIsOwned
<1>1. Init => ManagedIsOwned
  BY DEF Init, ManagedIsOwned
<1>2. TypeOK /\ ManagedIsOwned /\ [Next]_vars => ManagedIsOwned'
  BY OwnedStep
<1> QED
  BY <1>1, <1>2, SupervisionTypes, PTL DEF Spec

-----------------------------------------------------------------------------

\* EventsNameNodes is about events already sent.  While the terminal runs its
\* table is the whole cluster, and only tasks of the cluster ever send.
TasksAreOfNodes ==
    /\ ui = "running" => nodes = size
    /\ \A n \in Index : task[n] # "none" => n <= size

NamedInv == EventsNameNodes /\ TasksAreOfNodes

\* A step that sends no event and leaves the terminal as it is.
LEMMA NamedKept ==
    ASSUME TypeOK, NamedInv, UNCHANGED terminal, UNCHANGED events,
           \A n \in Index : task[n] = "none" => task'[n] = "none"
    PROVE  NamedInv'
BY DEF NamedInv, EventsNameNodes, TasksAreOfNodes, terminal

\* Only a task that was started takes a command.
LEMMA NamedHandler ==
    ASSUME TypeOK, NamedInv, NEW n \in Index, NodeCommandHandler(n)
    PROVE  NamedInv'
<1>1. task[n] = "idle" /\ UNCHANGED terminal /\ UNCHANGED events
  BY DEF NodeCommandHandler, StartManaged, StartBinary, StartExternal, Starts,
         HandleStop, HandleAsk, HandleCleanup, Take
<1>2. \A m \in Index \ {n} : task'[m] = task[m]
  BY DEF NodeCommandHandler, StartManaged, StartBinary, StartExternal, Starts,
         HandleStop, HandleAsk, HandleCleanup, Take, TypeOK
<1> QED
  BY <1>1, <1>2, NamedKept

LEMMA NamedStep ==
    ASSUME TypeOK, NamedInv, [Next]_vars PROVE NamedInv'
<1>1. CASE UNCHANGED vars
  BY <1>1, NamedKept DEF vars
<1>2. ASSUME NEW k \in Sizes, NEW t \in ProcTypes, SpawnCluster(k, t) PROVE NamedInv'
  <2>1. size = 0 /\ \A n \in Index : task[n] = "none"
    BY <1>2, SupervisionAssumption
    DEF SpawnCluster, NamedInv, TasksAreOfNodes, TypeOK, Index
  <2>2. \A i \in DOMAIN events : events[i].node <= nodes
    BY <1>2 DEF SpawnCluster, NamedInv, EventsNameNodes
  <2>3. \A i \in DOMAIN events : events[i] \in Event
    BY DEF TypeOK
  <2>4. events = <<>>
    <3> SUFFICES ASSUME events # <<>> PROVE FALSE
      OBVIOUS
    <3>1. 1 \in DOMAIN events
      BY DEF TypeOK
    <3>2. events[1].node \in 1..MaxNodes /\ events[1].node <= 0
      BY <1>2, <2>2, <2>3, <3>1 DEF SpawnCluster, Event, Index
    <3> QED
      BY <3>2
  <2> QED
    BY <1>2, <2>1, <2>4 DEF SpawnCluster, NamedInv, EventsNameNodes, TasksAreOfNodes
<1>3. ASSUME NEW n \in Index, NEW cmd, Order(n, cmd) PROVE NamedInv'
  BY <1>3, NamedKept DEF Order
<1>4. CASE OnNodeConnectivityChanged
  <2>1. \A i \in DOMAIN events' : i + 1 \in DOMAIN events /\ events'[i] = events[i + 1]
    BY <1>4 DEF OnNodeConnectivityChanged, TypeOK
  <2> QED
    BY <1>4, <2>1
    DEF OnNodeConnectivityChanged, NamedInv, EventsNameNodes, TasksAreOfNodes
<1>5. CASE Exit \/ CleanupNode \/ Leave
  BY <1>5 DEF Exit, CleanupNode, Leave, NamedInv, EventsNameNodes, TasksAreOfNodes
<1>6. ASSUME NEW n \in Index, NodeCommandHandler(n) PROVE NamedInv'
  BY <1>6, NamedHandler
<1>7. ASSUME NEW n \in Index, Poll(n) \/ Reply(n) PROVE NamedInv'
  BY <1>7, NamedKept DEF Poll, PollDue, Reply, TypeOK
<1>8. ASSUME NEW n \in Index, Status(n) PROVE NamedInv'
  <2>1. n <= size
    BY <1>8 DEF Status, NamedInv, TasksAreOfNodes
  <2>2. UNCHANGED terminal /\ \A m \in Index : task[m] = "none" => task'[m] = "none"
    BY <1>8 DEF Status, TypeOK
  <2>3. ASSUME ui' = "running", NEW i \in DOMAIN events'
        PROVE  events'[i].node <= nodes'
    <3>1. ui = "running" /\ nodes' = nodes /\ nodes = size
      BY <2>2, <2>3 DEF terminal, NamedInv, TasksAreOfNodes
    <3>2. events' = Append(events, [node |-> n, up |-> Up(n)])
      BY <1>8, <3>1 DEF Status
    <3>3. events'[i].node = n \/ (i \in DOMAIN events /\ events'[i] = events[i])
      BY <2>3, <3>2 DEF TypeOK
    <3> QED
      BY <2>1, <3>1, <3>3 DEF NamedInv, EventsNameNodes
  <2> QED
    BY <2>2, <2>3 DEF NamedInv, EventsNameNodes, TasksAreOfNodes, terminal
<1>9. ASSUME NEW s \in ServerId, Listen(s) \/ Release(s) PROVE NamedInv'
  BY <1>9, NamedKept DEF Listen, Release
<1>10. ASSUME NEW n \in Index, Visit(n) PROVE NamedInv'
  BY <1>10, NamedKept DEF Visit
<1> QED
  BY <1>1, <1>2, <1>3, <1>4, <1>5, <1>6, <1>7, <1>8, <1>9, <1>10
  DEF Next, StartNode, StopNode, AskNode

\* The terminal never looks up a node of an event that its table does not have
\* (state.rs, on_node_connectivity_changed).
THEOREM EventsAreOfNodes == Spec => []EventsNameNodes
<1>1. Init => NamedInv
  BY DEF Init, NamedInv, EventsNameNodes, TasksAreOfNodes
<1>2. TypeOK /\ NamedInv /\ [Next]_vars => NamedInv'
  BY NamedStep
<1>3. NamedInv => EventsNameNodes
  BY DEF NamedInv
<1> QED
  BY <1>1, <1>2, <1>3, SupervisionTypes, PTL DEF Spec

=============================================================================
