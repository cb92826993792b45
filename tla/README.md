# A verification of raft-playground

Three Rust programs make up the repository: `raft-server`, a node of a cluster
that replicates a log of stream events; `raft-repl`, a terminal that starts,
stops and drives such nodes; and `raft-client`, which prints a line. This
directory holds TLA+ models of the server, of the supervision of servers by the
terminal, and of what lies between its keyboard and the streams of a node; the
configurations that model-check them with TLC; and theorems about them that
TLAPS proves. Line numbers refer to
`src/raft-server/src/` unless a path is given.

In short:

- The cluster is modelled down to its remote calls: the thread of each node,
  its view of its peers, the answers to its clients, the messages in flight,
  restarts and lost messages.
- Elections: a term is opened by a candidate only, a node that remembers votes
  once until the term is led. In a cluster of three a leader is elected by a
  majority of its own term, and the handlers implement an abstract election; in
  a larger one that holds in the first term, and after it the majority may be
  made of votes of several terms. All of this is proved.
- Replication: under a stable leader what it believes replicated, what it
  confirms and what it commits is in every log. This is proved for clusters and
  logs of any size, over a network that loses, reorders and repeats. That a follower that
  lost everything is repaired is model-checked, and so is that a confirmed write
  survives a change of leader, which it does only where rounds of calls do not overlap
  and truncation leaves nothing of a deposed leader behind. Where it does leave something
  a call may be confirmed that no node but the leader has.
- Clients: no call is forgotten, a client is told once, and what it is told is
  where its events were put when the call was accepted: an abstract append
  service, implemented in every regime, and that is proved.
- Supervision: through any sequence of starts, stops and restarts no managed server
  is left with a thread that nobody told to end, and the terminal never indexes its table beyond its end. Both
  are proved. That the table tells the truth in the end, that a stop takes
  effect and that leaving ends is model-checked.
- Terminal: the history and its file survive any sequence of commands, failed
  writes and restarts, walks through it and the popup stay within what there is,
  and a stream with an ASCII name is read back as it was written. These are
  proved, for histories, texts and logs of any size.
- The code departs from what the repository says in four respects, each shown by
  a run that violates it: see *Findings*.

## 1. Inventory

### Components of the server

| Component | State | Operations | Interacts with |
|---|---|---|---|
| state machine thread (`machine.rs`) | `Persistent` (id, term, entries), `Volatile` (status, leader, voted_for, tally, commit_index, inflights, election timer) | `on_tick`, `on_request_vote`, `on_vote_received`, `on_append_entries`, `on_append_entries_resp`, `on_append_stream`, `on_read_stream`, `on_status`, `switch_to_candidate`, `switch_to_leader` | takes one `Msg` at a time from a channel; answers through oneshot channels; calls the peers through `Seeds` |
| log (`entry.rs`) | a vector of entries, the cached last index and term | `append`, `add`, `contains_log`, `remove_uncommitted_entries_from`, `get_previous_entry`, `read_entries_from`, `last_index`, `last_term` | used by the thread and by `Seeds` |
| peers (`seed.rs`) | per peer: a lazy connection, next_index, match_index | `send_append_entries`, `request_vote`, `compute_lowest_replicated_index`, the counters' setters | every call runs in a task of its own and posts its answer as a `Msg` |
| services (`grpc.rs`) | none | the Raft calls between nodes; `append`, `read`, `ping`, `status` for clients | turn a call into a `Msg` and wait for the oneshot |
| lifecycle (`lib.rs`, `options.rs`, `main.rs`) | the handles of a running node | `Node::new`, `start`, `wait_for_completion`, `shutdown` | spawns the thread and the server |

The thread is sequential. What makes it hard is around it: a tick every
`HEARTBEAT_DELAY` repeats unacknowledged work, the calls and the answers overtake
one another, a failed call is dropped without a trace, and `Persistent::load`
(140-146) loads nothing, so a restart forgets term, vote and log.

What makes it correct: a term has one leader; a leader is elected by a majority
of its term; a vote is given once; the cached fields of a log tell the truth;
what a leader believes a peer has, it has; what a client was told is confirmed
stays, in the position it was told; every call is answered; a follower that
falls behind is repaired; a stream is read back as it was written.

### Components of the REPL

| Component | State | Operations | Correct when |
|---|---|---|---|
| supervision (`raft-repl/src/handler.rs`, `node.rs`, `data.rs`, `events.rs`) | per node: process (managed, child, external, none), connection, a command task with its mailbox | start, stop, append, read, ping, status, polling once a second, cleanup | no server is left behind; a stop or restart is followed by the state it announces; the port is free before it is bound again; a task that ends has stopped its server |
| state and dispatch (`state.rs`, `command.rs`, `main.rs`, `inputs.rs`) | table of nodes with their last status, mailbox of events, prompt, popup | spawn, start, stop, restart, append, read, status, exit | a node shown as up is up; an event is about a node of the table; leaving waits for every task and ends |
| prompt history (`history.rs`, `persistence.rs`) | entries, offset, a file that is written in place | push, prev, next, save, load | the offset stays within the history; the file holds what the history holds; a walk through it gives the prompt back |
| widgets (`ui/`) | the popup: its text, two scroll positions, whether it is shown | show, scroll, draw | the popup stays within its text |

### Protocol and client

`raft-common` holds the protocol files and the code generated from them;
`raft-client` has no behaviour.

## 2. Modules

| Module | Models | 
|---|---|
| `Positions` | the elements of a sequence at a set of positions: what a loop that skips some elements leaves |
| `RaftLog` | `struct Entries`: one operator per method, with sets in place of loops |
| `LogOps` | the same methods as the loops they are, over every log a sequence of updates produces; checks `RaftLog` against them |
| `Raft` | a cluster: one action per handler outcome, the remote calls, clients, crash and restart, fairness |
| `RaftProperties` | types, invariants, action and liveness properties, and under *Not kept* what the repository says and the code does not do |
| `Elections` | what elections promise: ballots, leaderships, nodes that forget; no log, message or tally |
| `AppendService` | what append calls are promised: a place, one answer |
| `MCRaft` | symmetry sets for TLC, and the regime `failover` is restricted to (`IndicesAscend`) |
| `Supervision` | the terminal with its table of nodes, the command task of every node, the servers they start and their ports; its properties |
| `Streams` | the payload of an event and how a stream is read back, to the bytes of a character |
| `Terminal` | keys, prompt, history and its file, popup, the commands to one node and their answers |
| `TerminalProperties` | types, invariants and action properties of `Terminal` |
| `MCTerminal` | the lines that are typed, the size of the popup |
| `PositionsProofs` | lemmas on data that the other proofs rest on: induction, subsequences at a set of positions |
| `LogOpsProofs` | `ContainsFindsAsLoop`, `RemoveRetainsAsLoop`, `PreviousSeenAsLoop`, `ReadCollectsAsLoop`, `BatchStartsRight` |
| `RaftProofs` | lemmas on the log operators and on the bag of messages; `TypeCorrect`, `TermsBoundEntries`, `TermsOpened` |
| `RaftEntryProofs` | `CachesAreRight`, `CallsAreOwed`, `CallsImplemented`, `OwedCallsAreHeld` |
| `RaftVoteProofs` | `TalliesAreGranted`, `MajorityUpToTerm`, `MajorityOfTheTerm`, `VotesGivenOnce`, `ElectionsImplemented` |
| `RaftReplicationProofs` | `MatchesAreReplicated`, `CommitsAreEverywhere`, `ConfirmationsAreEverywhere` |
| `TerminalProofs` | `TerminalTypes`, `OffsetStaysInHistory`, `FileIsTheHistory`, `RestartReadsABeginning`, `DraftIsBroughtBack`, `ScrollStaysWithinText`, `StreamsAreReadBack` |
| `SupervisionProofs` | `SupervisionTypes`, `ServersAreOwned`, `EventsAreOfNodes` |

How they are put together: `RaftLog`, `Streams` and `Terminal` read sequences
through `Positions`; `Raft` uses `RaftLog` for every update of a log;
`RaftProperties` instantiates `Elections` and `AppendService` with a refinement
mapping; `Terminal` uses `Streams` for what the node it talks to does.

`Raft` and `Supervision` are two views of the same nodes and are not composed: to
the terminal a node is somebody who answers on a port, to the cluster the terminal
is whoever stops and starts a node (`Stop`, `Start` of `Raft`). `Terminal` is a
third: one user and one node, which either has what was appended or has lost
it. The three share no variable the code does not also pass by a message.

`PROJECT.json` maps every definition to its lines. The `Faulty...` definitions in
`RaftLog`, `Raft`, `Supervision`, `Streams` and `Terminal` (and those of `Raft`
named `Silent...`, `ZeroBased...` and `Stubborn...`) are not part of the model:
each is a bug somebody could make in the definition it is named after, and
putting it there breaks the property it is paired with.

### How the state corresponds

- `term`, `entries`, `status`, `leader`, `voted_for`, `tally`, `commit_index`,
  `inflights` are the fields of `Persistent` and `Volatile` of the same names;
  `next_index[n][s]` and `match_index[n][s]` are those of the `Seed` for `s` in
  node `n`. `last_applied` is never read and `election_timeout` is time.
- `DefaultId` is the id in every `Persistent`: `NodeId::default()`, which no
  member has. A candidate votes for it (`voted_for`, 805), not for itself.
- `alive` and `boots` are the thread: whether it runs, and which run it is. An
  answer carries the run that asked, because a task belongs to a process.
- `msgs` is the bag of the remote calls in flight, requests and answers. The
  `batch_end` of an append answer is what the calling task remembers of its own
  request (`seed.rs`, 184-200).
- `answers[r]` is what the client of call `r` has seen: `waiting` as long as its
  oneshot is held, `refused` for *not the leader*, `lost` for a dropped channel.
- `granted` and `led` are history: who voted for whom, who led which term.
  No action reads them.

### How the actions correspond

A handler is one action per outcome: `on_request_vote` is `RequestVoteStale`,
`RequestVoteFresh` and `RequestVoteAgain`; `on_vote_received` is `VoteIgnored`,
`VoteFromNewerTerm`, `VoteCounted` and `ElectionWon` (with `switch_to_leader`,
its `reset` and its first round of requests); `on_append_entries` is
`AppendEntriesStale`, `AppendEntriesUnmatched`, `AppendEntriesHeartbeat` and
`AppendEntriesBatch`; `on_append_entries_resp` is `AppendRespIgnored`,
`AppendRespReplicated` and `AppendRespRefused`; `on_append_stream` is
`AppendStreamRefused` and `AppendStreamAccepted`. `on_tick` is `Tick`:
`SendAppendEntries` in a leader and `SwitchToCandidate` in any other node.

The details that decide what the code does are kept: the tally survives a
candidacy; a refusal in a newer term takes the term and nothing else; `reset`
clears the vote of the term just won; a heartbeat returns before the commit
index is looked at; a leader's commit index is the lowest match index of *all*
peers, set unconditionally; the term of an append answer is never read; a
leader that steps down keeps the calls it owes; truncation leaves the cached
fields stale until the append that follows; `contains_log(0, _)` holds for an
empty log only; `get_previous_entry` of an index that is not there returns the
last entry.

What is abstracted: a timeout may fire at any moment (the timer is not
modelled); payloads are opaque, for the cluster never looks into one, and reads,
which change nothing, are left to `Streams`. Seeds are a set, so a seed given
twice on the command line is not modelled.

### The abstract specifications

`Elections` has three variables: the votes ever cast (`granted`), who ever led
which term (`led`), and the nodes that have been started again (`boots > 0`). A
candidacy opens a term with a vote of its own, a vote goes to a candidate of the
term, a quorum of votes makes a leader. Two clauses say where this cluster
promises less than Raft, and `Raft` needs both: a voter that forgot, or whose
term has a leader already, may vote twice (`MayVote`), and a leader that hears
of a later term goes on leading in it (`CarryOn`, finding 1).

`AppendService` has a state and a place for every call. It is implemented by
`answers`, and by `inflights` as long as a call waits (`Place`): the place is
fixed when a call is accepted, and an answer cannot name another one.

### Supervision

State: `nodes` is the length of `State::nodes`, `size` that of the cluster as it
was spawned (seeds are made from it once), `shown[n]` whether `Node::status` is
`Some`, `events` and `cmds[n]` the mailboxes of the terminal and of a task, `proc[n]`
the `ProcState` of a task (`Nobody` for `Disconnected`, `Outsider` for an external
process, otherwise the server it started), `task[n]` what the task awaits.
`servers` are the servers started so far: managed ones run in the terminal's
process, binary ones in a child. `told` is the signal of `Node::shutdown`. `held[n]` is
the operating system: who has bound the port of node `n`. `wanted[n]` is history.

Actions: `SpawnCluster`, `StartNode` (a restart is the same command), `StopNode`,
`AskNode`, `OnNodeConnectivityChanged`, `Exit`, `CleanupNode` and `Leave` are the
terminal. `NodeCommandHandler` takes the next command of a mailbox: a start first
stops what is there (`Stopped`), then puts the new process in place and asks for
the status; the answer is a step of its own (`Status`), because everything else
goes on in between. `Poll` is the second without a command. `Listen` and `Release` are
the task of a server, which binds the port when it first runs and closes it when
it sees the signal; `Visit` is another program on the host.

The details that decide what the code does are kept: a managed node of a cluster
of even size refuses to start, after the old one was stopped; a child process is
never killed, since `args.kill()` (`handler.rs`, 341) makes a future that nobody
awaits; a stop lets go of an external process; a status request goes to the port,
so to whoever is there; a server whose port is taken gives up while its node goes
on; a terminal that leaves pops nodes from the end and blocks on each.

What is abstracted: the commands append, read, ping and status are one question
(`"ask"`), for they change no state of the supervision; notifications, the popup
(which swallows the input while it is open) and the prompt. `Visited`, `MaxCommands` and
`MaxEvents` bound the runs and not the code; the theorems hold for any value.

### Terminal

State: `prompt` and `temp_prompt` are `view.shell` and `temp_prompt` of `State`;
`entries` and `offset` those of `History`; `file` is `~/.raft-repl`, a sequence of
bytes; `popup` is whether it is shown, the size of its text and its two scroll
positions; `calls` is the mailbox of the command task, `replies` what it has sent
to the terminal, `stored` the payloads in the log of the node. `up` says
whether the program runs. `written` (the events appended) and `draft` (the text
that was in the prompt when a walk through the history began) are history: no
action reads them.

Actions (`src/raft-repl/src/`): while the popup is shown every key is its own
(`PopupKey`, `state.rs` 145, `ui/popup.rs`). Otherwise `Type` edits the prompt,
`KeyUp` and `KeyDown` are the arrow keys with `PrevEntry` and `NextEntry` of
`history.rs`, `Enter`, `Quit` and `WriteFails` are `on_command`: the line joins the
history, the whole history is written, and only then is the command looked at.
`Start` is `State::new` with `History::load`. `TaskAppend`, `TaskRead` and `TaskStatus` are the
task of the node. `StatusShown`, `StreamShown` and `StreamPanics` are the answers
as the terminal takes them.

The details that decide what the code does are kept: the file is overwritten
from its start and never truncated; a line equal to the last one is not pushed
and nothing is written; a failed write ends the program with what it had written so
far; what is left may lack a newline, or end within a character and then is no
text; `temp_prompt` is never cleared; with one entry the offset does not move; an
answer opens the popup whatever the user is doing and replaces its text; drawing
a text that fits resets the scroll; the length stored before a stream id counts
characters (`machine.rs`, 562), the reader takes that many bytes and compares them
with the id; a payload that is not JSON ends the terminal (`state.rs`, 485).

What is abstracted: a line is typed at once; a character is one byte or two; a
JSON value is one byte; a record takes as much room in the popup as any other;
the node is there or not, which is `Supervision`'s subject, and when the program ends its log is
kept (a process of its own) or gone (a managed node). A line is a command to the
task of the node or does not parse; `spawn`, `start` and `stop` are in `Supervision`.
`MaxEntries`, `MaxCalls` and `MaxAppends` bound the runs.

### Bounds of the cluster

Seven constants restrict the runs and not the code. `CanTimeout` and `CanStop`
say which nodes may time out or be stopped. `Lossy` allows losses between two
live nodes (calls to a stopped node always fail). `MaxTerm`, `MaxLogLen` and
`MaxRestarts` cap terms, logs and restarts; a batch that would exceed
`MaxLogLen` stays in flight. `MaxBacklog` allows a node to start a new round of
calls only when at most that many messages are in flight: 0 makes rounds follow
one another, 1 or 2 lets a tick repeat a call whose answer is late, or two
candidacies cross.

The proofs do not depend on these seven constants: they hold for any value of
each, hence without the bounds too.

## 3. Runs

| Run | Instance | Shows |
|---|---|---|
| `elections` | 3 nodes, 2 candidates, 2 terms, the third node restarts once, 1 call, backlog 1 | `TermsAreOpened`, `EntryTermBound`, `VotesOnceUntilLed`, `ElectedByMajority`, and that `Elections` and `AppendService` are implemented (`ElectionsAsPromised`, `CallsAsPromised`); 730 thousand states |
| `five_nodes` | 5 nodes, 2 candidates of which one restarts once, 2 terms, 1 call, backlog 0 | `TallyWasGranted` and `ElectedUpToTerm` where three votes are needed, so votes are counted before the election is won, and votes of two terms do meet in a tally; `WaitingIsOwed` when a leader stops; 79 thousand states |
| `failover` | 3 nodes, any of which may stand for election, 4 terms, 3 calls of 1 or 2 events, logs of 6, a whole log per request, backlog 0, `IndicesAscend` | `CacheMatchesLog`, `LeaderHoldsInflights`, `ConfirmedEverywhere` and `EverywhereIsForever` across changes of leader in which followers drop what a deposed leader left; 738 thousand states |
| `replication` | a stable leader of 3, 1 call of 3 events, one entry per request, logs of 4, losses, backlog 1 | `TypeOK`, `MatchIsReplicated`, `ConfirmedEverywhere`, `CommittedEverywhere` with copies of the same batch, which followers append, and answers out of order, which move match indices back; 466 thousand states |
| `catchup` | a stable leader whose two followers restart once, calls of 1 or 2 events, one entry per request, fairness | `CallsAreAnswered`, `FollowersCatchUp` |
| `log_ops` | logs of up to 4 entries over 3 indices and 2 terms, in any order | the set-based operators return what the loops of `entry.rs` return; a batch starts at the next index |
| `supervision` | clusters of 1 and 2 nodes of any kind, 3 commands, a program that takes and leaves the first port, fairness | `TypeOK`, `ManagedIsOwned`, `EventsNameNodes`, `ShownIsTrue`, `StopTakesEffect`, `LeavingEnds` |
| `terminal` | 2 lines of history, 1 command or answer under way, 2 events, appended under 3 names of which one has a two-byte character, a line that does not parse, a popup of 1 by 1, smaller than what it shows | `TypeOK`, `OffsetInHistory`, `FileHoldsHistory`, `RestartLosesOnlyTheEnd`, `DraftComesBack`, `ScrollWithinText`, `StreamsReadBack`; 487 thousand states |
| `two_leaders`, `retransmission`, `restart_race` | the smallest instances that show it | the findings below |
| `stale_tail` | 3 nodes, 2 candidates, 3 terms, 4 calls of 1 or 2 events, logs of 6, backlog 0, no losses, no restarts | the finding below, after 370 thousand states |

Why the bounds are enough for what the runs claim:

- Two terms and a second candidate give every kind of staleness a message of an
  election can have: an answer of an earlier candidacy, of an earlier process, an
  answer to or a request of a deposed leader. `elections` (where a voter forgets) and
  `five_nodes` (where a candidate or a leader does) reach them. That `five_nodes` reaches a
  tally with votes of two terms was checked: `ElectedByMajority` is violated under its bounds.
- Truncation drops an entry only if it is of another term than the reference point: a
  follower has an entry that a later leader has not, and what they agree on before it is of
  an earlier term. With the next leader that takes three terms. `failover` has four, so
  a leader may also be deposed, win again and refuse what it still owes (`reset`).
  That entries are dropped there was checked: *no log ever loses an entry* is
  violated under its bounds and constraint, after 166 thousand states.
- `failover` is a claim about a regime, and says so in its cfg. The backlog of 0 means
  that every call of a round is answered before the next round or candidacy begins; finding
  1 and the repeated batch met while modelling say how overlapping rounds break it. The
  constraint `IndicesAscend` cuts a history off where truncation has left an entry at an index
  that a batch brings as well; `stale_tail` is what happens beyond. The run has no losses: what
  is lost does not count for the backlog, so the round after it is a retry. Random
  behaviours under the constraint with losses, four terms and four calls (94 million
  states) met no violation, which is little evidence.
- An answer of an earlier leadership of the same node that arrives in a later one takes three
  terms *and* overlapping rounds. No run has both; elections and clients are safe from
  it by theorem (`CallsAreOwed`, `CallsImplemented`), replication is not claimed.
- `failover` sends a log in one request (a batch of 500); `replication` and `catchup`
  one entry per request.
- A cluster of one, which confirms a call at once and never ticks, is covered by the
  theorems and by no run.
- Three nodes is the smallest cluster with a majority that is not everyone. The
  tally is only interesting beyond three, hence `five_nodes`.
- A backlog of 1 in `replication` lets a leader send a batch a second time while
  the copy, or its answer, is in flight, and lets answers be swapped. Three entries are the
  fewest with which a match index can fall: the second is sent twice and appended twice, the
  third is acknowledged, then the late answer to the copy of the second comes in. A log
  of four is what the follower then has. That match indices fall was checked (*they never
  do* is violated after 22 thousand states). A call of several events is confirmed
  when the last of them is everywhere and not before. Calls that follow one another are in `failover`.
- In `supervision` the start of every node counts as a command, so a single node
  gets two more commands, which may overtake its own start, and two nodes get
  one more between them. Two nodes are enough for the cleanup to wait for one task
  while another is busy; size 1 is the odd size and size 2 the even one that
  managed nodes refuse. Three managed nodes with one more command were explored
  once without the temporal properties (11 million states, no error) and are too
  many for a regular run.
- Two lines of history are the shortest history that can be walked in, and one
  line is the case in which the offset does not move; both occur, as do a file
  torn at every byte, the restart after it and the overwriting that repairs it. A popup
  of one character scrolls both ways, and an answer may take over one that has been
  scrolled, which the line that does not parse has opened.
  Two events are enough for two streams, and for a stream with two events, to
  meet in one log. One command under way keeps the answers in order, as the
  mailboxes do for any number of them.
- `elections` has no losses between live nodes because a message that is never
  delivered is one of its behaviours already; the theorems cover losses.

Deadlock is not checked in runs on `Raft` since every bounded instance runs out
of elections, calls and room. In `log_ops` a log at its bound has no successor
other than removals, in `supervision` the program may have ended, and in
`terminal` it cannot start when its history file was torn within a character.

### Fairness

`FairSpec` of `Raft` assumes, of every node, weak fairness of the tick of a leader:
the loop of the thread calls `on_tick` when `HEARTBEAT_DELAY` has elapsed, with a
message or without (394-422). It assumes weak
fairness of every kind of delivery, told apart by sender, receiver, type and
content: a call runs in its own task, which ends with an answer or an error (the
code sets no deadline, so a connection that hangs for ever is assumed away), and a
message is not held back for ever while others of another
content are delivered. Timeouts, client calls, stops and starts are nobody's
obligation. The liveness properties suppose that the nodes are alive from some
time on. `catchup` also has a backlog of 0: calls are answered before the next
tick. `retransmission` shows that without this `CallsAreAnswered` fails.

`FairSpec` of `Supervision` assumes weak fairness of every step of the terminal's loop,
of the command tasks and of the server tasks: they run on a multi-threaded
runtime, no handler blocks a worker, and `recv_timeout` and `timeout` return. It
includes `Status` and `Reply`: a call that was accepted is answered or fails. Of the
calls only the append has a timeout (`handler.rs`, 139), so an external process
that accepts a call and never answers is assumed away; with one, the task waits
for ever, and `exit` with it. The user and other programs owe nothing.

## 4. Properties

Those of the cluster are in `RaftProperties`, those of the supervision at the end
of `Supervision`, those of the terminal in `TerminalProperties`, each with a comment
that says which code it is about.

- `TermsAreOpened`: terms are a clock that only `switch_to_candidate` advances.
  Four handlers copy a term from a message; none may invent one.
- `VotesOnceUntilLed`: one vote per term rests on `voted_for`, which is the
  default id for a candidate, the candidate's id for a voter, the leader's for a
  follower, `None` after a victory. A vote may be given twice in a term that is
  led already: a leader's `voted_for` is cleared, a follower's names its leader.
  It may be given twice after a restart.
- `TallyWasGranted`, `ElectedByMajority`, `ElectedUpToTerm`: late, ignored and crossed
  answers do not make votes. The second fails in a cluster of five over two candidacies; the
  third is what is left there, a majority of votes of the leader's term or of earlier ones.
- `ElectionsAsPromised`: all of these at once, and in between: that no step of any
  handler does to votes and leaderships what `Elections` has no action for.
- `EntryTermBound`, `CacheMatchesLog`: what `on_request_vote` compares is true.
- `LeaderHoldsInflights`, `WaitingIsOwed`: no call is forgotten or answered for
  an entry that is not there, across leaderships.
- `CallsAsPromised`: a call may be settled by a confirmation, by a new leadership
  that drops what the old one owed, by a stop, or at once; its client hears of
  one of them, and never of the place of another call.
- `MatchIsReplicated`, `ConfirmedEverywhere`, `CommittedEverywhere`: what a leader
  believes, says to clients, and says to followers is in every log. The code
  waits for *all* peers, so the claims are about all nodes, not a majority.
- `EverywhereIsForever`: why `ConfirmedEverywhere` survives an election: no leader,
  whatever its log, makes a follower drop what everybody has. Both are claimed
  across changes of leader for a cluster of three whose nodes do not restart, whose requests
  carry a whole log, whose rounds of calls do not overlap, and in which truncation leaves
  nothing behind. Otherwise they fail: a copy of an earlier batch, or the
  request of a second leader, truncates too much; a log in which truncation has left an entry
  beside another of the same index is taken for a better one than it is (findings 1 and 2); a
  smaller request of a new leader may stop short of what it truncates, which only the next
  one brings back; in a cluster of five the votes that elect a leader may be of several terms; a
  restart empties a log.
- `ConfirmedByMajority` (not kept, finding 2): what a client was told is with a majority.
- `CallsAreAnswered`, `FollowersCatchUp`: a follower is repaired by refusals.
- `ManagedIsOwned`: a handle that is dropped without a shutdown closes the port, since
  the sender of the signal is dropped with it (`lib.rs`, 84), but leaves a thread
  nobody can end: its seeds hold its mailbox open, so it goes on, hears from no leader and
  stands for election. Three places in `handler.rs` replace or drop a handle.
- `EventsNameNodes`: the table is indexed with the node of an event without a check
  (`state.rs`, 244). It is filled in one step before any task of it can send, and
  emptied only after the last event was handled; the property guards that order.
- `ShownIsTrue`: the table follows polls, which race with starts, stops and other
  programs on the port; in the end it agrees with what a request would find.
- `StopTakesEffect`: however a stop falls among starts, polls and the binding of a
  port, no managed server keeps the port. A signal that comes before the server has
  bound its port must not be missed.
- `LeavingEnds`: cleanup waits for one task after the other, each with a backlog.
- `OffsetInHistory`: the offset is kept by four operations that each assume the others
  were right; the code indexes with it and panics.
- `FileHoldsHistory`: overwriting without truncating is right only because a
  history never gets shorter while its file is as long as before, which a failed
  write and the load after it might undo.
- `RestartLosesOnlyTheEnd`: a write torn anywhere takes lines from the end only.
- `DraftComesBack`: the text put aside at the head survives the walk, edits during
  the walk, and answers that open the popup.
- `ScrollWithinText`: scroll positions outlive the text they were made for unless
  every way to show another text resets them.
- `StreamsReadBack`: streams share one log, and an id with long characters is stored with
  a length that is too short; its events must not turn up under an ASCII name.
  For the long id itself the claim fails (see *Findings*).

## 5. Theorems

TLAPS proves, for every cluster and every value of the bounds, and where the last column
does not say otherwise with losses and restarts included:

| Theorem | States | Assumes beyond the constants' assumptions |
|---|---|---|
| `TypeCorrect` | `Spec => []TypeOK` | |
| `TermsBoundEntries` | `Spec => []EntryTermBound` | |
| `TermsOpened` | `Spec => []TermsAreOpened` | |
| `CachesAreRight` | `Spec => []CacheMatchesLog` | |
| `CallsAreOwed` | `Spec => []WaitingIsOwed` | |
| `CallsImplemented` | `Spec => CallsAsPromised`, that is `AppendService!Spec` | |
| `OwedCallsAreHeld` | `Spec => []LeaderHoldsInflights` | no call without events: it would be owed at the index of an entry that is not its own |
| `TalliesAreGranted` | `Spec => []TallyWasGranted` | |
| `MajorityUpToTerm` | `Spec => ElectedUpToTerm` | |
| `MajorityOfTheTerm` | `Spec => ElectedByMajority` | at most three nodes, or one term (`SmallOrFirstTerm`) |
| `VotesGivenOnce` | `Spec => []VotesOnceUntilLed` | |
| `ElectionsImplemented` | `Spec => ElectionsAsPromised`, that is `Elections!Spec` | at most three nodes, or one term |
| `MatchesAreReplicated` | `Spec => []MatchIsReplicated` | a stable leader |
| `CommitsAreEverywhere` | `Spec => []CommittedEverywhere` | a stable leader |
| `ConfirmationsAreEverywhere` | `Spec => []ConfirmedEverywhere` | a stable leader; no call without events |
| `ContainsFindsAsLoop`, `RemoveRetainsAsLoop`, `PreviousSeenAsLoop`, `ReadCollectsAsLoop` | the operators of `RaftLog` return what the loops of `entry.rs` return: `Spec => []ContainsAsLoop` of `LogOps`, and so on | |
| `BatchStartsRight` | `Spec => []BatchStartsAtNext` (of `LogOps`) | |
| `SupervisionTypes` | `Spec => []TypeOK` (of `Supervision`) | |
| `ServersAreOwned` | `Spec => []ManagedIsOwned` | |
| `EventsAreOfNodes` | `Spec => []EventsNameNodes` | |
| `TerminalTypes` | `Spec => []TypeOK` (of `TerminalProperties`) | |
| `OffsetStaysInHistory` | `Spec => []OffsetInHistory` | |
| `FileIsTheHistory` | `Spec => []FileHoldsHistory` | |
| `RestartReadsABeginning` | `Spec => RestartLosesOnlyTheEnd` | |
| `DraftIsBroughtBack` | `Spec => DraftComesBack` | |
| `ScrollStaysWithinText` | `Spec => []ScrollWithinText` | |
| `StreamsAreReadBack` | `Spec => []StreamsReadBack` | |

The constants' assumptions: `NodeAssumption` is the odd size that `Node::new`
insists on (`lib.rs`, 51-55), with `None` and `DefaultId` not among the members.
`BoundsAssumption` types the other constants, `SupervisionAssumption` and
`LogOpsAssumption` those of `Supervision` and `LogOps`; `TerminalAssumption` says what a line
is that can be typed and what the alphabet is. TLC evaluates all five.

*A stable leader* is one node that may time out and no node that is stopped
(`CanTimeout \subseteq {l}`, `CanStop = {}`). The argument needs both: a follower that
restarts has lost what the leader believes it has, and a second leader does not
know what the first one's peers have. Messages may be lost, delayed, reordered, and
a tick may repeat whatever was not answered; size of the cluster, of the logs and of a
request are arbitrary.

- `TypeCorrect`. `TypeOK` is inductive. Its hard parts are the bag (that sending,
  removing and replying keep a bag of messages; `BagsOfMessages`), the log
  operators of `RaftLog` (a subsequence at a finite set of positions is a
  sequence), and the lowest match index, a `CHOOSE` over a finite set that needs
  the finiteness of `Node`. Single-node clusters have no peers and hence no
  messages, which is why `MessagesOK` says that no node writes to itself.
- `TermsBoundEntries`. `EntryTermBound` is inductive with `TypeOK`: a request is
  made of its sender's entries and carries the sender's term, a follower takes
  that term before it appends, and terms do not fall but in a restart, which
  empties the log.
- `TermsOpened`. `TermsAreOpened` is inductive because `granted` only grows: every
  handler copies a term from a node or a message, which was opened before.
- `CachesAreRight`. `CacheMatchesLog` is inductive with `TypeOK`: appending repairs
  the cache whatever truncation left in it (`AppendRepairs`), and no handler
  truncates without appending.
- `CallsAreOwed`. `WaitingIsOwed` is not inductive: a call owed twice would still be
  owed after one of the answers. `OwedOnce` excludes that: a call is accepted by
  one node, at one index, and a node that answers calls forgets just those.
- `OwedCallsAreHeld`. `LeaderHoldsInflights` is inductive with `TypeOK`: a victory
  empties `inflights`, a leader only appends, and a node that truncates its log
  stops leading in the same handler.
- `TalliesAreGranted`. A tally says nothing about where its votes come from, so
  the invariant adds `VotesAreRecorded`: behind a request for a vote stands the
  candidate's own vote, behind a granting answer that and the voter's.
- `MajorityUpToTerm`. What a victory knows is its tally and one more answer, and
  that it has those votes is `TallyWasGranted`. To count them one must know that the
  candidate's own vote is not among them, `TalliesAreOfOthers`, and that
  `have_we_reached_quorum` adds it: it is in its term by `VotesAreRecorded`.
- `MajorityOfTheTerm`. In a cluster of three any single counted answer reaches the
  quorum, and that answer is of the candidate's term; with the candidate's own
  vote that makes two. In the first term an earlier vote is a vote of that
  term. This is why the stale tally is harmless there, and the reason for the
  assumption: with five nodes and two terms TLC refutes the property (*Findings*).
- `VotesGivenOnce`. The property is not inductive: nothing in it ties a recorded
  vote to `voted_for`. `VotesAreRemembered` does: leaders, and senders of append
  requests, are in a term that is led; a vote of a voter that has not restarted
  is of a term it has reached; and while the voter is in that term and nobody
  leads it, `voted_for`, read through the default id, is the candidate. A step
  that gives no vote (`RememberedKept`) and one that does (`RememberedGrant`) are
  handled by one lemma each.
- `ElectionsImplemented`. Of the handlers only those that grant or win change what
  the mapping reads. A vote is allowed by `VotesAreRemembered` (`GrantAllowed`), a
  candidacy opens the successor of an opened term by `TermsAreOpened`
  (`CandidacyAllowed`), a victory has its quorum by the argument of
  `MajorityOfTheTerm`, and a leader that takes a newer term led before
  (`LeadersAreRecorded`), which is `CarryOn`.
- `CallsImplemented`. By `OwedOnce` the place of a call that waits is that of the one
  leader that owes it, so `Place` does not move when another call is accepted
  or settled, and a confirmation writes down the place it was.
- The three replication theorems share the invariant `Replicating(l)`. Neither
  of the properties is inductive: an answer in flight may raise a match index, and a
  request in flight a commit index. All there is to know is the log of `l`, whose
  entries are numbered 1, 2, ... in one term (`Numbered`): a request carries a
  stretch of it (`Copies`), and whatever a follower has is in it, with all
  that comes before (`LogsCopy`), though a batch received twice may be there
  twice. `Upto(l, s, k)` says that `s` has the log up to `k`; every index the code
  computes satisfies it: match indices (`Matches`), commit indices of any
  node (`Commits`), the end of a batch in an answer, the commit index in a request
  (`Messages`). The steps rest on `Grows`: the leader only appends, and as there
  is one term, `remove_uncommitted_entries_from` never finds anything to remove; nothing is
  proved about what it removes where there are several.
  `Confirmations(l)` adds that the calls owed and confirmed are entries of that log.
- `ServersAreOwned`. `ManagedIsOwned` is inductive with `TypeOK`: of the servers of a
  node at most one is untold, the task's process, and every command that replaces
  the process tells that one first (`StoppedServers`, `OwnedByStart`); a task that has
  ended takes no command.
- `EventsAreOfNodes`. The property is about events already sent, so the invariant
  adds where they come from: while the terminal runs its table is the whole
  cluster, and only tasks of the cluster were ever started (`TasksAreOfNodes`). A
  second spawn meets an empty table, hence no task and no event.

- Induction over data. The library's induction theorems take a predicate, which
  these provers cannot instantiate. A *set* of numbers they can: `PositionsProofs`
  gets induction for sets (`SetInduction`) from the least element that the
  well-foundedness of `<` gives, and induction on the length of a sequence
  (`SeqInduction`) from that. The lemmas about loops and folds rest on it.
- The five theorems of `LogOpsProofs`. Each loop is a recursive function, and its
  lemma says what it has computed after any number of rounds: a place found or none
  before it, the positions kept so far (`RetainIsLoop`), the last entry seen before
  the loop breaks (`StopIsFirstHit`, `PreviousIsLoop`), a batch cut at its limit (`ReadIsLoop`).
  The invariant, `Fitting`, only says that the log is one.
- `OffsetStaysInHistory`, `FileIsTheHistory`, `RestartReadsABeginning`,
  `DraftIsBroughtBack` share `HistoryInv`: the file is a beginning of the encoded
  history, cut at any byte; while the program runs it lacks at most the last newline.
  What it rests on is about the encoding: that the bytes of a beginning of a
  text are a beginning of its bytes (`PrefixesOfConcat`), that they are the text of
  such a beginning or no text at all (`DecodesPrefix`), that the lines of a
  beginning are the first lines and a part of the next (`CutLines`, `LinesOfJoined`,
  `FileIsReadBack`), and that writing a longer history over a beginning of it leaves the
  longer one (`OverwrittenPrefix`).
- `StreamsAreReadBack`. `TaskInv` says that what is stored is the encoding of what was
  written, in order. A payload under an ASCII name is taken for that name and no
  other (`TakenForName`): the first byte of a character of two bytes is no ASCII
  character, so a name that is longer in bytes than in characters differs from an ASCII name
  within the bytes compared. What is left behind the name is the event (`PayloadBehind`).
- `ScrollStaysWithinText`. `PopupInv` is inductive; drawing, scrolling and opening keep
  it, for texts of the sizes that `TaskInv` allows answers to have.

Only model-checked:

- liveness, since fairness and `ENABLED` are beyond the prover;
- `EverywhereIsForever`, and `ConfirmedEverywhere` across a change of leader, in the regime
  of `failover`: the invariant would have to say which logs can win an election;
- `ElectedByMajority` and `ElectionsAsPromised` in clusters of more than three over
  several terms, where they fail (*Findings*); what is left of them is `MajorityUpToTerm`;
- of `Supervision` what is true in the end: `ShownIsTrue`, `StopTakesEffect`, `LeavingEnds`.

## 6. Findings

1. `two_leaders` (702). A leader whose log is ahead of a candidate's refuses its
   vote, takes the candidate's term and goes on leading in it. The candidate wins
   that term with the third node: two leaders in one term of three nodes. With a third
   term an entry that everybody has is lost between them: the request that one of them has
   under way truncates what the other has brought everywhere since.
2. `stale_tail` (`entry.rs`, 53). Truncation keeps entries beyond the reference point
   that are of the reference point's term. That is just what a deposed leader has written
   and nobody else has got, when the reference point is of its term too. The batch goes behind
   them, so the log has two entries at an index (two terms are enough for this). In the
   run n1 leads the first term, brings entry 1 everywhere and takes a call of two events, 2 and
   3; n2 leads the second and writes another 2. The log of n1 becomes 1, 2, 3 and the new 2. It
   leads the third, brings its peers to the same log, counts them as replicated up to 2, the
   index of the last entry it sent (748), and goes on with the old 3. A call it accepts
   meanwhile is given index 3 too, the one after its last. The answers for the old 3
   confirm that call, which only n1 has. The comment at 583-584 wants it replicated by a
   majority. Nothing is lost, nobody restarts, every call is answered before the next round.
   Under wider bounds the same cause refutes `ConfirmedEverywhere`, `EverywhereIsForever`
   and `MatchIsReplicated`.
3. `retransmission` (771). A first batch that is sent twice is refused the second
   time, since an empty reference point fits an empty log only. The next index
   falls to 0, where `get_previous_entry` returns the *last* entry of the leader's
   log, which the follower does not have; every later request repeats it.
   The comment at 767-769 promises the entry *before* the next index.
4. `restart_race` (`raft-repl/src/handler.rs`, 247). A restart signals the old
   server and spawns the new one without waiting. If the new one runs first, the
   port is taken, it gives up, and the node stays offline until it is started
   again.

Met while modelling, with no run of their own:

- A batch is truncated for when the last entry of the follower is of another term than
  the request, otherwise it is appended once more (674). A new leader brings a follower up
  with an entry *e* of the term before; ticks send it three times, the last time with an
  entry *f* of the new term, and this one arrives first and is acknowledged. The first copy
  appends *e* again, so the follower's last entry is of the old term, and the second copy drops
  *f*: the leader counts as replicated, and may tell its client so, what the follower has
  no more. One leader, nothing lost, no restart; the comment at 747 says *Means that node
  successfully replicated to that point*. With a backlog of 2 and a search led along this
  history TLC finds it as a violation of `MatchIsReplicated`, and two steps later of
  `ConfirmedEverywhere`. Under a stable leader all entries are of one term and it cannot
  happen, as `MatchesAreReplicated` proves.
- The tally is cleared by a victory only (795). With five nodes, one vote of the first
  candidacy and one of the second elect a leader with two votes of its term. TLC
  finds it as a violation of `ElectedByMajority` under the bounds of `five_nodes`.
- The comment at 583 wants a write confirmed by *2/n + 1 nodes*; 752 waits for
  the slowest peer, and for ever for one that is down.
- A batch that is repeated before its answer is in is appended again, so an
  index may be in a log twice (674-681; the same cause as 3). What a leader believes
  is true all the same, as the replication theorems show.
- A child process survives `stop`, `restart` and `exit` (`raft-repl/src/handler.rs`,
  341), and keeps its port: in `Supervision` a binary server, once it listens, never closes.
- The events of a stream whose id has a character of more than one byte are not
  found under that id (562 and 530-548; `command.rs`, 83: *Read a stream from a node*).
  They are found under the id that is as many bytes shorter, if that is a text,
  with the rest of the id in front of the event; the terminal then panics
  (`raft-repl/src/state.rs`, 485). `StreamPanics` is this, and `terminal` reaches it.
- With one line of history, Up, Up, Down does not bring back the text of the
  prompt: the offset stays at the head (`history.rs`, 58), so the second Up puts
  the line of the history aside in its place (`state.rs`, 153). `DraftComesBack` speaks
  of walks that leave the head.
- A write of the history that is torn within a character leaves a file that is
  not UTF-8, and the terminal does not start until it is repaired
  (`persistence.rs`, 52).
- Two terminals of one user share `~/.raft-repl`, each writing its own history over
  the other's (`state.rs`, 54).

## 7. What is not modelled, and the plan

Not modelled: the layout of the screen, notifications and argument parsing, the
gRPC transport and the code generated from the protocol files, the in-memory
history, `raft-client`; they keep no state that the rest depends on. `ping` and
`status` of a server change nothing.

The election timer is not modelled either: in `Raft` a timeout may fire at any
moment, which includes what the timer does and more. Hence nothing is said about
whether elections come to an end, which is in doubt: a candidacy does not reset the timer (801) and the
first timeout has duration 0 (115-123). Related, and open: two nodes refuse each other when
one log is longer and the other newer (706). A search at three terms and logs of
three, stopped at some millions of states, did not meet a cluster in which nobody can be
elected; that shows nothing either way.

Next, in this order:

1. A cluster with clocks, for the timer and for logs that refuse each other.
   Bounds: three nodes, timeouts of two ticks, a third term.
2. An invariant for replication across leaders in the regime of `failover`: which logs
   a leader elected after another can have, first as an invariant of that run, then as
   a proof of `EverywhereIsForever`. With losses the regime needs another form than a
   backlog: a round that is lost must be over before the next begins.
3. `Supervision`: an abstract table of nodes (what the user asked for, what is up)
   that it implements, and the proof of `StopTakesEffect`'s safety part.
4. Two terminals on one history file.
