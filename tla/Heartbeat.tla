----------------------------- MODULE Heartbeat -----------------------------
(* Failure detection: local/heartbeat.js, all/gossip.js, local/gossip.js    *)
(* and local/groups.js.  What nodes know of one node is independent of what *)
(* they know of another, so the state is the projection of all of them on   *)
(* one Subject: each node's entry for it and each node's groups it is in.   *)
EXTENDS Integers, FiniteSetsExt, SequencesExt

CONSTANTS Nodes, Subject,
          GroupOrder,    \* the groups, in the order of Object.keys
          All,           \* the group of all nodes
          Leader(_),     \* the group's hash: which of a set of nodes reconfigures
          Outsiders,     \* the nodes that may be missing from their own groups
          PING_THRESHOLD, FAIL_THRESHOLD, FAIL_COOLDOWN,
          Nothing,
          MaxCrashes     \* bound on the crashes, and whether the Subject restarts
VARIABLES
  up,        \* the nodes that run
  entry,     \* nodes[Subject] at each node
  joined,    \* the groups of each node that the Subject is a member of
  members,   \* the other members of each node's groups
  news,      \* gossip in flight to each node: a staleness of the Subject, or Nothing
  notices,   \* the nodes a registerFailure is in flight to
  reconfs,   \* the groups each node reconfigured since it last knew the Subject
  crashes

Groups == ToSet(GroupOrder)

\* The node is told of, the group of all nodes exists, and an entry that was
\* just refreshed is not stale.
ASSUME GroupAssumption == Subject \in Nodes /\ GroupOrder \in Seq(Groups) /\ All \in Groups
ASSUME ThresholdAssumption ==
  PING_THRESHOLD \in Nat \ {0} /\ FAIL_THRESHOLD \in Nat \ {0} /\ FAIL_COOLDOWN \in Nat

hbVars == <<up, entry, joined, members, news, notices, reconfs, crashes>>

Alive(s) == [state |-> "Alive", count |-> s]
Pinging(s) == [state |-> "Pinging", count |-> s]
Declared == [state |-> "DeclaredFailure", count |-> 0]
Registered(age) == [state |-> "RegisteredFailure", count |-> age]
Unknown == [state |-> "unknown", count |-> 0]

Init ==
  /\ up = Nodes
  /\ entry = [n \in Nodes |-> IF n = Subject THEN Alive(0) ELSE Unknown]
  /\ joined = [n \in Nodes |-> Groups]
  /\ \E out \in SUBSET Outsiders :
       members = [n \in Nodes |-> (Nodes \ {Subject}) \ ({n} \cap out)]
  /\ news = [n \in Nodes |-> Nothing] /\ notices = {}
  /\ reconfs = [n \in Nodes |-> {}]
  /\ crashes = 0

----------------------------------------------------------------------------
(* Groups *)

\* computeAllGroup collects the members of every group, the old all included.
ComputeAll(in) == IF in = {} THEN {} ELSE in \cup {All}
Rem(in, g) == ComputeAll(in \ {g})

\* Faulty variant: the groups are taken in the order of Object.keys.
UnsortedGroups == GroupOrder
\* registerFailure removes the node from the group of all nodes last.
SortedGroups ==
  RemoveAt(GroupOrder, CHOOSE i \in 1..Len(GroupOrder) : GroupOrder[i] = All) \o <<All>>
RemoveFromAll(in) ==
  LET left[i \in 0..Len(SortedGroups)] == IF i = 0 THEN in ELSE Rem(left[i - 1], SortedGroups[i])
  IN left[Len(SortedGroups)]

\* The running nodes that a message of n reaches.
Recipients(n) == up \cap (members[n] \cup (IF All \in joined[n] THEN {Subject} ELSE {}))

\* removeNode: the group's leader moves its items; the group of all nodes
\* has no hash function and n must be left in the group.
Reconfigures(n) ==
  IF n \in members[n] /\ Leader(members[n]) = n THEN joined[n] \ {All} ELSE {}

\* registerFailure at n, when its entry becomes e before it (checkAlive may
\* have declared the failure in the same turn): register, broadcast, remove.
Register(n, e, others) ==
  IF e.state \in {"unknown", "RegisteredFailure"}
  THEN /\ entry' = [entry EXCEPT ![n] = e] /\ notices' = others
       /\ UNCHANGED <<joined, reconfs>>
  ELSE /\ entry' = [entry EXCEPT ![n] = Registered(0)]
       /\ notices' = others \cup (Recipients(n) \ {n})
       /\ joined' = [joined EXCEPT ![n] = RemoveFromAll(@)]
       /\ reconfs' = [reconfs EXCEPT ![n] = @ \cup Reconfigures(n)]

----------------------------------------------------------------------------
(* The interval of a node *)

\* Faulty variant: a node counts its own staleness too.
AgedEverywhere(n, e) ==
  CASE e.state \in {"Alive", "Pinging"} -> [e EXCEPT !.count = @ + 1]
    [] e.state = "RegisteredFailure" -> IF e.count + 1 > FAIL_COOLDOWN THEN Unknown ELSE Registered(e.count + 1)
    [] OTHER -> e
\* Faulty variant: the epochs since a ping are not counted.
AgedOnlyAlive(n, e) ==
  CASE e.state = "Alive" -> IF n = Subject THEN e ELSE Alive(e.count + 1)
    [] e.state = "RegisteredFailure" -> Unknown
    [] OTHER -> e
\* The first loop of checkAlive: staleness grows, a cooldown ends.
Aged(n, e) ==
  CASE e.state = "Alive" -> IF n = Subject THEN e ELSE Alive(e.count + 1)
    [] e.state = "Pinging" -> Pinging(e.count + 1)
    [] e.state = "RegisteredFailure" -> IF e.count + 1 > FAIL_COOLDOWN THEN Unknown ELSE Registered(e.count + 1)
    [] OTHER -> e

\* A message for each of the nodes drawn at random; one in flight is overtaken.
Listeners(n) ==
  {m \in up \ {n} : m = Subject => entry[m].state # "Alive"}   \* an Alive Subject learns nothing
Gossip(receivers, s) == news' = [m \in Nodes |-> IF m \in receivers THEN s ELSE news[m]]

\* The second loop of checkAlive: an entry that is stale becomes Pinging, one
\* that was pinged in vain is declared, which calls registerFailure at once
\* when the node itself is in its group of all nodes.
\* Faulty variant: a threshold one too high.
StaleBeyond(e) == e.state = "Alive" /\ e.count > PING_THRESHOLD
Stale(e) == e.state = "Alive" /\ e.count >= PING_THRESHOLD
Fails(e) == e.state = "Pinging" /\ e.count >= FAIL_THRESHOLD
CheckAlive(n) ==
  LET e == Aged(n, entry[n])
      seen == IF Stale(e) THEN Pinging(0) ELSE IF Fails(e) THEN Declared ELSE e
  IN /\ n \in up
     /\ ~(n = Subject /\ entry[n].state = "Pinging")   \* it throws
     /\ IF seen # Declared
        THEN entry' = [entry EXCEPT ![n] = seen] /\ UNCHANGED <<joined, notices, reconfs>>
        ELSE IF n \in members[n] \/ n = Subject
        THEN Register(n, seen, notices \cup (Recipients(n) \ {n}))
        ELSE /\ entry' = [entry EXCEPT ![n] = seen]
             /\ notices' = notices \cup Recipients(n)
             /\ UNCHANGED <<joined, reconfs>>
     /\ \/ /\ seen.state = "Alive" /\ Recipients(n) # {}
           /\ \E S \in SUBSET Listeners(n) : Gossip(S, seen.count)
        \/ UNCHANGED news
     /\ UNCHANGED <<up, members, crashes>>

----------------------------------------------------------------------------
(* Messages *)

\* receiveStatus; a message is received once, though it is forwarded.
ReceiveStatus(n, s) ==
  /\ s = news[n] /\ s # Nothing
  /\ news' = [news EXCEPT ![n] = Nothing]
  /\ entry' = [entry EXCEPT ![n] =
       CASE @.state = "Alive" -> Alive(Min({s, @.count}))
         [] @.state \in {"Pinging", "unknown"} -> Alive(s)
         [] OTHER -> @]
  /\ UNCHANGED <<up, joined, members, notices, reconfs, crashes>>

\* The nodes a message goes to are drawn at random, and sends may fail.
Lose(n) ==
  /\ news[n] # Nothing
  /\ news' = [news EXCEPT ![n] = Nothing]
  /\ UNCHANGED <<up, entry, joined, members, notices, reconfs, crashes>>

\* pingNode: the Subject answers a status request, if its address is known.
\* An answer that comes after the failure was declared changes nothing.
Confirm(n) ==
  /\ entry[n].state = "Pinging" /\ All \in joined[n] /\ Subject \in up
  /\ entry' = [entry EXCEPT ![n] = Alive(0)]
  /\ UNCHANGED <<up, joined, members, news, notices, reconfs, crashes>>

RegisterFailure(n) ==
  /\ n \in notices /\ n \in up
  /\ Register(n, entry[n], notices \ {n})
  /\ UNCHANGED <<up, members, news, crashes>>
LoseNotice(n) ==
  /\ n \in notices
  /\ notices' = notices \ {n}
  /\ UNCHANGED <<up, entry, joined, members, news, reconfs, crashes>>

----------------------------------------------------------------------------
(* Crashes *)

Crash(n) ==
  /\ n \in up /\ crashes < MaxCrashes
  /\ up' = up \ {n} /\ crashes' = crashes + 1
  /\ entry' = [entry EXCEPT ![n] = Unknown] /\ joined' = [joined EXCEPT ![n] = {}]
  /\ news' = [news EXCEPT ![n] = Nothing] /\ notices' = notices \ {n}
  /\ members' = [members EXCEPT ![n] = {}]
  /\ UNCHANGED reconfs

\* The Subject runs again, with an empty memory, and knows nobody.
Restart ==
  /\ Subject \notin up
  /\ up' = up \cup {Subject}
  /\ entry' = [entry EXCEPT ![Subject] = Alive(0)]
  /\ UNCHANGED <<joined, members, news, notices, reconfs, crashes>>

\* Nodes are added back into a group by hand, node by node.
Add(n) ==
  /\ {n, Subject} \subseteq up /\ All \notin joined[n]
  /\ crashes > 0
  /\ joined' = [joined EXCEPT ![n] = ComputeAll(Groups \ {All})]
  /\ members' = [members EXCEPT ![n] = up \ {Subject}]
  /\ reconfs' = [reconfs EXCEPT ![n] = {}]
  /\ UNCHANGED <<up, entry, news, notices, crashes>>

\* The same protocol for another node: n drops a peer that crashed.
DropPeer(n, p) ==
  /\ n \in up \ {Subject} /\ p \in members[n] \ up
  /\ members' = [members EXCEPT ![n] = @ \ {p}]
  /\ UNCHANGED <<up, entry, joined, news, notices, reconfs, crashes>>

Next ==
  \/ \E n \in Nodes : CheckAlive(n) \/ Confirm(n)
  \/ \E n \in Nodes : RegisterFailure(n) \/ LoseNotice(n) \/ Crash(n) \/ Add(n)
  \/ \E n, p \in Nodes : DropPeer(n, p)
  \/ \E n \in Nodes : ReceiveStatus(n, news[n]) \/ Lose(n)
  \/ Restart

\* Timers fire, and a message or a request is answered or lost in the end.
Fairness ==
  \A n \in Nodes : WF_hbVars(CheckAlive(n)) /\ WF_hbVars(Lose(n))
Spec == Init /\ [][Next]_hbVars /\ Fairness

----------------------------------------------------------------------------
(* Properties *)

HeartbeatTypeOK ==
  /\ up \subseteq Nodes /\ notices \subseteq Nodes
  /\ \A n \in Nodes :
       /\ entry[n] \in {Alive(s) : s \in 0..(PING_THRESHOLD - 1)} \cup {Declared, Unknown} \cup
                       {Pinging(s) : s \in 0..(FAIL_THRESHOLD - 1)} \cup {Registered(a) : a \in 0..FAIL_COOLDOWN}
       /\ joined[n] \subseteq Groups /\ members[n] \subseteq Nodes
  /\ news \in [Nodes -> {Nothing} \cup 0..(PING_THRESHOLD - 1)]

\* A node never suspects itself, whatever it hears after it was declared
\* failed by mistake, cooled down and came back: the exception of
\* heartbeat.js:50 cannot be thrown.
NeverStaleItself == entry[Subject].state \notin {"Pinging", "DeclaredFailure"}

\* A node that registers the failure of a node has it in no group afterwards,
\* although each removal recomputes the group of all nodes from every group,
\* itself included (groups.js:132, heartbeat.js:160).
RegistrationRemoves ==
  [][\A n \in Nodes : entry[n] # entry'[n] /\ entry'[n] = Registered(0) => joined'[n] = {}]_hbVars

\* A node that stays down leaves the groups of every node that knows of it and
\* is in its own groups, through lost gossip, pings and notices; and unless
\* another node crashed too or is not in its own groups, a node that had it in
\* a group reconfigures that group.
InOwnGroups(n) == n = Subject \/ n \in members[n]
Left(n) == joined[n] = {} /\ ((\A m \in Nodes : InOwnGroups(m)) => \E m \in Nodes : reconfs[m] # {})
DeadNodesLeave ==
  []<>(Subject \in up \/ \A n \in up : entry[n] = Unknown \/ ~InOwnGroups(n) \/ Left(n))
=============================================================================
