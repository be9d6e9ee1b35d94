----------------------------- MODULE MapReduce -----------------------------
(* all/mr.js: an orchestrator installs a worker on every node of a group    *)
(* and calls its map, shuffle and reduce in turn; rounds chain operations   *)
(* through output groups.  A value is the set of the input keys it comes    *)
(* from: map hands it to each key it emits, reduce unites what a key gets,  *)
(* or makes nothing of it.                                                  *)
EXTENDS Integers, FiniteSetsExt

CONSTANTS Nodes, Keys,
          Home,      \* the node of each key, by the hash of the group
          Emits,     \* the keys map emits for each key
          Plans      \* [rounds, deleteInput, output, keys, at, owner, yields, faulty]:
                     \* an execution from node "at", in the group or outside

\* A value is shuffled under a key that names the operation (mr.js:285), so
\* each round has its own owners, wherever the hash places them.  What a worker
\* finishes late, or leaves in a memory, belongs to the only round: faults, and
\* an orchestrator in the group, to executions of one round.
ASSUME MapReduceAssumption ==
  /\ Nodes # {} /\ Home \in [Keys -> Nodes] /\ Emits \in [Keys -> SUBSET Keys]
  /\ \A p \in Plans : /\ p.rounds \in Nat \ {0} /\ p.keys \subseteq Keys
                      /\ {p.deleteInput, p.output, p.faulty} \subseteq BOOLEAN
                      /\ p.owner \in [0..(p.rounds - 1) -> [Keys -> Nodes]]
                      /\ p.yields \in [Keys -> {"pair", "empty", "throws"}]
                      /\ p.faulty \/ p.at \in Nodes => p.rounds = 1

VARIABLES plan, round, phase,
          worker,    \* nodes on which the worker service is installed
          call,      \* the request of the phase to each node
          job,       \* the map or shuffle that runs on each node, also after a timeout
          reads, puts, values,
          mapped,    \* map results stored on each node
          mem,       \* shuffled values on each node: key -> set, {} for none
          reduced,   \* what the reduce of each node made
          stores,    \* its keys that are still to be stored in the output group
          store,     \* per round, the items of its input group
          clears,    \* <<node, round>>: the node will clear this input group
          results, up

reducing == <<reduced, stores>>
vars == <<plan, round, phase, worker, call, job, reads, puts, values, mapped, mem, reducing,
          store, clears, results, up>>

Empty == [k \in Keys |-> {}]
Quiet == [n \in Nodes |-> {}]

Init ==
  /\ plan \in Plans
  /\ round = 0 /\ phase = "install"
  /\ worker = {}
  /\ call = [n \in Nodes |-> "none"] /\ job = [n \in Nodes |-> "none"]
  /\ reads = Quiet /\ puts = Quiet /\ values = Quiet
  /\ mapped = Quiet
  /\ mem = [n \in Nodes |-> Empty] /\ reduced = Quiet /\ stores = Quiet
  /\ store = [r \in 0..plan.rounds |-> [k \in Keys |-> IF r = 0 THEN {k} \cap plan.keys ELSE {}]]
  /\ clears = {} /\ results = {} /\ up = Nodes

\* exec deletes the input of every round but the first.
DeleteInput == round > 0 \/ plan.deleteInput
\* Without an output group the last of several rounds keeps the group of the
\* round before it, which is the one it reads.
HasOutput == plan.rounds > 1 \/ plan.output
Output == IF round < plan.rounds - 1 \/ plan.output THEN round + 1 ELSE round

----------------------------------------------------------------------------
(* The orchestrator *)

\* A call fails at once to a node that is down, and to the orchestrator itself:
\* its own services are looked up without the routes where the worker is.
Calls == [n \in Nodes |-> IF n \in up \ {plan.at} THEN "sent" ELSE "failed"]

\* createOperation: worker and output group are put on every node, or the
\* operation fails.
Install(ok) ==
  /\ phase = "install"
  /\ IF ok THEN /\ up = Nodes
               /\ worker' = Nodes /\ phase' = "map" /\ call' = Calls
     ELSE /\ up # Nodes \/ plan.faulty
          /\ phase' = "error" /\ UNCHANGED <<worker, call>>
  /\ UNCHANGED <<plan, round, job, reads, puts, values, mapped, mem, reducing, store, clears, results, up>>

\* Faulty variant: only an answer counts.
OverWhenAnswered(n) == call[n] = "answered"
\* runPhase: a call that failed, as all to a crashed node do, counts like one
\* that was answered.
Over(n) == call[n] \in {"answered", "failed"}
NextPhase ==
  /\ \A n \in Nodes : Over(n)
  /\ CASE phase = "map" -> phase' = "shuffle" /\ UNCHANGED <<round, worker, results>>
       [] phase = "shuffle" -> phase' = "reduce" /\ UNCHANGED <<round, worker, results>>
       [] phase = "reduce" -> /\ worker' = {}
                              /\ IF round < plan.rounds - 1
                                 THEN phase' = "install" /\ round' = round + 1 /\ results' = {}
                                 ELSE phase' = "done" /\ UNCHANGED <<round, results>>
  /\ call' = IF phase = "reduce" THEN [n \in Nodes |-> "none"] ELSE Calls
  /\ UNCHANGED <<plan, job, reads, puts, values, mapped, mem, reducing, store, clears, up>>

Turn(n, state) == call' = [call EXCEPT ![n] = state]
\* A worker that goes on after its timeout answers a request no one waits for.
Awaited(n, p) == phase = p /\ call[n] = "running"
Complete(n, p, state) == call' = IF Awaited(n, p) THEN [call EXCEPT ![n] = state] ELSE call

\* A request that no worker will answer times out; one is lost, or times out
\* while its worker goes on, or the node crashes.  When the orchestrator
\* crashes there is no execution to speak of.
TimeOut(n) ==
  /\ call[n] = "silent" \/ (plan.faulty /\ call[n] \in {"sent", "running"})
  /\ Turn(n, "failed")
  /\ UNCHANGED <<plan, round, phase, worker, job, reads, puts, values, mapped, mem, reducing, store,
                 clears, results, up>>
Crash(n) ==
  /\ plan.faulty /\ up = Nodes /\ n # plan.at
  /\ up' = up \ {n}
  /\ call' = [call EXCEPT ![n] = IF @ \in {"sent", "running", "silent"} THEN "failed" ELSE @]
  /\ job' = [job EXCEPT ![n] = "none"]
  /\ reads' = [reads EXCEPT ![n] = {}] /\ puts' = [puts EXCEPT ![n] = {}]
  /\ mem' = [mem EXCEPT ![n] = Empty] /\ stores' = [stores EXCEPT ![n] = {}]
  /\ UNCHANGED <<plan, round, phase, worker, values, mapped, reduced, store, clears, results>>

----------------------------------------------------------------------------
(* The worker on node n *)

\* Faulty variant: every node maps every key.
PartitionAll(n) == plan.keys
\* runOperation: each node maps the keys that belong to it.
Partition(n) == {k \in plan.keys : Home[k] = n}
Arrives(n, p) ==
  /\ phase = p /\ call[n] = "sent" /\ n \in up /\ n \in worker

\* workerMap; without keys it answers at once.
StartMap(n) ==
  /\ Arrives(n, "map") /\ job[n] = "none"
  /\ reads' = [reads EXCEPT ![n] = Partition(n)]
  /\ values' = [values EXCEPT ![n] = {}]
  /\ IF Partition(n) = {} THEN Turn(n, "answered") /\ UNCHANGED job
     ELSE job' = [job EXCEPT ![n] = "mapping"] /\ Turn(n, "running")
  /\ UNCHANGED <<plan, round, phase, worker, puts, mapped, mem, reducing, store, clears, results, up>>

Item(k) == store[round][k]

\* An item that is not found, or cannot be read, is left out.
Read(n, k, ok) ==
  /\ job[n] = "mapping" /\ k \in reads[n] /\ (ok \/ plan.faulty)
  /\ reads' = [reads EXCEPT ![n] = @ \ {k}]
  /\ values' = IF ~ok \/ Item(k) = {} THEN values
               ELSE [values EXCEPT ![n] = @ \cup {<<o, Item(k)>> : o \in Emits[k]}]
  /\ UNCHANGED <<plan, round, phase, worker, call, job, puts, mapped, mem, reducing, store, clears,
                 results, up>>

\* endMap: the results are stored, then every node of the group is told to
\* clear its input, whether it has read it or not, and stored or not.
EndMap(n, ok) ==
  /\ job[n] = "mapping" /\ reads[n] = {} /\ (ok \/ plan.faulty)
  /\ mapped' = IF ok THEN [mapped EXCEPT ![n] = values[n]] ELSE mapped
  /\ clears' = IF DeleteInput THEN clears \cup (Nodes \X {round}) ELSE clears
  /\ job' = [job EXCEPT ![n] = "none"]
  /\ Complete(n, "map", IF ok THEN "answered" ELSE "failed")
  /\ UNCHANGED <<plan, round, phase, worker, reads, puts, values, mem, reducing, store, results, up>>
Clear(n, r) ==
  /\ n \in up /\ <<n, r>> \in clears
  /\ clears' = clears \ {<<n, r>>}
  /\ store' = [store EXCEPT ![r] = [k \in Keys |-> IF Home[k] = n THEN {} ELSE @[k]]]
  /\ UNCHANGED <<plan, round, phase, worker, call, job, reads, puts, values, mapped, mem, reducing,
                 results, up>>

\* workerShuffle: the map results are taken and put together by key.  Without
\* any, or when they cannot be taken, it answers all the same; a map that goes
\* on after its timeout has stored none yet.
StartShuffle(n, ok) ==
  /\ Arrives(n, "shuffle") /\ job[n] \in {"none", "mapping"} /\ (ok \/ plan.faulty)
  /\ mapped' = IF ok THEN [mapped EXCEPT ![n] = {}] ELSE mapped
  /\ IF mapped[n] = {} \/ ~ok THEN Turn(n, "answered") /\ UNCHANGED <<job, puts>>
     ELSE /\ job' = [job EXCEPT ![n] = "shuffling"]
          /\ puts' = [puts EXCEPT ![n] = {v[1] : v \in mapped[n]}]
          /\ Turn(n, "running")
  /\ UNCHANGED <<plan, round, phase, worker, reads, values, mem, reducing, store, clears, results, up>>

\* Faulty variant: a put replaces what other nodes put under the key.
Replace(old, new) == new
\* The append operation of mem.put.
Append(old, new) == old \cup new

\* Faulty variant: each node keeps the keys it maps.
OwnerSelf(n, o) == n
Owner(n, o) == plan.owner[round][o]

\* A mapped key reaches its owner; a put that fails only counts.
PutShuffle(n, o, ok) ==
  /\ job[n] = "shuffling" /\ o \in puts[n] /\ (ok \/ plan.faulty)
  /\ puts' = [puts EXCEPT ![n] = @ \ {o}]
  /\ mem' = IF Owner(n, o) \notin up \/ ~ok THEN mem
            ELSE [mem EXCEPT ![Owner(n, o)][o] = Append(@, UNION {v[2] : v \in {w \in values[n] : w[1] = o}})]
  /\ IF puts[n] = {o} THEN job' = [job EXCEPT ![n] = "none"] /\ Complete(n, "shuffle", "answered")
     ELSE UNCHANGED <<job, call>>
  /\ UNCHANGED <<plan, round, phase, worker, reads, values, mapped, reducing, store, clears, results, up>>

\* workerReduce: the shuffled items are taken and reduced, those whose reduce
\* throws are left out, and what it made is stored in the output group when
\* there is one.  With only empty objects to store nothing counts down, and
\* the worker never calls back.
StartReduce(n) ==
  LET items == {o \in Keys : mem[n][o] # {}}
      made == {<<o, mem[n][o]>> : o \in {i \in items : plan.yields[i] = "pair"}}
  IN /\ Arrives(n, "reduce")
     /\ mem' = [mem EXCEPT ![n] = Empty]
     /\ IF HasOutput /\ \E o \in items : plan.yields[o] # "throws"
        THEN /\ reduced' = [reduced EXCEPT ![n] = made] /\ stores' = [stores EXCEPT ![n] = {v[1] : v \in made}]
             /\ Turn(n, IF made = {} THEN "silent" ELSE "running") /\ UNCHANGED results
        ELSE Turn(n, "answered") /\ results' = results \cup made /\ UNCHANGED reducing
     /\ UNCHANGED <<plan, round, phase, worker, job, reads, puts, values, mapped, store, clears, up>>
PutOutput(n, o, ok) ==
  /\ o \in stores[n] /\ (ok \/ plan.faulty)
  /\ stores' = [stores EXCEPT ![n] = @ \ {o}]
  /\ store' = IF Home[o] \notin up \/ ~ok THEN store
              ELSE [store EXCEPT ![Output][o] = (CHOOSE v \in reduced[n] : v[1] = o)[2]]
  /\ IF stores[n] = {o}
     THEN /\ Complete(n, "reduce", "answered")
          /\ results' = IF Awaited(n, "reduce") THEN results \cup reduced[n] ELSE results
     ELSE UNCHANGED <<call, results>>
  /\ UNCHANGED <<plan, round, phase, worker, job, reads, puts, values, mapped, mem, reduced, clears, up>>

Work(n) ==
  \/ StartMap(n) \/ StartReduce(n)
  \/ \E ok \in BOOLEAN : \/ EndMap(n, ok) \/ StartShuffle(n, ok)
                         \/ \E k \in Keys : Read(n, k, ok) \/ PutShuffle(n, k, ok) \/ PutOutput(n, k, ok)

Next ==
  \/ (\E ok \in BOOLEAN : Install(ok)) \/ NextPhase
  \/ \E n \in Nodes : Work(n) \/ (\E r \in 0..round : Clear(n, r)) \/ TimeOut(n) \/ Crash(n)

\* Calls arrive and answer, and one without an answer times out.
Fairness ==
  /\ WF_vars(\E ok \in BOOLEAN : Install(ok)) /\ WF_vars(NextPhase)
  /\ \A n \in Nodes : WF_vars(Work(n)) /\ WF_vars(call[n] = "silent" /\ TimeOut(n))
Spec == Init /\ [][Next]_vars /\ Fairness

----------------------------------------------------------------------------
(* Properties *)

\* The reference: which of the input keys the values that a round puts together
\* for each key come from; later rounds read what reduce made a pair of.
Inputs(p, r) == {k \in p.keys : r = 1 \/ p.yields[k] = "pair"}
Origins(p) ==
  LET origins[r \in 0..p.rounds] ==
        [o \in Keys |-> IF r = 0 THEN {o} \cap p.keys
                        ELSE UNION {origins[r - 1][k] : k \in {i \in Inputs(p, r) : o \in Emits[i]}}]
  IN origins
Expected == [o \in Keys |-> IF plan.yields[o] = "pair" THEN Origins(plan)[plan.rounds][o] ELSE {}]

\* The values of the state; a node maps only keys it holds itself, and gathers
\* only those it owns.
MapReduceTypeOK ==
  /\ phase \in {"install", "map", "shuffle", "reduce", "done", "error"}
  /\ \A n \in Nodes :
       /\ call[n] \in {"none", "sent", "running", "silent", "answered", "failed"}
       /\ job[n] \in {"none", "mapping", "shuffling"}
       /\ call[n] = "running" => IF phase = "reduce" THEN stores[n] # {} ELSE job[n] # "none"
       /\ reads[n] \subseteq {k \in Keys : Home[k] = n} /\ puts[n] \subseteq Keys
       /\ \A o \in Keys : mem[n][o] # {} => Owner(n, o) = n

\* Whatever fails or comes late, a result has no value that does not belong
\* to its key, and no key twice (mr.js:299).
PartialResults ==
  phase = "done" =>
    /\ \A v \in results : v[2] \subseteq Expected[v[1]]
    /\ \A v, w \in results : v[1] = w[1] => v = w

\* Without faults exec, called from outside the group, calls back with every
\* key and every value that belongs to it (mr.js:36), and leaves nothing behind
\* in the memory of the nodes.
ResultIsComplete ==
  phase = "done" /\ ~plan.faulty /\ plan.at \notin Nodes =>
    /\ results = {<<o, Expected[o]>> : o \in {k \in Keys : Expected[k] # {}}}
    /\ \A n \in Nodes : mem[n] = Empty /\ mapped[n] = {}

\* exec calls back, also when nodes crash or time out in any phase.
ExecAnswers == <>(phase \in {"done", "error"})
=============================================================================
