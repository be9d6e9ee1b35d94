----------------------------- MODULE Messaging -----------------------------
(* Calls between nodes and the operations that gather their answers:        *)
(* local/comm.js, local/node.js, local/routes.js, all/remote-service.js,    *)
(* the distributed lookups of all/term-lookup.js and all/query.js with the  *)
(* lookup of local/term-lookup.js that serves them, the ranking of their    *)
(* results, and local/status.js.                                            *)
(* One client, Self, runs operations; a call to Self is a function call,    *)
(* any other is a request with serialized arguments and a timeout.          *)
EXTENDS Codec, Query

CONSTANTS Nodes, Self, AllTerms, TermHome, Pages,
          Plans,     \* what a behaviour explores: operations, a payload, faults
          Builtin,   \* services of local.js, called on Self without a route
          Dynamic,   \* services registered with routes.put
          NotCached, Absent

\* An operation is [name, kind, service, targets, want]: a "gather" sends the
\* payload to its targets; a "lookup" with the client's cache of results, and
\* a "query" without it, send their terms to the nodes that own them.
Operation(o) ==
  /\ o.kind \in {"gather", "lookup", "query"} /\ o.targets \subseteq Nodes /\ o.want \in Seq(AllTerms)
  /\ o.kind # "gather" => o.service \in Builtin
Plan(p) ==
  /\ \A o \in p.ops : Operation(o)
  /\ IsGraph(p.payload) /\ p.faulty \in BOOLEAN /\ p.pages \subseteq Pages

\* Every term has a home, and what stands for no pages is no list of pages.
MessagingAssumption ==
  /\ IsFiniteSet(Nodes) /\ Self \in Nodes /\ TermHome \in [AllTerms -> Nodes]
  /\ IsFiniteSet(Pages) /\ Pages = DOMAIN Content
  /\ Absent \notin Seq(Pages) /\ NotCached \notin Seq(Pages) \cup {Absent}
  /\ \A p \in Plans : Plan(p)
ASSUME MessagingAssumption

VARIABLES plan, delivered, opened, call, heard, active, errors, results, called,
          node, routes, unread, answer, got, index, cache, found, arrived, before

status == <<node, routes>>
gather == <<heard, active, errors, results, called, got, cache, found, arrived>>
vars == <<plan, delivered, opened, call, gather, status, unread, answer, index, before>>

Ops == plan.ops
Faulty == plan.faulty
None == <<>>
Init ==
  /\ plan \in Plans
  /\ delivered = Deserialize(Serialize(plan.payload))  \* what a request brings
  /\ opened = {}
  /\ call = [o \in Ops |-> [m \in Nodes |-> "none"]]
  /\ heard = [o \in Ops |-> {}]
  /\ active = [o \in Ops |-> 0]
  /\ errors = [o \in Ops |-> {}] /\ results = [o \in Ops |-> {}]
  /\ called = [o \in Ops |-> 0]
  /\ node = [m \in Nodes |-> "up"]
  /\ routes = [m \in Nodes |-> Builtin \cup Dynamic]
  /\ unread = [o \in Ops |-> [m \in Nodes |-> {}]]
  /\ answer = [o \in Ops |-> [m \in Nodes |-> None]]
  /\ got = [o \in Ops |-> [m \in Nodes |-> None]]
  /\ index = [t \in AllTerms |-> <<>>]
  /\ cache = [t \in AllTerms |-> NotCached]
  /\ found = [o \in Ops |-> [t \in AllTerms |-> Absent]]
  /\ arrived = [o \in Ops |-> <<>>]   \* the terms of the results, in order
  /\ before = [o \in Ops |-> index]

----------------------------------------------------------------------------
(* The client *)

Misses(o) == {t \in ToSet(o.want) : o.kind = "query" \/ cache[t] = NotCached}
Batch(o, m) == Only(o.want, {t \in Misses(o) : TermHome[t] = m})
Targets(o) ==
  IF o.kind = "gather" THEN o.targets ELSE {m \in Nodes : Batch(o, m) # <<>>}

\* A call on Self of a service that is no part of local.js throws at once.
Throws(o, m) == m = Self /\ o.service \notin Builtin

Open(o) ==
  LET targets == Targets(o)
      thrown == {m \in targets : Throws(o, m)}
      keys == [m \in Nodes |-> IF o.kind = "gather" THEN <<>> ELSE Batch(o, m)]
  IN /\ o \notin opened
     /\ opened' = opened \cup {o}
     /\ call' = [call EXCEPT ![o] = [m \in Nodes |->
                   IF m \notin targets THEN "none" ELSE IF m \in thrown THEN "over"
                   ELSE IF m = Self THEN "handling" ELSE "sent"]]
     /\ heard' = [heard EXCEPT ![o] = thrown]
     /\ errors' = [errors EXCEPT ![o] = thrown]
     /\ active' = [active EXCEPT ![o] = Cardinality(targets) - Cardinality(thrown)]
     /\ called' = [called EXCEPT ![o] = IF targets = thrown THEN 1 ELSE 0]
     /\ unread' = [unread EXCEPT ![o] = [m \in Nodes |-> 1..Len(keys[m])]]
     /\ answer' = [answer EXCEPT ![o] = [m \in Nodes |-> [i \in 1..Len(keys[m]) |->
                     [term |-> keys[m][i], pages |-> Absent]]]]
     /\ found' = [found EXCEPT ![o] = [t \in AllTerms |->
                    IF t \in ToSet(o.want) /\ o.kind = "lookup" /\ cache[t] # NotCached
                    THEN cache[t] ELSE Absent]]
     /\ before' = [before EXCEPT ![o] = index]
     /\ UNCHANGED <<plan, delivered, results, got, cache, arrived, status, index>>

\* Faulty variant: a gathering also returns early from an error.
CountAnswers(o, m, ok) ==
  IF ~ok THEN UNCHANGED <<active, errors, results, called>>
  ELSE /\ active' = [active EXCEPT ![o] = @ - 1]
       /\ called' = IF active[o] = 1 THEN [called EXCEPT ![o] = @ + 1] ELSE called
       /\ results' = [results EXCEPT ![o] = @ \cup {m}]
       /\ UNCHANGED errors

\* What the callback of a call does with its answer: sendRequests counts
\* every answer, lookupBatches and getTerms return early from an error.
Count(o, m, ok) ==
  IF o.kind # "gather" /\ ~ok THEN UNCHANGED <<active, errors, results, called>>
  ELSE /\ active' = [active EXCEPT ![o] = @ - 1]
       /\ called' = IF active[o] = 1 THEN [called EXCEPT ![o] = @ + 1] ELSE called
       /\ errors' = IF ok THEN errors ELSE [errors EXCEPT ![o] = @ \cup {m}]
       /\ results' = IF ok THEN [results EXCEPT ![o] = @ \cup {m}] ELSE results

\* Faulty variant: the answers of a batch are packed, its nulls dropped.
DecompressPacked(o, m) ==
  LET a == answer[o][m]
      packed == Only(a, {r \in ToSet(a) : r.pages # Absent})
      At(t) == CHOOSE r \in DOMAIN a : a[r].term = t
  IN [t \in AllTerms |->
       IF \E r \in DOMAIN packed : a[r].term = t THEN packed[At(t)].pages ELSE found[o][t]]

\* The r-th answer of a batch belongs to its r-th term, and the last one of a
\* term counts.  A null is no result of a lookup; it is one of a query.
Decompress(o, m) ==
  LET a == answer[o][m]
      Of(t) == {r \in DOMAIN a : a[r].term = t /\ (o.kind = "query" \/ a[r].pages # Absent)}
  IN [t \in AllTerms |->
       IF Of(t) = {} THEN found[o][t]
       ELSE a[CHOOSE r \in Of(t) : \A q \in Of(t) : q <= r].pages]

\* Each term of a batch enters the results once, found or not.
Arrived(o, m) ==
  LET a == answer[o][m]
      after[r \in 0..Len(a)] ==
        IF r = 0 THEN arrived[o]
        ELSE IF a[r].term \in ToSet(after[r - 1]) THEN after[r - 1] ELSE Append(after[r - 1], a[r].term)
  IN after[Len(a)]

\* The terms that are in a batch.
Asked(o, t) == \E m \in Nodes : \E r \in DOMAIN answer[o][m] : answer[o][m][r].term = t

\* lookup: when the last batch is in, its results enter the cache.  getTerms
\* keeps them in the order in which the batches come.
Keep(o, m, ok) ==
  IF o.kind = "gather" \/ ~ok THEN UNCHANGED <<found, arrived, cache>>
  ELSE /\ found' = [found EXCEPT ![o] = Decompress(o, m)]
       /\ arrived' = IF o.kind = "query" THEN [arrived EXCEPT ![o] = Arrived(o, m)] ELSE arrived
       /\ cache' = IF active[o] # 1 \/ o.kind = "query" THEN cache
                   ELSE [t \in AllTerms |-> IF Asked(o, t) /\ found'[o][t] # Absent
                                            THEN found'[o][t] ELSE cache[t]]

\* Faulty variant: every call of a callback counts.
CallbackUnguarded(o, m, ok) ==
  heard' = [heard EXCEPT ![o] = @ \cup {m}] /\ Count(o, m, ok) /\ Keep(o, m, ok)

\* createGuardedCallback: only the first call of a callback counts.
Callback(o, m, ok) ==
  IF m \in heard[o] THEN UNCHANGED <<heard, active, errors, results, called, found, arrived, cache>>
  ELSE /\ heard' = [heard EXCEPT ![o] = @ \cup {m}]
       /\ Count(o, m, ok)
       /\ Keep(o, m, ok)

\* The timeout of a request, or an error of its connection.
TimeOut(o, m) ==
  /\ m # Self /\ call[o][m] \notin {"none", "over"} /\ m \notin heard[o]
  /\ Callback(o, m, FALSE)
  /\ UNCHANGED <<plan, delivered, opened, call, got, status, unread, answer, index, before>>

\* A response arrives, also after the timeout.
Respond(o, m) ==
  /\ call[o][m] \in {"replied", "refused"}
  /\ call' = [call EXCEPT ![o][m] = "over"]
  /\ Callback(o, m, call[o][m] = "replied")
  /\ UNCHANGED <<plan, delivered, opened, got, status, unread, answer, index, before>>

----------------------------------------------------------------------------
(* The node that serves a call *)

\* handleRequest and callService of node.js: the service is looked up in the
\* routes and the arguments are deserialized.
Arrive(o, m) ==
  /\ call[o][m] = "sent" /\ node[m] # "down"
  /\ IF node[m] = "up" /\ o.service \in routes[m] /\ delivered # Failure
     THEN /\ call' = [call EXCEPT ![o][m] = "handling"]
          /\ got' = [got EXCEPT ![o][m] = IF o.kind = "gather" THEN delivered ELSE None]
     ELSE /\ call' = [call EXCEPT ![o][m] = "refused"]
          /\ UNCHANGED got
  /\ UNCHANGED <<plan, delivered, opened, heard, active, errors, results, called, cache, found, arrived,
                 status, unread, answer, index, before>>

\* One read of the lookup at a node; an error of the store leaves a null.
ReadTerm(o, m, i, ok) ==
  /\ call[o][m] = "handling" /\ node[m] # "down" /\ i \in unread[o][m] /\ (ok \/ Faulty)
  /\ LET t == answer[o][m][i].term
     IN answer' = IF ok /\ index[t] # <<>> THEN [answer EXCEPT ![o][m][i].pages = index[t]] ELSE answer
  /\ unread' = [unread EXCEPT ![o][m] = @ \ {i}]
  /\ UNCHANGED <<plan, delivered, opened, call, gather, status, index, before>>

\* The method calls back: on Self into the guarded callback, elsewhere into
\* the response.  It may also answer an error, or never answer.
Return(o, m, outcome) ==
  /\ call[o][m] = "handling" /\ node[m] # "down" /\ unread[o][m] = {}
  /\ outcome # "replied" => Faulty /\ o.kind = "gather"
  /\ IF m = Self /\ outcome # "stuck"
     THEN call' = [call EXCEPT ![o][m] = "over"] /\ Callback(o, m, outcome = "replied")
     ELSE /\ call' = [call EXCEPT ![o][m] = outcome]
          /\ UNCHANGED <<heard, active, errors, results, called, found, arrived, cache>>
  /\ UNCHANGED <<plan, delivered, opened, got, status, unread, answer, index, before>>

\* A method that calls back twice, as flushCache does after an error: the
\* guard drops it on Self; elsewhere the second writeHead of the response
\* throws, in sendError again, and the process ends.
ReturnAgain(o, m) ==
  /\ Faulty /\ o.service = "search" /\ node[m] # "down"
  /\ IF m = Self THEN call[o][m] = "over" /\ m \in heard[o] ELSE call[o][m] \in {"replied", "refused"}
  /\ IF m = Self
     THEN Callback(o, m, TRUE) /\ UNCHANGED node
     ELSE /\ node' = [node EXCEPT ![m] = "down"]
          /\ UNCHANGED <<heard, active, errors, results, called, found, arrived, cache>>
  /\ UNCHANGED <<plan, delivered, opened, call, got, routes, unread, answer, index, before>>

\* status.stop: requests are refused for 20 ms, then the process exits.
StopNode(m) ==
  /\ Faulty /\ m # Self /\ node[m] # "down" /\ \E o \in Ops : o.service = "search"
  /\ node' = [node EXCEPT ![m] = IF @ = "up" THEN "stopping" ELSE "down"]
  /\ UNCHANGED <<plan, delivered, opened, call, gather, routes, unread, answer, index, before>>

\* routes.put and routes.rem of a dynamic service.
Reroute(m, s) ==
  /\ Faulty /\ node[m] = "up" /\ s \in Dynamic
  /\ \E o \in Ops : o.service = s /\ m \in o.targets
  /\ routes' = [routes EXCEPT ![m] = IF s \in @ THEN @ \ {s} ELSE @ \cup {s}]
  /\ UNCHANGED <<plan, delivered, opened, call, gather, node, unread, answer, index, before>>

\* updateIndex at the node of a term adds a page (see AtomicStore).
Grow(t, p) ==
  /\ node[TermHome[t]] # "down" /\ t \in Terms(p) /\ p \notin ToSet(index[t]) /\ p \in plan.pages
  /\ \E o \in Ops : t \in ToSet(o.want)
  /\ index' = [index EXCEPT ![t] = Append(@, p)]
  /\ UNCHANGED <<plan, delivered, opened, call, gather, status, unread, answer, before>>

Serve(o, m) ==
  \/ Arrive(o, m)
  \/ \E i \in unread[o][m], ok \in BOOLEAN : ReadTerm(o, m, i, ok)
  \/ \E outcome \in {"replied", "refused", "stuck"} : Return(o, m, outcome)
  \/ Respond(o, m)

Next ==
  \/ \E o \in Ops : Open(o)
  \/ \E o \in Ops, m \in Nodes : TimeOut(o, m) \/ Serve(o, m) \/ ReturnAgain(o, m)
  \/ \E m \in Nodes : StopNode(m) \/ \E s \in Dynamic : Reroute(m, s)
  \/ \E t \in AllTerms, p \in Pages : Grow(t, p)

\* Requests time out in the end, and a node that is up goes on serving.
Fairness ==
  \A m \in Nodes :
    /\ WF_vars(\E o \in Ops : TimeOut(o, m))
    /\ WF_vars(\E o \in Ops : Serve(o, m))
Spec == Init /\ [][Next]_vars /\ Fairness

----------------------------------------------------------------------------
(* Properties *)

\* The values each part of the state takes.
MessagingTypeOK ==
  /\ opened \subseteq Ops
  /\ \A o \in Ops :
       /\ call[o] \in [Nodes -> {"none", "sent", "handling", "stuck", "replied", "refused", "over"}]
       /\ active[o] \in 0..Cardinality(Nodes)
       /\ heard[o] \subseteq Nodes /\ errors[o] \subseteq Nodes /\ results[o] \subseteq Nodes
       /\ \A t \in AllTerms : found[o][t] = Absent \/ ToSet(found[o][t]) \subseteq Pages
  /\ node \in [Nodes -> {"up", "stopping", "down"}]

\* An operation calls back once at most, and only when every call it made
\* was answered or failed: late responses, timeouts and methods that call
\* back twice do not count twice (sync.js:8, remote-service.js:59).
AnsweredOnce ==
  \A o \in opened :
    /\ called[o] <= 1
    /\ called[o] = 1 =>
         /\ \A m \in Nodes : call[o][m] # "none" => m \in heard[o]
         /\ o.kind = "gather" => errors[o] \cup results[o] = o.targets /\ errors[o] \cap results[o] = {}

\* A term that a finished lookup asked the nodes for has, unless its read
\* failed, every page the index held when the lookup began, and no term has
\* a page it never had: answers meet the terms of their batch, whatever is
\* missing and in whatever order they come (all/term-lookup.js:84).
LookupsAreComplete ==
  \A o \in opened : \A t \in ToSet(o.want) :
    LET pages == IF found[o][t] = Absent THEN {} ELSE ToSet(found[o][t])
    IN /\ pages \subseteq ToSet(index[t])
       /\ called[o] = 1 /\ Asked(o, t) /\ ~Faulty => ToSet(before[o][t]) \subseteq pages

Ranked(o) ==
  Ranking([i \in DOMAIN arrived[o] |->
    [term |-> arrived[o][i],
     pages |-> IF found[o][arrived[o][i]] = Absent THEN <<>> ELSE found[o][arrived[o][i]]]])

\* A query ranks pages that the index has for one of its terms, the better
\* ones first, no title twice and no score divided by zero; and every page
\* indexed before the query is ranked, or one with its title is, unless a
\* read failed or better ones fill the list (query.js:44).
RankedPagesMatch ==
  \A o \in opened : o.kind = "query" /\ called[o] = 1 =>
    LET r == Ranked(o)
        titles == {Content[r[i].url].title : i \in DOMAIN r}
    IN /\ \A i \in DOMAIN r :
            /\ r[i].score.den > 0
            /\ \E t \in ToSet(o.want) : r[i].url \in ToSet(index[t])
       /\ \A i, j \in DOMAIN r : i < j =>
            ~Less(r[i].score, r[j].score) /\ Content[r[i].url].title # Content[r[j].url].title
       /\ Len(r) < MAX_SEARCH_RESULTS /\ ~Faulty =>
            \A t \in ToSet(o.want) : \A p \in ToSet(before[o][t]) : Content[p].title \in titles

\* The arguments a method gets are those of the caller, with the same shared
\* and circular references (serialization.js).
RoundTrip ==
  \A o \in opened, m \in Nodes : got[o][m] # None => SameGraph(plan.payload, got[o][m], 3)

\* Every gathering answers, unless a method on the client itself never calls
\* back: there is no timeout for a local call (comm.js:45).  A lookup answers
\* unless one of its calls failed (all/term-lookup.js:78).
Answered(o) ==
  \/ called[o] = 1
  \/ call[o][Self] = "stuck"
  \/ o.kind # "gather" /\ heard[o] # results[o]
OperationsAnswer == []<>(\A o \in opened : Answered(o))
=============================================================================
