------------------------------- MODULE Bridge -------------------------------
(***************************************************************************)
(* SmBridge.register_agent and unregister_agent of sm_bridge/router.py over  *)
(* a SimpleAgentConverter and a DeltaStore, called from several threads,     *)
(* and a client that walks GET /index page by page.                          *)
(*                                                                         *)
(* Both methods change the converter's dictionary first and the log later,   *)
(* with no lock around the two, and an exception in between undoes nothing.  *)
(* agents is that dictionary in insertion order.  An agent is abstracted to  *)
(* its id, its visibility, a version, and whether to_sm converts it: a       *)
(* SimpleAgent is not validated before.  Its namespace, which the DID and    *)
(* the handle contain, never changes, and no two agents make one DID, so its *)
(* id stands for its DID.                                                    *)
(***************************************************************************)
EXTENDS Naturals, Sequences, FiniteSets, SequencesExt

CONSTANTS
    Thread,     \* the threads that register and unregister agents
    AgentId,
    SimpleAgent,\* the agents that callers register
    SlugName,
    Slug,       \* Slug[id]: default_slug of the agent's facts
    Limit,      \* the page size the index client asks for
    CountLimit, \* how many agents GET /index counts for total_count: 10_000
    StoreMayFail,   \* whether delta_store.add may raise, as a store that persists can
    MaxSeq      \* bound: no call begins that could log more deltas than this

ASSUME AgentAssumption ==
    \A a \in SimpleAgent : a.id \in AgentId /\ a.public \in BOOLEAN /\ a.valid \in BOOLEAN

\* Two agents may have one slug: it is what follows the last "/" of the handle.
ASSUME SlugAssumption == Slug \in [AgentId -> SlugName]

ASSUME LimitAssumption ==
    Limit \in Nat \ {0} /\ CountLimit \in Nat /\ MaxSeq \in Nat /\ StoreMayFail \in BOOLEAN

VARIABLES
    agents,     \* converter._agents, in insertion order
    seq, deltas, latest,    \* the DeltaStore
    pc,         \* where each thread is in its call
    arg,        \* the agent a thread's call is about
    mixed,      \* history: the threads whose call overlapped one about the same slug
    settled,    \* history: the agents whose slug was last called about by a call about
                \* them, as public agents, that overlapped no other and returned
    walk,       \* the client's walk over the index: offset, what it got, its steps
    disturbed   \* history: what has disturbed the walk since it began

logVars == <<seq, deltas, latest>>
callVars == <<pc, arg, mixed, settled>>
walkVars == <<walk, disturbed>>
vars == <<agents, logVars, callVars, walkVars>>

\* converter.to_sm(agent)
ToSm(a) == [id |-> a.id, slug |-> Slug[a.id], version |-> a.version]

Log == INSTANCE DeltaStore WITH
    Agent <- AgentId, Facts <- {ToSm(a) : a \in SimpleAgent}

IdsOf(as) == {as[i].id : i \in DOMAIN as}

TypeOK ==
    /\ agents \in Seq(SimpleAgent)
    /\ \A i, j \in DOMAIN agents : agents[i].id = agents[j].id => i = j
    /\ Log!TypeOK
    /\ pc \in [Thread -> {"idle", "upsert", "pop", "delete"}]
    /\ arg \in [Thread -> SimpleAgent]
    /\ mixed \subseteq Thread
    /\ settled \subseteq AgentId
    /\ walk \in [at : {"page", "total", "done", "failed"}, offset : Nat, got : SUBSET AgentId,
                 from : SUBSET AgentId]
    /\ disturbed \subseteq {"removed", "private"}

-----------------------------------------------------------------------------
NewWalk == [at |-> "page", offset |-> 0, got |-> {}, from |-> IdsOf(agents)]

Init ==
    /\ agents = <<>>
    /\ Log!Init
    /\ pc = [t \in Thread |-> "idle"]
    /\ arg \in {[t \in Thread |-> a] : a \in SimpleAgent}
    /\ mixed = {} /\ settled = {}
    /\ walk = NewWalk
    /\ disturbed = {}

\* self._agents[agent.id] = agent: a known id keeps its place.
Put(a) ==
    IF a.id \in IdsOf(agents)
    THEN [i \in DOMAIN agents |-> IF agents[i].id = a.id THEN a ELSE agents[i]]
    ELSE Append(agents, a)

\* Each busy thread may still log one delta.
MayLogAnother == seq + Cardinality({t \in Thread : pc[t] # "idle"}) < MaxSeq

\* The threads that are in a call about an agent with the slug of id.
CallersFor(id) == {t \in Thread : pc[t] # "idle" /\ Slug[arg[t].id] = Slug[id]}

\* Thread t begins a call about a, and is in it up to the step at.
Begin(t, a, at) ==
    /\ pc[t] = "idle"
    /\ MayLogAnother
    /\ pc' = [pc EXCEPT ![t] = at]
    /\ arg' = [arg EXCEPT ![t] = a]
    /\ mixed' = IF CallersFor(a.id) = {} THEN mixed ELSE mixed \cup CallersFor(a.id) \cup {t}
    /\ settled' = {id \in settled : Slug[id] # Slug[a.id]}

\* The call of thread t is over: it returned, or an exception ended it.
End(t, returned) ==
    /\ pc' = [pc EXCEPT ![t] = "idle"]
    /\ mixed' = mixed \ {t}
    /\ settled' = IF returned /\ t \notin mixed /\ arg[t].public
                  THEN settled \cup {arg[t].id} ELSE settled
    /\ UNCHANGED <<agents, arg, walkVars>>

DisturbedBy(a) == disturbed' = IF a.public THEN disturbed ELSE disturbed \cup {"private"}

\* Mutant of Register: an agent that is registered already is moved to the end.
RegisterAtEnd(t) ==
    \E a \in SimpleAgent :
        /\ Begin(t, a, "upsert")
        /\ agents' = Append(SelectSeq(agents, LAMBDA b : b.id # a.id), a)
        /\ DisturbedBy(a)
        /\ UNCHANGED <<logVars, walk>>

\* register_agent up to self.converter.register.
Register(t) ==
    \E a \in SimpleAgent :
        /\ Begin(t, a, "upsert")
        /\ agents' = Put(a)
        /\ DisturbedBy(a)
        /\ UNCHANGED <<logVars, walk>>

\* self.converter.to_sm(agent) raises: the agent stays registered.
ConversionFails(t) ==
    /\ pc[t] = "upsert"
    /\ ~arg[t].valid
    /\ End(t, FALSE)
    /\ UNCHANGED logVars

\* The delta of a call is recorded only for a public agent.
Record(t, action) ==
    /\ IF arg[t].public THEN Log!Add(action, ToSm(arg[t])) ELSE UNCHANGED logVars
    /\ End(t, TRUE)

RecordUpsert(t) == pc[t] = "upsert" /\ arg[t].valid /\ Record(t, "upsert")

\* self.delta_store.add raises: after the delta was added, as a store does that persists
\* it next, or before.
StoreFails(t) ==
    /\ StoreMayFail
    /\ pc[t] \in {"upsert", "delete"}
    /\ arg[t].valid /\ arg[t].public
    /\ Log!Add(pc[t], ToSm(arg[t])) \/ UNCHANGED logVars
    /\ End(t, FALSE)

\* unregister_agent: get_agent returned an agent, and to_sm converted it.  An unknown
\* id changes nothing, and neither does an agent that cannot be converted.
Find(t) ==
    \E i \in DOMAIN agents :
        /\ agents[i].valid
        /\ Begin(t, agents[i], "pop")
        /\ UNCHANGED <<agents, logVars, walkVars>>

\* self._agents.pop(agent_id, None) of converter.unregister: the others keep
\* their order.
Pop(t) ==
    /\ pc[t] = "pop"
    /\ IF arg[t].id \in IdsOf(agents)
       THEN \E i \in DOMAIN agents :
               agents[i].id = arg[t].id /\ agents' = RemoveAt(agents, i)
       ELSE UNCHANGED agents
    /\ pc' = [pc EXCEPT ![t] = "delete"]
    /\ disturbed' = disturbed \cup {"removed"}
    /\ UNCHANGED <<logVars, arg, mixed, settled, walk>>

\* Mutant of RecordDelete: it looks the agent up again after the removal.
RecordDeleteIfFound(t) ==
    /\ pc[t] = "delete"
    /\ IF arg[t].id \in IdsOf(agents) THEN Record(t, "delete")
       ELSE End(t, TRUE) /\ UNCHANGED logVars

RecordDelete(t) == pc[t] = "delete" /\ Record(t, "delete")

-----------------------------------------------------------------------------
(* GET /index?limit=Limit&offset=...: the page and total_count are two reads. *)

Public(as) == {a \in Range(as) : a.public}

\* list_agents(limit, offset)
ListAgents(limit, offset) == SubSeq(agents, offset + 1, Min({offset + limit, Len(agents)}))

Page == ListAgents(Limit, walk.offset)

\* The agents of the page that is_public lets through, if to_sm converts them all.
ReadPage ==
    /\ walk.at = "page"
    /\ \A a \in Public(Page) : a.valid
    /\ walk' = [walk EXCEPT !.at = "total", !.got = @ \cup {a.id : a \in Public(Page)}]
    /\ UNCHANGED <<agents, logVars, callVars, disturbed>>

\* to_sm raises for one of them: the client gets no page.
PageFails ==
    /\ walk.at = "page"
    /\ \E a \in Public(Page) : ~a.valid
    /\ walk' = [walk EXCEPT !.at = "failed"]
    /\ UNCHANGED <<agents, logVars, callVars, disturbed>>

\* total_count: the public ones among the first CountLimit agents.
Total == Cardinality(Public(ListAgents(CountLimit, 0)))

\* The client goes on while its offset is below total_count.
ReadTotal ==
    LET next == walk.offset + Limit IN
    /\ walk.at = "total"
    /\ walk' = [walk EXCEPT !.offset = next, !.at = IF next < Total THEN "page" ELSE "done"]
    /\ UNCHANGED <<agents, logVars, callVars, disturbed>>

WalkAgain ==
    /\ walk.at \in {"done", "failed"}
    /\ walk' = NewWalk
    /\ disturbed' = IF \A a \in Range(agents) : a.public THEN {} ELSE {"private"}
    /\ UNCHANGED <<agents, logVars, callVars>>

Call(t) ==
    \/ Register(t) \/ ConversionFails(t) \/ RecordUpsert(t) \/ StoreFails(t)
    \/ Find(t) \/ Pop(t) \/ RecordDelete(t)

Next ==
    \/ \E t \in Thread : Call(t)
    \/ ReadPage
    \/ PageFails
    \/ ReadTotal
    \/ WalkAgain

Spec == Init /\ [][Next]_vars

-----------------------------------------------------------------------------
(* Properties. *)

\* What a catalog reader sees of agent id, and what is registered under it.
Listing(id) == {d.agent : d \in {e \in Log!Listed(Log!Latest) : e.agent.id = id}}
Registered(id) == {ToSm(a) : a \in {b \in Public(agents) : b.id = id}}

\* A call about a public agent that overlapped no call about its slug and did not raise
\* leaves the agent listed as it is registered, whatever earlier calls left behind, and
\* it stays so until the next call about its slug, however the others interleave,
\* overlap and fail.
CatalogAgrees == \A id \in settled : Listing(id) = Registered(id)

\* A finished walk got every agent that was registered when it began and is among those
\* that total_count is counted from, as long as no agent was removed and none was
\* private meanwhile.
WalkIsComplete ==
    walk.at = "done" /\ disturbed = {} =>
        \A i \in DOMAIN agents :
            i <= CountLimit /\ agents[i].id \in walk.from => agents[i].id \in walk.got
=============================================================================
