--------------------------- MODULE SessionRunner ----------------------------
(***************************************************************************)
(* One session, driven through the HTTP API: the handlers of api/routes.py *)
(* with services/idempotency.py, the SessionRunner of api/deps.py with its *)
(* run lock in the store, and the graph of graph/builder.py whose nodes    *)
(* are in graph/nodes.py.  The generation loop is seen from outside: it    *)
(* checkpoints, finishes, announces and stores an outcome (GenerationLoop  *)
(* has the inside).                                                        *)
(*                                                                         *)
(* Requests reach any of several processes.  A request that gets the run   *)
(* lock spawns a background task, here called the request's leg, which     *)
(* drives the graph until it pauses on an interrupt or ends.  The session  *)
(* record, the graph checkpoint, the lock, the idempotency records and the *)
(* event stream are in Redis and survive the processes.                    *)
(*                                                                         *)
(* Session writes replace the whole record.  Only nodes that write back    *)
(* the fsm_state they read need a copy; every other writer sets it.  The   *)
(* bounds on client requests and on mishaps are the constants Requests and *)
(* MaxMishaps.                                                             *)
(***************************************************************************)
EXTENDS Naturals, Sequences, FiniteSets

CONSTANTS
    Requests,     \* the requests clients send for this session, each once
    Kind,         \* request -> "start", "input", "approve", "reject",
                  \*            "badcomp" (unknown composition) or "cancel"
    Key,          \* request -> its endpoint-scoped idem_key
    Procs,        \* API processes
    Home,         \* request -> the process that serves it
    None,         \* no request
    SerialClient, \* TRUE: the client answers each question once, in turn
    MaxReasks,    \* MAX_REASKS
    MaxMishaps    \* bound: mishap -> how often it happens

Kinds == {"start", "input", "approve", "reject", "badcomp", "cancel"}
Mishaps == {"timeout", "fault", "crash", "shutdown"}

ASSUME RunnerAssumption ==
    /\ Kind \in [Requests -> Kinds]
    /\ Home \in [Requests -> Procs]
    /\ None \notin Requests
    /\ SerialClient \in BOOLEAN
    /\ MaxReasks \in Nat
    /\ MaxMishaps \in [Mishaps -> Nat]

VARIABLES
    fsm,      \* SessionState.fsm_state, "none" while there is no record
    kept,     \* the session has a best frame
    outcome,  \* what is stored under generation:{session_key}
    graph,    \* the LangGraph checkpoint of this thread
    stream,   \* need_input, result, done and failed events, in stream order
    lock,     \* lock:run:{session_key}: the request whose token it holds
    idem,     \* keys with a stored HTTP response
    req,      \* request -> how far its handler is
    waits,    \* cancel request -> the leg it joins
    leg,      \* request -> the background task it spawned
    task,     \* process -> the leg in its SessionRunner._tasks
    mishaps   \* history: mishap -> how often it happened

sessionVars == <<fsm, kept, outcome, graph, stream>>
handlerVars == <<idem, req, waits>>
vars == <<sessionVars, lock, handlerVars, leg, task, mishaps>>

Fsm == INSTANCE SessionFsm

-----------------------------------------------------------------------------
Nodes == {"analyze", "quality_gate", "parse_brief", "extract_inventory", "ask",
          "resolve_constraints", "plan_steps", "approve", "generate", "done",
          "fail", "end"}

\* Who answers the preset's ask slot: nobody (it has none), the brief, or the
\* user; "no_preset" when the library resolves to nothing.
Questions == {"none", "brief", "user", "no_preset"}

\* The channels of GraphState that routing depends on, and the next node.
Graph == [next : Nodes, question : Questions, reasks : Nat,
          reask : BOOLEAN, failure : BOOLEAN]

NewThread == [next |-> "analyze", question |-> "user", reasks |-> 0,
              reask |-> FALSE, failure |-> FALSE]

\* A leg inside graph.ainvoke, at one of its awaits.
InGraph == {"run", "work", "loop", "announce", "store", "tell", "commit"}

\* ... and before and after it, up to the release of the lock.
Driving == InGraph \cup {"spawned", "exit"}
Over == {"gone", "dead"}
Places == {"off", "narrate", "expire", "obituary"} \cup Driving \cup Over

Exits == {"none", "paused", "ended", "timeout", "fault", "cancelled"}

\* `fresh': the resume value is still unread; `copy': fsm_state of the record
\* the node read; `pending': the checkpoint LangGraph writes after the node.
Leg == [at : Places, exit : Exits, fresh : BOOLEAN, copy : Fsm!States,
        pending : Graph]

NoLeg == [at |-> "off", exit |-> "none", fresh |-> FALSE, copy |-> "none",
          pending |-> NewThread]

\* A leg that has nothing in hand.
At(place) == [NoLeg EXCEPT !.at = place]

InHandler == {"op", "checked", "spawned", "joining", "writing"}
Active(r) == leg[r].at \notin Over \cup {"off"}
Settled == \A r \in Requests : req[r] \notin InHandler /\ ~Active(r)

Publish(event) == stream' = Append(stream, event)

-----------------------------------------------------------------------------
Init ==
    /\ fsm = "none"
    /\ kept = FALSE
    /\ outcome = "none"
    /\ graph = NewThread
    /\ stream = <<>>
    /\ lock = None
    /\ idem = {}
    /\ req = [r \in Requests |-> "unsent"]
    /\ waits = [r \in Requests |-> None]
    /\ leg = [r \in Requests |-> NoLeg]
    /\ task = [p \in Procs |-> None]
    /\ mishaps = [m \in Mishaps |-> 0]

-----------------------------------------------------------------------------
\* run_once looks for a stored response; /cancel has no idem_key.
Lookup(r) ==
    /\ req[r] = "unsent"
    /\ SerialClient => Settled
    /\ req' = [req EXCEPT ![r] = IF Kind[r] # "cancel" /\ Key[r] \in idem
                                 THEN "replayed" ELSE "op"]
    /\ UNCHANGED <<sessionVars, lock, idem, waits, leg, task, mishaps>>

\* The state each endpoint asks for.
Admits(kind, state) ==
    CASE kind = "start"  -> state = "none"
      [] kind = "input"  -> state = "need_input"
      [] kind = "cancel" -> state \notin Fsm!Terminal \cup {"none"}
      [] OTHER           -> state = "awaiting_approval"

\* The handler reads the session and checks its state; start may also refuse
\* the face.  A refused request is not stored under its key.
Check(r) ==
    /\ req[r] = "op"
    /\ \/ Admits(Kind[r], fsm) /\ req' = [req EXCEPT ![r] = "checked"]
       \/ /\ ~Admits(Kind[r], fsm) \/ Kind[r] = "start"
          /\ req' = [req EXCEPT ![r] = "rejected"]
    /\ UNCHANGED <<sessionVars, lock, idem, waits, leg, task, mishaps>>

\* Mutant: the task is created whether the lock was acquired or not.
SpawnUnlocked(r) ==
    /\ req[r] = "checked" /\ Kind[r] # "cancel"
    /\ lock' = r
    /\ leg' = [leg EXCEPT ![r].at = "spawned"]
    /\ task' = [task EXCEPT ![Home[r]] = r]
    /\ req' = [req EXCEPT ![r] = "spawned"]
    /\ UNCHANGED <<sessionVars, idem, waits, mishaps>>

\* _spawn: take the lock, create the task and remember it.
Spawn(r) ==
    /\ req[r] = "checked" /\ Kind[r] # "cancel"
    /\ lock = None
    /\ lock' = r
    /\ leg' = [leg EXCEPT ![r].at = "spawned"]
    /\ task' = [task EXCEPT ![Home[r]] = r]
    /\ req' = [req EXCEPT ![r] = "spawned"]
    /\ UNCHANGED <<sessionVars, idem, waits, mishaps>>

\* _spawn finds the lock held: 409.
Bounce(r) ==
    /\ req[r] = "checked" /\ Kind[r] # "cancel"
    /\ lock # None
    /\ req' = [req EXCEPT ![r] = "rejected"]
    /\ UNCHANGED <<sessionVars, lock, idem, waits, leg, task, mishaps>>

\* run_once stores the response.
Accept(r) ==
    /\ req[r] = "spawned"
    /\ idem' = idem \cup {Key[r]}
    /\ req' = [req EXCEPT ![r] = "accepted"]
    /\ UNCHANGED <<sessionVars, lock, waits, leg, task, mishaps>>

-----------------------------------------------------------------------------
\* task.cancel(): CancelledError at the task's current await.  A task that has
\* not had its first step never enters _run's try.  One that is in the graph
\* leaves through the handler.  One that is releasing is past the try, and its
\* release has reached the store or not; a shielded release goes on.  One that
\* is narrating just stops.
Interrupt(t) ==
    CASE leg[t].at \in InGraph ->
            /\ leg' = [leg EXCEPT ![t] = [At("exit") EXCEPT !.exit = "cancelled"]]
            /\ UNCHANGED <<lock, task>>
      [] leg[t].at = "exit" ->
            /\ leg' = [leg EXCEPT ![t] = At("dead")]
            /\ \/ lock' = (IF lock = t THEN None ELSE lock)
               \/ leg[t].exit # "cancelled" /\ UNCHANGED lock
            /\ task' = [task EXCEPT ![Home[t]] = None]
      [] OTHER ->
            /\ leg' = [leg EXCEPT ![t] = At("dead")]
            /\ task' = [task EXCEPT ![Home[t]] = None]
            /\ UNCHANGED lock

\* SessionRunner.cancel, first half: cancel the task this process knows of.
CancelTask(r) ==
    /\ req[r] = "checked" /\ Kind[r] = "cancel"
    /\ LET t == task[Home[r]] IN
        /\ waits' = [waits EXCEPT ![r] = t]
        /\ IF t # None THEN Interrupt(t) ELSE UNCHANGED <<lock, leg, task>>
    /\ req' = [req EXCEPT ![r] = "joining"]
    /\ UNCHANGED <<sessionVars, idem, mishaps>>

\* Second half: once that task is over, mark the session (the record read here is
\* written back with fsm_state replaced, so the read needs no step of its own) ...
CancelSession(r) ==
    /\ req[r] = "joining"
    /\ waits[r] # None => leg[waits[r]].at \in Over
    /\ fsm' = "cancelled"
    /\ req' = [req EXCEPT ![r] = "writing"]
    /\ UNCHANGED <<kept, outcome, graph, stream, lock, idem, waits, leg, task,
                   mishaps>>

\* ... and close the stream.
CancelPublish(r) ==
    /\ req[r] = "writing"
    /\ Publish("failed")
    /\ req' = [req EXCEPT ![r] = "accepted"]
    /\ UNCHANGED <<fsm, kept, outcome, graph, lock, idem, waits, leg, task,
                   mishaps>>

Handle(r) == \/ Check(r) \/ Spawn(r) \/ Bounce(r) \/ Accept(r)
             \/ CancelTask(r) \/ CancelSession(r) \/ CancelPublish(r)

-----------------------------------------------------------------------------
\* The leg of r is about to run the body of this node.
On(r, node) == leg[r].at = "run" /\ graph.next = node

\* A node returned without having written the session: checkpoint, go on.
Advance(r, checkpoint) ==
    /\ graph' = checkpoint
    /\ leg' = [leg EXCEPT ![r] = At("run")]
    /\ UNCHANGED <<fsm, kept, outcome, stream, lock, handlerVars, task, mishaps>>

\* A node writes the session record; LangGraph's checkpoint comes later.
WriteSession(r, state, checkpoint) ==
    /\ fsm' = state
    /\ leg' = [leg EXCEPT ![r] = [At("commit") EXCEPT !.pending = checkpoint]]
    /\ UNCHANGED <<kept, outcome, graph, stream, lock, handlerVars, task, mishaps>>

\* graph.ainvoke ends: it returned (paused, ended) or raised.
Leave(r, exit) ==
    leg' = [leg EXCEPT ![r] = [At("exit") EXCEPT !.exit = exit]]

To(node) == [graph EXCEPT !.next = node]

\* The conditional edges test the failure channel, which is never cleared.
Routed(node) == To(IF graph.failure THEN "fail" ELSE node)
Failure == [graph EXCEPT !.failure = TRUE, !.next = "fail"]

\* Mutant: a resume enters the graph at its beginning, like a start.
BeginAfresh(r) ==
    /\ leg[r].at = "spawned"
    /\ leg' = [leg EXCEPT ![r].at = "run", ![r].fresh = Kind[r] # "start"]
    /\ graph' = To("analyze")
    /\ UNCHANGED <<fsm, kept, outcome, stream, lock, handlerVars, task, mishaps>>

\* The task's first step.  A start enters the graph at its beginning, on top of
\* whatever the thread's channels hold; a resume goes on at the next node.
Begin(r) ==
    /\ leg[r].at = "spawned"
    /\ leg' = [leg EXCEPT ![r].at = "run", ![r].fresh = Kind[r] # "start"]
    /\ graph' = IF Kind[r] = "start" THEN To("analyze") ELSE graph
    /\ UNCHANGED <<fsm, kept, outcome, stream, lock, handlerVars, task, mishaps>>

\* LangGraph's checkpoint after a node.
Commit(r) ==
    /\ leg[r].at = "commit"
    /\ Advance(r, leg[r].pending)

\* Nothing is left to run.
Ended(r) ==
    /\ On(r, "end")
    /\ Leave(r, "ended")
    /\ UNCHANGED <<sessionVars, lock, handlerVars, task, mishaps>>

Analyze(r) ==
    /\ On(r, "analyze")
    /\ WriteSession(r, "face_check", To("quality_gate"))

QualityGate(r) ==
    /\ On(r, "quality_gate")
    /\ Advance(r, Routed("parse_brief")) \/ Advance(r, Failure)

\* parse_brief, extract_inventory and (once decided) approve read the record,
\* and write it back later with the fsm_state it had.
ReadSession(r) ==
    /\ On(r, "parse_brief") \/ On(r, "extract_inventory")
    /\ leg' = [leg EXCEPT ![r] = [At("work") EXCEPT !.copy = fsm]]
    /\ UNCHANGED <<sessionVars, lock, handlerVars, task, mishaps>>

ParseBrief(r) ==
    /\ leg[r].at = "work" /\ graph.next = "parse_brief"
    /\ \E question \in Questions :
        WriteSession(r, leg[r].copy,
                     [To("extract_inventory") EXCEPT !.question = question])

\* The record is written only when the extraction cost something.
ExtractInventory(r) ==
    /\ leg[r].at = "work" /\ graph.next = "extract_inventory"
    /\ \/ WriteSession(r, leg[r].copy, To("ask"))
       \/ Advance(r, To("ask"))

\* The brief answers a free-form slot, unless it was just rejected.
Asks == \/ graph.question = "user"
        \/ graph.question = "brief" /\ graph.reask

AskWithoutPreset(r) ==
    /\ On(r, "ask") /\ graph.question = "no_preset"
    /\ Advance(r, Failure)

AskNobody(r) ==
    /\ On(r, "ask") /\ graph.question # "no_preset" /\ ~Asks
    /\ Advance(r, Routed("resolve_constraints"))

\* NEED_INPUT is written, then interrupt() pauses the graph here.
AskPauses(r) ==
    /\ On(r, "ask") /\ Asks /\ ~leg[r].fresh
    /\ fsm' = "need_input"
    /\ Leave(r, "paused")
    /\ UNCHANGED <<kept, outcome, graph, stream, lock, handlerVars, task, mishaps>>

\* The node is run again for the resume: NEED_INPUT is written once more, and
\* interrupt() returns the value, whichever request it came from.
AskAnswered(r) ==
    /\ On(r, "ask") /\ Asks /\ leg[r].fresh
    /\ WriteSession(r, "need_input", Routed("resolve_constraints"))

\* Mutant: the record is written without the new state.
ResolveSilently(r) ==
    /\ On(r, "resolve_constraints")
    /\ WriteSession(r, fsm, [Routed("plan_steps") EXCEPT !.reask = FALSE])

ResolveAccepts(r) ==
    /\ On(r, "resolve_constraints")
    /\ WriteSession(r, "planning",
                    [Routed("plan_steps") EXCEPT !.reask = FALSE])

\* The filled template reads as an injection: ask again, MaxReasks times.
ResolveRejects(r) ==
    /\ On(r, "resolve_constraints")
    /\ Advance(r, IF graph.reasks >= MaxReasks THEN Failure
                  ELSE [Routed("ask") EXCEPT !.reasks = @ + 1, !.reask = TRUE])

\* Mutant: the plan is stored without the new state.
PlanSilently(r) ==
    /\ On(r, "plan_steps")
    /\ WriteSession(r, fsm, To("approve"))

PlanSteps(r) ==
    /\ On(r, "plan_steps")
    /\ WriteSession(r, "awaiting_approval", To("approve"))

ApprovePauses(r) ==
    /\ On(r, "approve") /\ ~leg[r].fresh
    /\ Leave(r, "paused")
    /\ UNCHANGED <<sessionVars, lock, handlerVars, task, mishaps>>

\* _parse_decision takes any value: a text approves if it is one of four words.
Decisions(kind) ==
    CASE kind = "reject" -> {FALSE}
      [] kind = "input"  -> BOOLEAN
      [] OTHER           -> {TRUE}

ApproveRejects(r) ==
    /\ On(r, "approve") /\ leg[r].fresh
    /\ FALSE \in Decisions(Kind[r])
    /\ Advance(r, Failure)

\* apply_composition raises on an unknown composition id.
ApproveRaises(r) ==
    /\ On(r, "approve") /\ leg[r].fresh
    /\ Kind[r] = "badcomp"
    /\ Leave(r, "fault")
    /\ UNCHANGED <<sessionVars, lock, handlerVars, task, mishaps>>

ApproveReads(r) ==
    /\ On(r, "approve") /\ leg[r].fresh
    /\ TRUE \in Decisions(Kind[r]) /\ Kind[r] # "badcomp"
    /\ leg' = [leg EXCEPT ![r] = [At("work") EXCEPT !.copy = fsm]]
    /\ UNCHANGED <<sessionVars, lock, handlerVars, task, mishaps>>

ApproveWrites(r) ==
    /\ leg[r].at = "work" /\ graph.next = "approve"
    /\ WriteSession(r, leg[r].copy, Routed("generate"))

-----------------------------------------------------------------------------
\* Mutant: a loop failure is routed through the fail node.
AfterLoopToFail(result) == To(IF result = "result" THEN "done" ELSE "fail")

\* A frame was kept: result, then the done node.  Otherwise the graph ends.
AfterLoop(result) == To(IF result = "result" THEN "done" ELSE "end")
LoopResult == IF kept THEN "result" ELSE "failed"

\* The loop has an outcome on record and does nothing.
GenerateReplays(r) ==
    /\ On(r, "generate") /\ outcome # "none"
    /\ Advance(r, AfterLoop(outcome))

\* Mutant: the loop starts although its outcome is on record.
LoopStartsAgain(r) ==
    /\ On(r, "generate")
    /\ fsm' = "generating"
    /\ leg' = [leg EXCEPT ![r] = At("loop")]
    /\ UNCHANGED <<kept, outcome, graph, stream, lock, handlerVars, task, mishaps>>

LoopStarts(r) ==
    /\ On(r, "generate") /\ outcome = "none"
    /\ fsm' = "generating"
    /\ leg' = [leg EXCEPT ![r] = At("loop")]
    /\ UNCHANGED <<kept, outcome, graph, stream, lock, handlerVars, task, mishaps>>

\* Every checkpoint of the loop writes the whole record of its own copy.
LoopCheckpoints(r) ==
    /\ leg[r].at = "loop"
    /\ fsm' = "generating"
    /\ kept' \in {kept, TRUE}
    /\ UNCHANGED <<outcome, graph, stream, lock, handlerVars, leg, task, mishaps>>

\* _finish, after the chain or because the reference photo is gone.
LoopFinishes(r) ==
    /\ leg[r].at = "loop" \/ (On(r, "generate") /\ outcome = "none")
    /\ fsm' = IF kept THEN "done" ELSE "failed"
    /\ leg' = [leg EXCEPT ![r] = At("announce")]
    /\ UNCHANGED <<kept, outcome, graph, stream, lock, handlerVars, task, mishaps>>

LoopAnnounces(r) ==
    /\ leg[r].at = "announce"
    /\ Publish(LoopResult)
    /\ leg' = [leg EXCEPT ![r] = At("store")]
    /\ UNCHANGED <<fsm, kept, outcome, graph, lock, handlerVars, task, mishaps>>

LoopStores(r) ==
    /\ leg[r].at = "store"
    /\ outcome' = LoopResult
    /\ leg' = [leg EXCEPT ![r] = [At("commit") EXCEPT
                                   !.pending = AfterLoop(LoopResult)]]
    /\ UNCHANGED <<fsm, kept, graph, stream, lock, handlerVars, task, mishaps>>

Done(r) ==
    /\ On(r, "done")
    /\ Publish("done")
    /\ leg' = [leg EXCEPT ![r] = [At("commit") EXCEPT !.pending = To("end")]]
    /\ UNCHANGED <<fsm, kept, outcome, graph, lock, handlerVars, task, mishaps>>

\* Mutant: the failure is announced but not recorded.
FailUnrecorded(r) ==
    /\ On(r, "fail")
    /\ leg' = [leg EXCEPT ![r] = At("tell")]
    /\ UNCHANGED <<sessionVars, lock, handlerVars, task, mishaps>>

Fail(r) ==
    /\ On(r, "fail")
    /\ fsm' = "failed"
    /\ leg' = [leg EXCEPT ![r] = At("tell")]
    /\ UNCHANGED <<kept, outcome, graph, stream, lock, handlerVars, task, mishaps>>

FailPublishes(r) ==
    /\ leg[r].at = "tell"
    /\ Publish("failed")
    /\ leg' = [leg EXCEPT ![r] = [At("commit") EXCEPT !.pending = To("end")]]
    /\ UNCHANGED <<fsm, kept, outcome, graph, lock, handlerVars, task, mishaps>>

Node(r) ==
    \/ Begin(r) \/ Commit(r) \/ Ended(r)
    \/ Analyze(r) \/ QualityGate(r) \/ ReadSession(r) \/ ParseBrief(r)
    \/ ExtractInventory(r) \/ AskWithoutPreset(r) \/ AskNobody(r)
    \/ AskPauses(r) \/ AskAnswered(r) \/ ResolveAccepts(r) \/ ResolveRejects(r)
    \/ PlanSteps(r) \/ ApprovePauses(r) \/ ApproveRejects(r) \/ ApproveRaises(r)
    \/ ApproveReads(r) \/ ApproveWrites(r) \/ GenerateReplays(r) \/ LoopStarts(r)
    \/ LoopCheckpoints(r) \/ LoopFinishes(r) \/ LoopAnnounces(r) \/ LoopStores(r)
    \/ Done(r) \/ Fail(r) \/ FailPublishes(r)

-----------------------------------------------------------------------------
\* What the task still does after the lock is released, by how it left.
AfterRelease(exit) ==
    CASE exit \in {"paused", "fault"} -> "narrate"
      [] exit = "timeout" -> "expire"
      [] OTHER -> "gone"

\* The task ends or goes on; an ended task is reaped from _tasks.
Proceed(r, place) ==
    /\ leg' = [leg EXCEPT ![r] = IF place = "gone" THEN At(place)
                                 ELSE [@ EXCEPT !.at = place]]
    /\ task' = IF place = "gone" /\ task[Home[r]] = r
               THEN [task EXCEPT ![Home[r]] = None] ELSE task

\* _release deletes the lock if it still holds this run's token.
Release(r) ==
    /\ leg[r].at = "exit"
    /\ lock' = IF lock = r THEN None ELSE lock
    /\ Proceed(r, AfterRelease(leg[r].exit))
    /\ UNCHANGED <<sessionVars, handlerVars, mishaps>>

\* need_input for a pause, failed(INTERNAL) for an exception.
Narrate(r) ==
    /\ leg[r].at = "narrate"
    /\ Publish(IF leg[r].exit = "paused" THEN "need_input" ELSE "failed")
    /\ Proceed(r, "gone")
    /\ UNCHANGED <<fsm, kept, outcome, graph, lock, handlerVars, mishaps>>

\* _fail_session after the wall clock; without a record there is nothing to mark,
\* and only the event is published.
FailSession(r) ==
    /\ leg[r].at = "expire"
    /\ fsm' = IF fsm = "none" THEN fsm ELSE "failed"
    /\ Proceed(r, "obituary")
    /\ UNCHANGED <<kept, outcome, graph, stream, lock, handlerVars, mishaps>>

FailSessionPublishes(r) ==
    /\ leg[r].at = "obituary"
    /\ Publish("failed")
    /\ Proceed(r, "gone")
    /\ UNCHANGED <<fsm, kept, outcome, graph, lock, handlerVars, mishaps>>

Wrapup(r) == \/ Release(r) \/ Narrate(r) \/ FailSession(r)
             \/ FailSessionPublishes(r)

-----------------------------------------------------------------------------
Suffer(mishap) ==
    /\ mishaps[mishap] < MaxMishaps[mishap]
    /\ mishaps' = [mishaps EXCEPT ![mishap] = @ + 1]

\* asyncio.timeout strikes at an await of the graph.
WallClock(r) ==
    /\ Suffer("timeout")
    /\ leg[r].at \in InGraph
    /\ Leave(r, "timeout")
    /\ UNCHANGED <<sessionVars, lock, handlerVars, task>>

\* An exception escapes a node (store, bus or storage failure).
Fault(r) ==
    /\ Suffer("fault")
    /\ leg[r].at \in InGraph
    /\ Leave(r, "fault")
    /\ UNCHANGED <<sessionVars, lock, handlerVars, task>>

\* The store fails in _release, which swallows it.
ReleaseFails(r) ==
    /\ Suffer("fault")
    /\ leg[r].at = "exit"
    /\ Proceed(r, AfterRelease(leg[r].exit))
    /\ UNCHANGED <<sessionVars, lock, handlerVars>>

\* aclose cancels the tasks of a process that shuts down.
Shutdown(p) ==
    /\ Suffer("shutdown")
    /\ task[p] # None
    /\ Interrupt(task[p])
    /\ UNCHANGED <<sessionVars, handlerVars>>

\* SIGKILL: handlers and tasks of the process vanish, what is in Redis stays.
Crash(p) ==
    /\ Suffer("crash")
    /\ req' = [r \in Requests |-> IF Home[r] = p /\ req[r] \in InHandler
                                  THEN "lost" ELSE req[r]]
    /\ leg' = [r \in Requests |-> IF Home[r] = p /\ Active(r)
                                  THEN At("dead") ELSE leg[r]]
    /\ task' = [task EXCEPT ![p] = None]
    /\ UNCHANGED <<sessionVars, lock, idem, waits>>

\* Mutant: the lock has no TTL.
LockWithoutTtl == lock # None /\ UNCHANGED vars

\* The lock's TTL is longer than the wall clock by a grace period, so it never
\* runs out under a leg that is still driving.
LockExpires ==
    /\ lock # None
    /\ leg[lock].at \notin Driving
    /\ lock' = None
    /\ UNCHANGED <<sessionVars, handlerVars, leg, task, mishaps>>

Next ==
    \/ \E r \in Requests : \/ Lookup(r) \/ Handle(r) \/ Node(r) \/ Wrapup(r)
                           \/ WallClock(r) \/ Fault(r) \/ ReleaseFails(r)
    \/ \E p \in Procs : Shutdown(p) \/ Crash(p)
    \/ LockExpires

Spec == Init /\ [][Next]_vars

\* Handlers and tasks that are alive keep running (asyncio schedules them, every
\* await has a timeout), and Redis expires keys.  Nobody has to send a request.
FairSpec ==
    /\ Spec
    /\ \A r \in Requests : WF_vars(Handle(r)) /\ WF_vars(Node(r) \/ Wrapup(r))
    /\ WF_vars(LockExpires)

-----------------------------------------------------------------------------
TypeOK ==
    /\ fsm \in Fsm!States
    /\ kept \in BOOLEAN
    /\ outcome \in {"none", "result", "failed"}
    /\ graph \in Graph
    /\ stream \in Seq({"need_input", "result", "done", "failed"})
    /\ lock \in Requests \cup {None}
    /\ idem \subseteq {Key[r] : r \in Requests}
    /\ req \in [Requests -> InHandler \cup {"unsent", "replayed", "rejected",
                                            "accepted", "lost"}]
    /\ waits \in [Requests -> Requests \cup {None}]
    /\ leg \in [Requests -> Leg]
    /\ task \in [Procs -> Requests \cup {None}]
    /\ mishaps \in [Mishaps -> Nat]

\* Whoever drives the graph holds the run lock, from the spawn to the release:
\* never two legs in the graph of one session, on one process or on several.
DriverHoldsLock ==
    \A r \in Requests : leg[r].at \in Driving => lock = r

Count(event) == Cardinality({i \in 1..Len(stream) : stream[i] = event})

\* Once the loop's outcome is on record it stands, and no later leg delivers a
\* result again, whatever was resumed, retried or killed.
OutcomeIsFinal ==
    [][outcome # "none" => /\ outcome' = outcome
                           /\ \A i \in Len(stream) + 1 .. Len(stream') :
                                 stream'[i] # "result"]_vars

\* A task was cut short: by a mishap, or by a cancel that reached it.
BrokenOff == \/ \E m \in Mishaps : mishaps[m] > 0
             \/ \E r \in Requests : waits[r] # None

\* Whenever a session waits for the user and no run is under way, the graph is
\* parked at the gate the user is asked about, however requests interleave.  Once a
\* run was cut short it may also be parked right behind that gate, the answer
\* taken, right before the approval, or on its way to fail.
GateMatchesState ==
    lock = None =>
        /\ fsm = "need_input" =>
              \/ graph.next = "ask"
              \/ BrokenOff /\ graph.next \in {"resolve_constraints", "fail"}
        /\ fsm = "awaiting_approval" =>
              \/ graph.next = "approve"
              \/ BrokenOff /\ graph.next \in {"plan_steps", "generate", "fail"}

\* The run lock is never held forever, even if its holder dies.
LockIsFreed == lock # None ~> lock = None

\* _route_generate: "exactly one terminal event per session" (done and failed
\* are the types that close the SSE stream).
OneTerminalEvent == Count("done") + Count("failed") <= 1

\* fsm_state moves as SessionFsm says.
FsmSpec == Fsm!Spec

\* Nothing has failed or died; the wall clock may have struck.
Unbroken == \A m \in {"fault", "crash", "shutdown"} : mishaps[m] = 0

\* When nothing is under way the stream ends with the event a client needs to
\* know what the stored state expects of it, after a wall clock too.  One that
\* strikes before the first record leaves a closed stream and no session.
StreamTellsState ==
    Unbroken /\ Settled =>
        LET last == IF stream = <<>> THEN "none" ELSE stream[Len(stream)] IN
        CASE fsm = "none" -> \/ last = "none"
                             \/ last = "failed" /\ mishaps["timeout"] > 0
          [] fsm \in {"need_input", "awaiting_approval"} -> last = "need_input"
          [] fsm = "done" -> last = "done" /\ Count("result") = 1
          [] fsm = "failed" -> last = "failed"
          [] OTHER -> FALSE

\* A session at work comes to wait for its user or ends, at the latest by the
\* wall clock; only a fault or the death of its process strands it.
WorkingSettles ==
    (Unbroken /\ fsm \in {"face_check", "planning", "generating"})
        ~> (~Unbroken \/ fsm \in {"need_input", "awaiting_approval"} \cup Fsm!Terminal)

\* tests/test_api_e2e.py: "Cancelled is terminal: the parked interrupt can never
\* be resumed".
CancelledIsFinal == [][fsm = "cancelled" => fsm' = "cancelled"]_vars
=============================================================================
