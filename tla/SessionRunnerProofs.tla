------------------------ MODULE SessionRunnerProofs -------------------------
(***************************************************************************)
(* Proofs about SessionRunner, for any set of requests and processes and   *)
(* any number of mishaps: the state is well typed, the leg that drives the *)
(* graph holds the run lock, and the outcome of the paid loop is final.    *)
(* If no two starts race, a waiting session is parked at its gate, or next *)
(* to it once a run was cut short.                                         *)
(* If moreover nobody cancels and nothing fails, the session moves as      *)
(* SessionFsm says and, when every picked composition exists, is closed by *)
(* one event at most, however answers and decisions interleave.  For a     *)
(* client that answers in turn the stream tells the state, the wall clock  *)
(* included.                                                               *)
(***************************************************************************)
EXTENDS SessionRunner, FiniteSetTheorems, TLAPS

\* Building blocks of the types.
LEMMA LegTypes ==
    /\ NewThread \in Graph
    /\ NoLeg \in Leg
    /\ \A place \in Places : At(place) \in Leg
    /\ \A place \in Places, exit \in Exits :
          [At(place) EXCEPT !.exit = exit] \in Leg
    /\ \A place \in Places, state \in Fsm!States :
          [At(place) EXCEPT !.copy = state] \in Leg
    /\ \A place \in Places, checkpoint \in Graph :
          [At(place) EXCEPT !.pending = checkpoint] \in Leg
  <1>1. NewThread \in Graph
    BY DEF NewThread, Graph, Nodes, Questions
  <1>2. NoLeg \in Leg
    BY <1>1 DEF NoLeg, Leg, Places, Exits, Fsm!States
  <1>3. ASSUME NEW place \in Places PROVE At(place) \in Leg
    BY <1>2, <1>3 DEF At, Leg
  <1> QED
    BY <1>1, <1>2, <1>3 DEF Leg

\* What a node may leave in the graph checkpoint is a checkpoint.
LEMMA CheckpointTypes ==
    ASSUME graph \in Graph
    PROVE  /\ \A node \in Nodes : To(node) \in Graph /\ Routed(node) \in Graph
           /\ Failure \in Graph
           /\ \A result : AfterLoop(result) \in Graph
  <1>1. \A node \in Nodes : To(node) \in Graph
    BY DEF To, Graph
  <1>2. "fail" \in Nodes /\ "done" \in Nodes /\ "end" \in Nodes
    BY DEF Nodes
  <1> QED
    BY <1>1, <1>2 DEF Routed, Failure, AfterLoop, Graph

\* The effect shared by nodes that checkpoint without writing the session.
LEMMA AdvanceType ==
    ASSUME TypeOK, NEW r \in Requests, NEW checkpoint \in Graph,
           Advance(r, checkpoint)
    PROVE  TypeOK'
  <1>1. At("run") \in Leg
    BY LegTypes DEF Places, Driving, InGraph
  <1>2. leg' \in [Requests -> Leg]
    BY <1>1 DEF Advance, TypeOK
  <1> QED
    BY <1>2 DEF Advance, TypeOK, handlerVars

\* The effect shared by nodes that write the session.
LEMMA WriteSessionType ==
    ASSUME TypeOK, NEW r \in Requests, NEW state \in Fsm!States,
           NEW checkpoint \in Graph, WriteSession(r, state, checkpoint)
    PROVE  TypeOK'
  <1>1. [At("commit") EXCEPT !.pending = checkpoint] \in Leg
    BY LegTypes DEF Places, Driving, InGraph
  <1>2. leg' \in [Requests -> Leg]
    BY <1>1 DEF WriteSession, TypeOK
  <1> QED
    BY <1>2 DEF WriteSession, TypeOK, handlerVars

\* Any change of one leg to a well-typed leg.
LEMMA LegUpdateType ==
    ASSUME leg \in [Requests -> Leg], NEW r \in Requests, NEW l \in Leg,
           leg' = [leg EXCEPT ![r] = l]
    PROVE  leg' \in [Requests -> Leg]
  OBVIOUS

\* task.cancel() keeps the types.
LEMMA InterruptType ==
    ASSUME TypeOK, RunnerAssumption, NEW t \in Requests, Interrupt(t)
    PROVE  /\ leg' \in [Requests -> Leg]
           /\ lock' \in Requests \cup {None}
           /\ task' \in [Procs -> Requests \cup {None}]
  <1>1. [At("exit") EXCEPT !.exit = "cancelled"] \in Leg /\ At("dead") \in Leg
    BY LegTypes DEF Places, Driving, Over, Exits
  <1>2. leg' \in [Requests -> Leg]
    BY <1>1 DEF Interrupt, TypeOK
  <1>3. lock' \in Requests \cup {None}
    BY DEF Interrupt, TypeOK
  <1>4. task' \in [Procs -> Requests \cup {None}]
    BY DEF Interrupt, TypeOK, RunnerAssumption
  <1> QED
    BY <1>2, <1>3, <1>4

\* A leg that ends or goes on keeps the types.
LEMMA ProceedType ==
    ASSUME TypeOK, RunnerAssumption, NEW r \in Requests, NEW place \in Places,
           Proceed(r, place)
    PROVE  /\ leg' \in [Requests -> Leg]
           /\ task' \in [Procs -> Requests \cup {None}]
  <1>1. At(place) \in Leg
    BY LegTypes
  <1>2. [leg[r] EXCEPT !.at = place] \in Leg
    BY DEF TypeOK, Leg
  <1>3. leg' \in [Requests -> Leg]
    BY <1>1, <1>2 DEF Proceed, TypeOK
  <1>4. task' \in [Procs -> Requests \cup {None}]
    BY DEF Proceed, TypeOK, RunnerAssumption
  <1> QED
    BY <1>3, <1>4

\* An event the leg publishes extends the stream.
LEMMA PublishType ==
    ASSUME TypeOK, NEW event \in {"need_input", "result", "done", "failed"},
           Publish(event)
    PROVE  stream' \in Seq({"need_input", "result", "done", "failed"})
  BY DEF Publish, TypeOK

-----------------------------------------------------------------------------
\* Every step of a request handler keeps the types.
LEMMA HandlerType ==
    ASSUME TypeOK, RunnerAssumption, NEW r \in Requests, Lookup(r) \/ Handle(r)
    PROVE  TypeOK'
  <1> USE DEF sessionVars
  <1>1. CASE Lookup(r)
    BY <1>1 DEF Lookup, TypeOK, InHandler
  <1>2. CASE Check(r)
    BY <1>2 DEF Check, TypeOK, InHandler
  <1>3. CASE Bounce(r)
    BY <1>3 DEF Bounce, TypeOK, InHandler
  <1>4. CASE Spawn(r)
    <2>1. [leg[r] EXCEPT !.at = "spawned"] \in Leg
      BY DEF TypeOK, Leg, Places, Driving
    <2>2. leg' \in [Requests -> Leg]
      BY <1>4, <2>1 DEF Spawn, TypeOK
    <2> QED
      BY <1>4, <2>2 DEF Spawn, TypeOK, InHandler, RunnerAssumption
  <1>5. CASE Accept(r)
    BY <1>5 DEF Accept, TypeOK, InHandler
  <1>6. CASE CancelTask(r)
    <2>1. task[Home[r]] \in Requests \cup {None}
      BY DEF TypeOK, RunnerAssumption
    <2>2. /\ leg' \in [Requests -> Leg]
          /\ lock' \in Requests \cup {None}
          /\ task' \in [Procs -> Requests \cup {None}]
      BY <1>6, <2>1, InterruptType DEF CancelTask, TypeOK
    <2> QED
      BY <1>6, <2>1, <2>2 DEF CancelTask, TypeOK, InHandler
  <1>7. CASE CancelSession(r)
    BY <1>7 DEF CancelSession, TypeOK, InHandler, Fsm!States
  <1>8. CASE CancelPublish(r)
    BY <1>8, PublishType DEF CancelPublish, TypeOK, InHandler
  <1> QED
    BY <1>1, <1>2, <1>3, <1>4, <1>5, <1>6, <1>7, <1>8 DEF Handle

\* Every node of the graph keeps the types.
LEMMA NodeType ==
    ASSUME TypeOK, RunnerAssumption, NEW r \in Requests, Node(r)
    PROVE  TypeOK'
  <1> USE DEF sessionVars, handlerVars
  <1>a. graph \in Graph /\ leg[r] \in Leg
    BY DEF TypeOK
  <1>b. /\ Failure \in Graph
        /\ \A result : AfterLoop(result) \in Graph
        /\ \A node \in Nodes : To(node) \in Graph /\ Routed(node) \in Graph
    BY <1>a, CheckpointTypes
  <1>c. /\ At("loop") \in Leg /\ At("announce") \in Leg /\ At("store") \in Leg
        /\ At("tell") \in Leg
        /\ \A exit \in Exits : [At("exit") EXCEPT !.exit = exit] \in Leg
        /\ \A state \in Fsm!States : [At("work") EXCEPT !.copy = state] \in Leg
        /\ \A checkpoint \in Graph :
              [At("commit") EXCEPT !.pending = checkpoint] \in Leg
    BY LegTypes DEF Places, Driving, InGraph
  <1>1. CASE Begin(r)
    <2>1. [leg[r] EXCEPT !.at = "run", !.fresh = Kind[r] # "start"] \in Leg
      BY <1>a DEF Leg, Places, Driving, InGraph
    <2>2. leg' \in [Requests -> Leg]
      BY <1>1, <2>1 DEF Begin, TypeOK
    <2> QED
      BY <1>1, <1>b, <2>2 DEF Begin, TypeOK, Nodes
  <1>2. CASE Commit(r)
    BY <1>2, <1>a, AdvanceType DEF Commit, Leg
  <1>3. CASE Ended(r)
    BY <1>3, <1>c DEF Ended, Leave, TypeOK, Exits
  <1>4. CASE Analyze(r)
    BY <1>4, <1>b, WriteSessionType DEF Analyze, Nodes, Fsm!States
  <1>5. CASE QualityGate(r)
    BY <1>5, <1>b, AdvanceType DEF QualityGate, Nodes
  <1>6. CASE ReadSession(r)
    BY <1>6, <1>c DEF ReadSession, TypeOK
  <1>7. CASE ParseBrief(r)
    <2>1. PICK question \in Questions :
            WriteSession(r, leg[r].copy,
                         [To("extract_inventory") EXCEPT !.question = question])
      BY <1>7 DEF ParseBrief
    <2>2. [To("extract_inventory") EXCEPT !.question = question] \in Graph
      BY <1>b DEF Graph, Nodes
    <2>3. leg[r].copy \in Fsm!States
      BY <1>a DEF Leg
    <2> QED
      BY <2>1, <2>2, <2>3, WriteSessionType
  <1>8. CASE ExtractInventory(r)
    <2>1. To("ask") \in Graph /\ leg[r].copy \in Fsm!States
      BY <1>a, <1>b DEF Leg, Nodes
    <2> QED
      BY <1>8, <2>1, WriteSessionType, AdvanceType DEF ExtractInventory
  <1>9. CASE AskWithoutPreset(r)
    BY <1>9, <1>b, AdvanceType DEF AskWithoutPreset
  <1>10. CASE AskNobody(r)
    BY <1>10, <1>b, AdvanceType DEF AskNobody, Nodes
  <1>11. CASE AskPauses(r)
    BY <1>11, <1>c DEF AskPauses, Leave, TypeOK, Exits, Fsm!States
  <1>12. CASE AskAnswered(r)
    BY <1>12, <1>b, WriteSessionType DEF AskAnswered, Nodes, Fsm!States
  <1>13. CASE ResolveAccepts(r)
    <2>1. [Routed("plan_steps") EXCEPT !.reask = FALSE] \in Graph
      BY <1>b DEF Graph, Nodes
    <2> QED
      BY <1>13, <2>1, WriteSessionType DEF ResolveAccepts, Fsm!States
  <1>14. CASE ResolveRejects(r)
    <2>1. ASSUME NEW g \in Graph
          PROVE  [g EXCEPT !.reasks = @ + 1, !.reask = TRUE] \in Graph
      <3>1. g.reasks + 1 \in Nat
        BY DEF Graph
      <3>2. [g EXCEPT !.reasks = g.reasks + 1] \in Graph
        BY <3>1 DEF Graph
      <3>3. [[g EXCEPT !.reasks = g.reasks + 1] EXCEPT !.reask = TRUE] \in Graph
        BY <3>2 DEF Graph
      <3> QED
        BY <3>3
    <2>2. [Routed("ask") EXCEPT !.reasks = @ + 1, !.reask = TRUE] \in Graph
      BY <1>b, <2>1 DEF Nodes
    <2> QED
      BY <1>14, <1>b, <2>2, AdvanceType DEF ResolveRejects
  <1>15. CASE PlanSteps(r)
    BY <1>15, <1>b, WriteSessionType DEF PlanSteps, Nodes, Fsm!States
  <1>16. CASE ApprovePauses(r)
    BY <1>16, <1>c DEF ApprovePauses, Leave, TypeOK, Exits
  <1>17. CASE ApproveRejects(r)
    BY <1>17, <1>b, AdvanceType DEF ApproveRejects
  <1>18. CASE ApproveRaises(r)
    BY <1>18, <1>c DEF ApproveRaises, Leave, TypeOK, Exits
  <1>19. CASE ApproveReads(r)
    BY <1>19, <1>c DEF ApproveReads, TypeOK
  <1>20. CASE ApproveWrites(r)
    <2>1. Routed("generate") \in Graph /\ leg[r].copy \in Fsm!States
      BY <1>a, <1>b DEF Leg, Nodes
    <2> QED
      BY <1>20, <2>1, WriteSessionType DEF ApproveWrites
  <1>21. CASE GenerateReplays(r)
    BY <1>21, <1>b, AdvanceType DEF GenerateReplays
  <1>22. CASE LoopStarts(r)
    BY <1>22, <1>c DEF LoopStarts, TypeOK, Fsm!States
  <1>23. CASE LoopCheckpoints(r)
    BY <1>23 DEF LoopCheckpoints, TypeOK, Fsm!States
  <1>24. CASE LoopFinishes(r)
    BY <1>24, <1>c DEF LoopFinishes, TypeOK, Fsm!States
  <1>25. CASE LoopAnnounces(r)
    BY <1>25, <1>c, PublishType DEF LoopAnnounces, LoopResult, TypeOK
  <1>26. CASE LoopStores(r)
    BY <1>26, <1>b, <1>c DEF LoopStores, LoopResult, TypeOK
  <1>27. CASE Done(r)
    BY <1>27, <1>b, <1>c, PublishType DEF Done, Nodes, TypeOK
  <1>28. CASE Fail(r)
    BY <1>28, <1>c DEF Fail, TypeOK, Fsm!States
  <1>29. CASE FailPublishes(r)
    BY <1>29, <1>b, <1>c, PublishType DEF FailPublishes, Nodes, TypeOK
  <1> QED
    BY <1>1, <1>2, <1>3, <1>4, <1>5, <1>6, <1>7, <1>8, <1>9, <1>10,
       <1>11, <1>12, <1>13, <1>14, <1>15, <1>16, <1>17, <1>18, <1>19,
       <1>20, <1>21, <1>22, <1>23, <1>24, <1>25, <1>26, <1>27, <1>28,
       <1>29
    DEF Node

\* What a leg does after the graph, and every mishap, keeps the types.
LEMMA RestType ==
    ASSUME TypeOK, RunnerAssumption,
           \/ \E r \in Requests : \/ Wrapup(r) \/ WallClock(r) \/ Fault(r)
                                  \/ ReleaseFails(r)
           \/ \E p \in Procs : Shutdown(p) \/ Crash(p)
           \/ LockExpires
    PROVE  TypeOK'
  <1> USE DEF sessionVars, handlerVars
  <1>a. \A exit \in Exits : [At("exit") EXCEPT !.exit = exit] \in Leg
    BY LegTypes DEF Places, Driving
  <1>b. \A exit \in Exits : AfterRelease(exit) \in Places
    BY DEF AfterRelease, Places, Over, Exits
  <1>c. {"gone", "obituary"} \subseteq Places
    BY DEF Places, Over
  <1>d. \A m \in Mishaps : Suffer(m) => mishaps' \in [Mishaps -> Nat]
    BY DEF Suffer, TypeOK
  <1>e. {"timeout", "fault", "crash", "shutdown"} \subseteq Mishaps
    BY DEF Mishaps
  <1>f. \A r \in Requests : leg[r].exit \in Exits
    BY DEF TypeOK, Leg
  <1>1. CASE \E r \in Requests : Release(r)
    <2>1. PICK r \in Requests : Release(r)
      BY <1>1
    <2>2. /\ leg' \in [Requests -> Leg]
          /\ task' \in [Procs -> Requests \cup {None}]
      BY <2>1, <1>b, <1>f, ProceedType DEF Release
    <2> QED
      BY <2>1, <2>2 DEF Release, TypeOK
  <1>2. CASE \E r \in Requests : Narrate(r)
    <2>1. PICK r \in Requests : Narrate(r)
      BY <1>2
    <2>2. /\ leg' \in [Requests -> Leg]
          /\ task' \in [Procs -> Requests \cup {None}]
      BY <2>1, <1>c, ProceedType DEF Narrate
    <2> QED
      BY <2>1, <2>2, PublishType DEF Narrate, TypeOK
  <1>3. CASE \E r \in Requests : FailSession(r)
    <2>1. PICK r \in Requests : FailSession(r)
      BY <1>3
    <2>2. /\ leg' \in [Requests -> Leg]
          /\ task' \in [Procs -> Requests \cup {None}]
      BY <2>1, <1>c, ProceedType DEF FailSession
    <2> QED
      BY <2>1, <2>2 DEF FailSession, TypeOK, Fsm!States
  <1>4. CASE \E r \in Requests : FailSessionPublishes(r)
    <2>1. PICK r \in Requests : FailSessionPublishes(r)
      BY <1>4
    <2>2. /\ leg' \in [Requests -> Leg]
          /\ task' \in [Procs -> Requests \cup {None}]
      BY <2>1, <1>c, ProceedType DEF FailSessionPublishes
    <2> QED
      BY <2>1, <2>2, PublishType DEF FailSessionPublishes, TypeOK
  <1>5. CASE \E r \in Requests : WallClock(r)
    BY <1>5, <1>a, <1>d, <1>e DEF WallClock, Leave, TypeOK, Exits
  <1>6. CASE \E r \in Requests : Fault(r)
    BY <1>6, <1>a, <1>d, <1>e DEF Fault, Leave, TypeOK, Exits
  <1>7. CASE \E r \in Requests : ReleaseFails(r)
    <2>1. PICK r \in Requests : ReleaseFails(r)
      BY <1>7
    <2>2. /\ leg' \in [Requests -> Leg]
          /\ task' \in [Procs -> Requests \cup {None}]
      BY <2>1, <1>b, <1>f, ProceedType DEF ReleaseFails
    <2> QED
      BY <2>1, <2>2, <1>d, <1>e DEF ReleaseFails, TypeOK
  <1>8. CASE \E p \in Procs : Shutdown(p)
    <2>1. PICK p \in Procs : Shutdown(p)
      BY <1>8
    <2>2. task[p] \in Requests
      BY <2>1 DEF Shutdown, TypeOK
    <2>3. /\ leg' \in [Requests -> Leg]
          /\ lock' \in Requests \cup {None}
          /\ task' \in [Procs -> Requests \cup {None}]
      BY <2>1, <2>2, InterruptType DEF Shutdown
    <2> QED
      BY <2>1, <2>3, <1>d, <1>e DEF Shutdown, TypeOK
  <1>9. CASE \E p \in Procs : Crash(p)
    <2>1. PICK p \in Procs : Crash(p)
      BY <1>9
    <2>2. At("dead") \in Leg
      BY LegTypes DEF Places, Over
    <2>3. leg' \in [Requests -> Leg]
      BY <2>1, <2>2 DEF Crash, TypeOK
    <2> QED
      BY <2>1, <2>3, <1>d, <1>e DEF Crash, TypeOK, InHandler
  <1>10. CASE LockExpires
    BY <1>10 DEF LockExpires, TypeOK
  <1> QED
    BY <1>1, <1>2, <1>3, <1>4, <1>5, <1>6, <1>7, <1>8, <1>9, <1>10 DEF Wrapup

\* The variables of api/routes.py, SessionRunner._run and the graph always hold
\* values of their types, whatever requests arrive and whatever goes wrong.
THEOREM TypeCorrect == Spec => []TypeOK
  <1>1. Init => TypeOK
    <2>1. NewThread \in Graph /\ NoLeg \in Leg
      BY LegTypes
    <2>2. <<>> \in Seq({"need_input", "result", "done", "failed"})
      OBVIOUS
    <2> SUFFICES ASSUME Init PROVE TypeOK
      OBVIOUS
    <2>3. fsm \in Fsm!States /\ kept \in BOOLEAN
      BY DEF Init, Fsm!States
    <2>4. /\ req \in [Requests -> InHandler \cup {"unsent", "replayed", "rejected",
                                                 "accepted", "lost"}]
          /\ idem \subseteq {Key[r] : r \in Requests}
      BY DEF Init
    <2>5. /\ lock \in Requests \cup {None}
          /\ waits \in [Requests -> Requests \cup {None}]
          /\ task \in [Procs -> Requests \cup {None}]
          /\ mishaps \in [Mishaps -> Nat]
      BY DEF Init
    <2>6. leg \in [Requests -> Leg] /\ graph \in Graph
      BY <2>1 DEF Init
    <2> QED
      BY <2>2, <2>3, <2>4, <2>5, <2>6 DEF Init, TypeOK
  <1>2. TypeOK /\ [Next]_vars => TypeOK'
    <2> SUFFICES ASSUME TypeOK, [Next]_vars PROVE TypeOK'
      OBVIOUS
    <2>1. CASE \E r \in Requests : Lookup(r) \/ Handle(r)
      BY <2>1, HandlerType, RunnerAssumption
    <2>2. CASE \E r \in Requests : Node(r)
      BY <2>2, NodeType, RunnerAssumption
    <2>3. CASE \/ \E r \in Requests : \/ Wrapup(r) \/ WallClock(r) \/ Fault(r)
                                      \/ ReleaseFails(r)
               \/ \E p \in Procs : Shutdown(p) \/ Crash(p)
               \/ LockExpires
      BY <2>3, RestType, RunnerAssumption
    <2>4. CASE UNCHANGED vars
      BY <2>4 DEF vars, sessionVars, handlerVars, TypeOK
    <2> QED
      BY <2>1, <2>2, <2>3, <2>4 DEF Next
  <1> QED
    BY <1>1, <1>2, PTL DEF Spec

-----------------------------------------------------------------------------
\* The places in which the leg runs the paid loop.
InLoop == {"loop", "announce", "store"}

\* While a leg is in the loop the session has no outcome on record yet.
LoopIsOpen == \A r \in Requests : leg[r].at \in InLoop => outcome = "none"

\* What a step of the graph, run by the leg of r, may do to the others.
NodeEffect(r) ==
    /\ leg[r].at \in InGraph \cup {"spawned"}
    /\ leg'[r].at \in InGraph \cup {"exit"}
    /\ lock' = lock /\ req' = req /\ task' = task
    /\ \A q \in Requests \ {r} : leg'[q] = leg[q]
    /\ leg'[r].at \in InLoop => /\ outcome' = outcome
                                /\ leg[r].at \in InLoop \/ outcome = "none"
    /\ outcome' = outcome \/ leg[r].at = "store"
    /\ \/ stream' = stream
       \/ stream' = Append(stream, "done")
       \/ stream' = Append(stream, "failed")
       \/ leg[r].at = "announce"

\* Where a leg is after it was put somewhere.
LEMMA PlaceOf ==
    ASSUME NEW place
    PROVE  /\ At(place).at = place
           /\ \A exit : [At(place) EXCEPT !.exit = exit].at = place
           /\ \A state : [At(place) EXCEPT !.copy = state].at = place
           /\ \A checkpoint : [At(place) EXCEPT !.pending = checkpoint].at = place
  BY DEF At, NoLeg

\* Checkpointing after a node is such a step ...
LEMMA AdvanceEffect ==
    ASSUME TypeOK, NEW r \in Requests, NEW checkpoint, Advance(r, checkpoint),
           leg[r].at \in InGraph
    PROVE  NodeEffect(r)
  <1>1. leg'[r].at = "run" /\ \A q \in Requests \ {r} : leg'[q] = leg[q]
    BY PlaceOf DEF Advance, TypeOK
  <1> QED
    BY <1>1 DEF Advance, NodeEffect, InLoop, InGraph, handlerVars

\* ... and so is writing the session.
LEMMA WriteEffect ==
    ASSUME TypeOK, NEW r \in Requests, NEW state, NEW checkpoint,
           WriteSession(r, state, checkpoint), leg[r].at \in InGraph
    PROVE  NodeEffect(r)
  <1>1. leg'[r].at = "commit" /\ \A q \in Requests \ {r} : leg'[q] = leg[q]
    BY PlaceOf DEF WriteSession, TypeOK
  <1> QED
    BY <1>1 DEF WriteSession, NodeEffect, InLoop, InGraph, handlerVars

\* Every step of the graph is.
LEMMA NodeHasEffect ==
    ASSUME TypeOK, NEW r \in Requests, Node(r)
    PROVE  NodeEffect(r)
  <1> USE DEF sessionVars, handlerVars, On, InGraph
  <1>1. CASE Begin(r)
    <2>1. leg'[r].at = "run" /\ \A q \in Requests \ {r} : leg'[q] = leg[q]
      BY <1>1 DEF Begin, TypeOK, Leg
    <2> QED
      BY <1>1, <2>1 DEF Begin, NodeEffect, InLoop
  <1>2. CASE Commit(r)
    BY <1>2, AdvanceEffect DEF Commit
  <1>3. CASE QualityGate(r)
    BY <1>3, AdvanceEffect DEF QualityGate
  <1>4. CASE AskWithoutPreset(r)
    BY <1>4, AdvanceEffect DEF AskWithoutPreset
  <1>5. CASE AskNobody(r)
    BY <1>5, AdvanceEffect DEF AskNobody
  <1>6. CASE ResolveRejects(r)
    BY <1>6, AdvanceEffect DEF ResolveRejects
  <1>7. CASE ApproveRejects(r)
    BY <1>7, AdvanceEffect DEF ApproveRejects
  <1>8. CASE GenerateReplays(r)
    BY <1>8, AdvanceEffect DEF GenerateReplays
  <1>9. CASE Analyze(r)
    BY <1>9, WriteEffect DEF Analyze
  <1>10. CASE ParseBrief(r)
    BY <1>10, WriteEffect DEF ParseBrief
  <1>11. CASE AskAnswered(r)
    BY <1>11, WriteEffect DEF AskAnswered
  <1>12. CASE ResolveAccepts(r)
    BY <1>12, WriteEffect DEF ResolveAccepts
  <1>13. CASE PlanSteps(r)
    BY <1>13, WriteEffect DEF PlanSteps
  <1>14. CASE ApproveWrites(r)
    BY <1>14, WriteEffect DEF ApproveWrites
  <1>15. CASE ExtractInventory(r)
    BY <1>15, AdvanceEffect, WriteEffect DEF ExtractInventory
  <1>16. CASE Ended(r)
    <2>1. leg'[r].at = "exit" /\ \A q \in Requests \ {r} : leg'[q] = leg[q]
      BY <1>16, PlaceOf DEF Ended, TypeOK, Leave
    <2> QED
      BY <1>16, <2>1 DEF Ended, NodeEffect, InLoop, Leave
  <1>17. CASE AskPauses(r)
    <2>1. leg'[r].at = "exit" /\ \A q \in Requests \ {r} : leg'[q] = leg[q]
      BY <1>17, PlaceOf DEF AskPauses, TypeOK, Leave
    <2> QED
      BY <1>17, <2>1 DEF AskPauses, NodeEffect, InLoop, Leave
  <1>18. CASE ApprovePauses(r)
    <2>1. leg'[r].at = "exit" /\ \A q \in Requests \ {r} : leg'[q] = leg[q]
      BY <1>18, PlaceOf DEF ApprovePauses, TypeOK, Leave
    <2> QED
      BY <1>18, <2>1 DEF ApprovePauses, NodeEffect, InLoop, Leave
  <1>19. CASE ApproveRaises(r)
    <2>1. leg'[r].at = "exit" /\ \A q \in Requests \ {r} : leg'[q] = leg[q]
      BY <1>19, PlaceOf DEF ApproveRaises, TypeOK, Leave
    <2> QED
      BY <1>19, <2>1 DEF ApproveRaises, NodeEffect, InLoop, Leave
  <1>20. CASE ReadSession(r)
    <2>1. leg'[r].at = "work" /\ \A q \in Requests \ {r} : leg'[q] = leg[q]
      BY <1>20, PlaceOf DEF ReadSession, TypeOK
    <2> QED
      BY <1>20, <2>1 DEF ReadSession, NodeEffect, InLoop
  <1>21. CASE ApproveReads(r)
    <2>1. leg'[r].at = "work" /\ \A q \in Requests \ {r} : leg'[q] = leg[q]
      BY <1>21, PlaceOf DEF ApproveReads, TypeOK
    <2> QED
      BY <1>21, <2>1 DEF ApproveReads, NodeEffect, InLoop
  <1>22. CASE LoopStarts(r)
    <2>1. leg'[r].at = "loop" /\ \A q \in Requests \ {r} : leg'[q] = leg[q]
      BY <1>22, PlaceOf DEF LoopStarts, TypeOK
    <2> QED
      BY <1>22, <2>1 DEF LoopStarts, NodeEffect, InLoop
  <1>23. CASE LoopCheckpoints(r)
    BY <1>23 DEF LoopCheckpoints, NodeEffect, InLoop
  <1>24. CASE LoopFinishes(r)
    <2>1. leg'[r].at = "announce" /\ \A q \in Requests \ {r} : leg'[q] = leg[q]
      BY <1>24, PlaceOf DEF LoopFinishes, TypeOK
    <2> QED
      BY <1>24, <2>1 DEF LoopFinishes, NodeEffect, InLoop
  <1>25. CASE LoopAnnounces(r)
    <2>1. leg'[r].at = "store" /\ \A q \in Requests \ {r} : leg'[q] = leg[q]
      BY <1>25, PlaceOf DEF LoopAnnounces, TypeOK
    <2> QED
      BY <1>25, <2>1 DEF LoopAnnounces, NodeEffect, InLoop
  <1>26. CASE LoopStores(r)
    <2>1. leg'[r].at = "commit" /\ \A q \in Requests \ {r} : leg'[q] = leg[q]
      BY <1>26, PlaceOf DEF LoopStores, TypeOK
    <2> QED
      BY <1>26, <2>1 DEF LoopStores, NodeEffect, InLoop
  <1>27. CASE Done(r)
    <2>1. leg'[r].at = "commit" /\ \A q \in Requests \ {r} : leg'[q] = leg[q]
      BY <1>27, PlaceOf DEF Done, TypeOK, Publish
    <2> QED
      BY <1>27, <2>1 DEF Done, NodeEffect, InLoop, Publish
  <1>28. CASE FailPublishes(r)
    <2>1. leg'[r].at = "commit" /\ \A q \in Requests \ {r} : leg'[q] = leg[q]
      BY <1>28, PlaceOf DEF FailPublishes, TypeOK, Publish
    <2> QED
      BY <1>28, <2>1 DEF FailPublishes, NodeEffect, InLoop, Publish
  <1>29. CASE Fail(r)
    <2>1. leg'[r].at = "tell" /\ \A q \in Requests \ {r} : leg'[q] = leg[q]
      BY <1>29, PlaceOf DEF Fail, TypeOK
    <2> QED
      BY <1>29, <2>1 DEF Fail, NodeEffect, InLoop
  <1> QED
    BY <1>1, <1>2, <1>3, <1>4, <1>5, <1>6, <1>7, <1>8, <1>9, <1>10,
       <1>11, <1>12, <1>13, <1>14, <1>15, <1>16, <1>17, <1>18, <1>19,
       <1>20, <1>21, <1>22, <1>23, <1>24, <1>25, <1>26, <1>27, <1>28,
       <1>29
    DEF Node

\* What any other step may do: nobody enters the loop, its outcome and its
\* result are left alone, and the lock stays with the leg that drives.
OtherEffect ==
    /\ DriverHoldsLock'
    /\ \A q \in Requests : leg'[q].at \in InLoop => leg[q].at \in InLoop
    /\ outcome' = outcome
    /\ \/ stream' = stream
       \/ \E event \in {"need_input", "failed"} : stream' = Append(stream, event)

\* task.cancel() takes the leg out of the graph or out of the world.
LEMMA InterruptEffect ==
    ASSUME TypeOK, DriverHoldsLock, NEW t \in Requests, Interrupt(t)
    PROVE  /\ DriverHoldsLock'
           /\ \A q \in Requests : leg'[q].at \in InLoop => leg[q].at \in InLoop
  <1>1. \A q \in Requests \ {t} : leg'[q] = leg[q]
    BY DEF Interrupt, TypeOK
  <1>2. \/ /\ leg[t].at \in InGraph /\ leg'[t].at = "exit" /\ lock' = lock
        \/ /\ leg'[t].at = "dead"
           /\ lock' = lock \/ (lock = t /\ lock' = None)
    <2>1. /\ At("dead").at = "dead"
          /\ [At("exit") EXCEPT !.exit = "cancelled"].at = "exit"
      BY PlaceOf
    <2>2. CASE leg[t].at \in InGraph
      BY <2>1, <2>2 DEF Interrupt, TypeOK
    <2>3. CASE leg[t].at = "exit"
      BY <2>1, <2>3 DEF Interrupt, TypeOK, InGraph
    <2>4. CASE leg[t].at \notin InGraph \cup {"exit"}
      BY <2>1, <2>4 DEF Interrupt, TypeOK
    <2> QED
      BY <2>2, <2>3, <2>4
  <1> QED
    BY <1>1, <1>2 DEF DriverHoldsLock, Driving, InGraph, Over, InLoop

\* A leg past the graph stays past it.
LEMMA ProceedEffect ==
    ASSUME TypeOK, NEW r \in Requests, NEW place, Proceed(r, place)
    PROVE  leg'[r].at = place /\ \A q \in Requests \ {r} : leg'[q] = leg[q]
  <1>1. [leg[r] EXCEPT !.at = place].at = place
    BY DEF TypeOK, Leg
  <1> QED
    BY <1>1, PlaceOf DEF Proceed, TypeOK

\* Every step of a handler, every step after the graph and every mishap.
LEMMA OtherHasEffect ==
    ASSUME TypeOK, RunnerAssumption, DriverHoldsLock,
           \/ \E r \in Requests : \/ Lookup(r) \/ Handle(r) \/ Wrapup(r)
                                  \/ WallClock(r) \/ Fault(r) \/ ReleaseFails(r)
           \/ \E p \in Procs : Shutdown(p) \/ Crash(p)
           \/ LockExpires
    PROVE  OtherEffect
  <1> USE DEF sessionVars, handlerVars
  <1>a. \A exit : AfterRelease(exit) \in {"narrate", "expire", "gone"}
    BY DEF AfterRelease
  <1>1. CASE \E r \in Requests : Lookup(r) \/ Check(r) \/ Bounce(r) \/ Accept(r)
    BY <1>1 DEF Lookup, Check, Bounce, Accept, OtherEffect, DriverHoldsLock
  <1>2. CASE \E r \in Requests : Spawn(r)
    <2>1. PICK r \in Requests : Spawn(r)
      BY <1>2
    <2>2. leg'[r].at = "spawned" /\ \A q \in Requests \ {r} : leg'[q] = leg[q]
      BY <2>1 DEF Spawn, TypeOK, Leg
    <2>3. DriverHoldsLock'
      BY <2>1, <2>2, RunnerAssumption DEF Spawn, DriverHoldsLock, RunnerAssumption
    <2> QED
      BY <2>1, <2>2, <2>3 DEF Spawn, OtherEffect, InLoop
  <1>3. CASE \E r \in Requests : CancelTask(r)
    <2>1. PICK r \in Requests : CancelTask(r)
      BY <1>3
    <2>2. task[Home[r]] \in Requests \cup {None}
      BY DEF TypeOK, RunnerAssumption
    <2>3. CASE task[Home[r]] = None
      BY <2>1, <2>3 DEF CancelTask, OtherEffect, DriverHoldsLock
    <2>4. CASE task[Home[r]] # None
      BY <2>1, <2>2, <2>4, InterruptEffect DEF CancelTask, OtherEffect
    <2> QED
      BY <2>3, <2>4
  <1>4. CASE \E r \in Requests : CancelSession(r)
    BY <1>4 DEF CancelSession, OtherEffect, DriverHoldsLock
  <1>5. CASE \E r \in Requests : CancelPublish(r)
    BY <1>5 DEF CancelPublish, Publish, OtherEffect, DriverHoldsLock
  <1>6. CASE \E r \in Requests : Release(r)
    <2>1. PICK r \in Requests : Release(r)
      BY <1>6
    <2>2. /\ leg'[r].at \in {"narrate", "expire", "gone"}
          /\ \A q \in Requests \ {r} : leg'[q] = leg[q]
      BY <2>1, <1>a, ProceedEffect DEF Release
    <2>3. lock' = lock \/ lock = r
      BY <2>1 DEF Release
    <2>4. DriverHoldsLock'
      BY <2>2, <2>3 DEF DriverHoldsLock, Driving, InGraph
    <2> QED
      BY <2>1, <2>2, <2>4 DEF Release, OtherEffect, InLoop
  <1>7. CASE \E r \in Requests : Narrate(r)
    <2>1. PICK r \in Requests : Narrate(r)
      BY <1>7
    <2>2. leg'[r].at = "gone" /\ \A q \in Requests \ {r} : leg'[q] = leg[q]
      BY <2>1, ProceedEffect DEF Narrate
    <2> QED
      BY <2>1, <2>2
      DEF Narrate, Publish, OtherEffect, DriverHoldsLock, Driving, InGraph, InLoop
  <1>8. CASE \E r \in Requests : FailSession(r)
    <2>1. PICK r \in Requests : FailSession(r)
      BY <1>8
    <2>2. leg'[r].at = "obituary" /\ \A q \in Requests \ {r} : leg'[q] = leg[q]
      BY <2>1, ProceedEffect DEF FailSession
    <2> QED
      BY <2>1, <2>2
      DEF FailSession, Publish, OtherEffect, DriverHoldsLock, Driving, InGraph, InLoop
  <1>9. CASE \E r \in Requests : FailSessionPublishes(r)
    <2>1. PICK r \in Requests : FailSessionPublishes(r)
      BY <1>9
    <2>2. leg'[r].at = "gone" /\ \A q \in Requests \ {r} : leg'[q] = leg[q]
      BY <2>1, ProceedEffect DEF FailSessionPublishes
    <2> QED
      BY <2>1, <2>2
      DEF FailSessionPublishes, Publish, OtherEffect, DriverHoldsLock, Driving,
          InGraph, InLoop
  <1>10. CASE \E r \in Requests : WallClock(r) \/ Fault(r)
    <2>1. PICK r \in Requests : WallClock(r) \/ Fault(r)
      BY <1>10
    <2>2. PICK exit \in Exits :
            leg[r].at \in InGraph /\ leg' = [leg EXCEPT ![r] =
                                                [At("exit") EXCEPT !.exit = exit]]
      BY <2>1 DEF WallClock, Fault, Leave, Exits
    <2>3. [At("exit") EXCEPT !.exit = exit].at = "exit"
      BY PlaceOf
    <2>4. leg'[r].at = "exit" /\ \A q \in Requests \ {r} : leg'[q] = leg[q]
      BY <2>2, <2>3 DEF TypeOK
    <2> QED
      BY <2>1, <2>2, <2>4
      DEF WallClock, Fault, OtherEffect, DriverHoldsLock, Driving, InLoop
  <1>11. CASE \E r \in Requests : ReleaseFails(r)
    <2>1. PICK r \in Requests : ReleaseFails(r)
      BY <1>11
    <2>2. /\ leg'[r].at \in {"narrate", "expire", "gone"}
          /\ \A q \in Requests \ {r} : leg'[q] = leg[q]
      BY <2>1, <1>a, ProceedEffect DEF ReleaseFails
    <2> QED
      BY <2>1, <2>2
      DEF ReleaseFails, OtherEffect, DriverHoldsLock, Driving, InGraph, InLoop
  <1>12. CASE \E p \in Procs : Shutdown(p)
    <2>1. PICK p \in Procs : Shutdown(p)
      BY <1>12
    <2>2. task[p] \in Requests
      BY <2>1 DEF Shutdown, TypeOK
    <2> QED
      BY <2>1, <2>2, InterruptEffect DEF Shutdown, OtherEffect
  <1>13. CASE \E p \in Procs : Crash(p)
    <2>1. PICK p \in Procs : Crash(p)
      BY <1>13
    <2>2. \A q \in Requests : leg'[q] = leg[q] \/ leg'[q].at = "dead"
      BY <2>1, PlaceOf DEF Crash
    <2> QED
      BY <2>1, <2>2
      DEF Crash, OtherEffect, DriverHoldsLock, Driving, InGraph, InLoop
  <1>14. CASE LockExpires
    <2>1. \A q \in Requests : leg[q].at \notin Driving
      BY <1>14 DEF LockExpires, DriverHoldsLock
    <2> QED
      BY <1>14, <2>1 DEF LockExpires, OtherEffect, DriverHoldsLock
  <1> QED
    BY <1>1, <1>2, <1>3, <1>4, <1>5, <1>6, <1>7, <1>8, <1>9, <1>10,
       <1>11, <1>12, <1>13, <1>14
    DEF Handle, Wrapup

-----------------------------------------------------------------------------
\* The inductive invariant: mutual exclusion by the lock is what lets one leg
\* record the loop's outcome while no other is inside the loop.
RunnerInv == TypeOK /\ DriverHoldsLock /\ LoopIsOpen

\* The driver holds the lock, and whoever is in the loop found no outcome and
\* still finds none, after any steps of requests, legs and mishaps.
LEMMA RunnerInvariant == Spec => []RunnerInv
  <1>1. Init => DriverHoldsLock /\ LoopIsOpen
    BY DEF Init, DriverHoldsLock, LoopIsOpen, NoLeg, Driving, InGraph, InLoop
  <1>2. TypeOK /\ DriverHoldsLock /\ LoopIsOpen /\ [Next]_vars
          => DriverHoldsLock' /\ LoopIsOpen'
    <2> SUFFICES ASSUME TypeOK, DriverHoldsLock, LoopIsOpen, [Next]_vars
                 PROVE  DriverHoldsLock' /\ LoopIsOpen'
      OBVIOUS
    <2>1. ASSUME NEW r \in Requests, Node(r)
          PROVE  DriverHoldsLock' /\ LoopIsOpen'
      <3>1. NodeEffect(r)
        BY <2>1, NodeHasEffect
      <3>2. lock = r
        BY <3>1 DEF NodeEffect, DriverHoldsLock, Driving
      <3>3. \A q \in Requests \ {r} : leg'[q].at \notin Driving
        BY <3>1, <3>2 DEF NodeEffect, DriverHoldsLock
      <3>4. InLoop \subseteq Driving
        BY DEF InLoop, Driving, InGraph
      <3>5. leg'[r].at \in InLoop => outcome' = "none"
        BY <3>1 DEF NodeEffect, LoopIsOpen
      <3> QED
        BY <3>1, <3>2, <3>3, <3>4, <3>5
        DEF NodeEffect, DriverHoldsLock, LoopIsOpen
    <2>2. CASE \/ \E r \in Requests : \/ Lookup(r) \/ Handle(r) \/ Wrapup(r)
                                      \/ WallClock(r) \/ Fault(r)
                                      \/ ReleaseFails(r)
               \/ \E p \in Procs : Shutdown(p) \/ Crash(p)
               \/ LockExpires
      BY <2>2, OtherHasEffect, RunnerAssumption DEF OtherEffect, LoopIsOpen
    <2>3. CASE UNCHANGED vars
      BY <2>3 DEF vars, sessionVars, DriverHoldsLock, LoopIsOpen
    <2> QED
      BY <2>1, <2>2, <2>3 DEF Next
  <1> QED
    BY <1>1, <1>2, TypeCorrect, PTL DEF Spec, RunnerInv

\* SessionRunner's run lock does its work: from the spawn to the release, a leg
\* in the graph holds the lock, so no two legs ever drive one session.
THEOREM MutualExclusion == Spec => []DriverHoldsLock
  BY RunnerInvariant, PTL DEF RunnerInv

\* The generation loop is execute-once per recorded outcome: once the outcome is
\* stored it never changes and no run publishes another result.
THEOREM FinalOutcome == Spec => OutcomeIsFinal
  <1>1. RunnerInv /\ [Next]_vars =>
          [outcome # "none" => /\ outcome' = outcome
                               /\ \A i \in Len(stream) + 1 .. Len(stream') :
                                     stream'[i] # "result"]_vars
    <2> SUFFICES ASSUME RunnerInv, Next, outcome # "none"
                 PROVE  /\ outcome' = outcome
                        /\ \A i \in Len(stream) + 1 .. Len(stream') :
                              stream'[i] # "result"
      OBVIOUS
    <2>1. ASSUME NEW event \in {"need_input", "done", "failed"},
                 stream' = Append(stream, event)
          PROVE  \A i \in Len(stream) + 1 .. Len(stream') : stream'[i] # "result"
      BY <2>1 DEF RunnerInv, TypeOK
    <2>2. ASSUME stream' = stream
          PROVE  \A i \in Len(stream) + 1 .. Len(stream') : stream'[i] # "result"
      BY <2>2 DEF RunnerInv, TypeOK
    <2>3. ASSUME NEW r \in Requests, Node(r)
          PROVE  /\ outcome' = outcome
                 /\ \A i \in Len(stream) + 1 .. Len(stream') :
                       stream'[i] # "result"
      <3>1. NodeEffect(r)
        BY <2>3, NodeHasEffect DEF RunnerInv
      <3>2. leg[r].at \notin InLoop
        BY DEF RunnerInv, LoopIsOpen
      <3> QED
        BY <3>1, <3>2, <2>1, <2>2 DEF NodeEffect, InLoop
    <2>4. CASE \/ \E r \in Requests : \/ Lookup(r) \/ Handle(r) \/ Wrapup(r)
                                      \/ WallClock(r) \/ Fault(r)
                                      \/ ReleaseFails(r)
               \/ \E p \in Procs : Shutdown(p) \/ Crash(p)
               \/ LockExpires
      BY <2>4, <2>1, <2>2, OtherHasEffect, RunnerAssumption
      DEF OtherEffect, RunnerInv
    <2> QED
      BY <2>3, <2>4 DEF Next
  <1> QED
    BY <1>1, RunnerInvariant, PTL DEF Spec, OutcomeIsFinal

-----------------------------------------------------------------------------
\* Where the graph may stand while the session waits for its user.
MayWait(state, node) ==
    /\ state = "need_input" => node \in {"ask", "resolve_constraints", "fail"}
    /\ state = "awaiting_approval" =>
          node \in {"plan_steps", "approve", "generate", "fail"}

Waiting == {"need_input", "awaiting_approval"}

\* The graph is where the state says, also while a run is under way; it has not
\* moved before there is a record, and it is past the gates once the loop has
\* an outcome.
PhaseInv ==
    /\ MayWait(fsm, graph.next)
    /\ fsm = "none" => graph.next = "analyze"
    /\ outcome # "none" => /\ graph.next \in {"generate", "done", "end"}
                           /\ fsm \notin Waiting

\* What a leg has in hand agrees with the node it is in: the fsm_state it will
\* write back, the checkpoint it will commit, the record it has written.
LegInv(r) ==
    /\ leg[r].at = "work" =>
          /\ graph.next \in {"parse_brief", "extract_inventory", "approve"}
          /\ leg[r].copy \notin {"none", "need_input"}
          /\ graph.next # "approve" => leg[r].copy # "awaiting_approval"
    /\ leg[r].at = "commit" =>
          /\ fsm # "none"
          /\ MayWait(fsm, leg[r].pending.next)
          /\ outcome # "none" => leg[r].pending.next \in {"generate", "done", "end"}
    /\ leg[r].at \in {"loop", "announce", "store"} => graph.next = "generate"
    /\ leg[r].at \in {"loop", "announce", "store", "tell"} =>
          fsm \notin Waiting \cup {"none"}

\* Before there is a record nobody but a start has passed a check, and a start
\* that has passed it and whose leg has not begun still finds no record.
StartInv ==
    /\ \A r \in Requests :
          /\ req[r] \in {"unsent", "op", "checked"} => leg[r].at = "off"
          /\ req[r] \in {"joining", "writing"} => Kind[r] = "cancel"
          /\ Kind[r] # "start" /\ fsm = "none" =>
                /\ req[r] \in {"unsent", "op", "replayed", "rejected", "lost"}
                /\ leg[r].at = "off"
          /\ Kind[r] = "start" /\ (req[r] = "checked" \/ leg[r].at = "spawned") =>
                fsm = "none"
    /\ \A p \in Procs : task[p] # None => leg[task[p]].at # "off"

GateInv == PhaseInv /\ StartInv /\ \A r \in Requests : LegInv(r)

\* The node a checkpoint goes on at.
LEMMA NextOf ==
    ASSUME graph \in Graph
    PROVE  /\ \A node : To(node).next = node
           /\ \A node : Routed(node).next \in {node, "fail"}
           /\ Failure.next = "fail"
           /\ \A result : AfterLoop(result).next \in {"done", "end"}
           /\ \A node, question : [To(node) EXCEPT !.question = question].next = node
           /\ \A node : [Routed(node) EXCEPT !.reask = FALSE].next \in {node, "fail"}
           /\ \A node : [Routed(node) EXCEPT !.reasks = @ + 1, !.reask = TRUE].next
                           \in {node, "fail"}
  BY DEF Graph, To, Routed, Failure, AfterLoop

\* What a leg holds after it has read the record or written it.
LEMMA InHand ==
    ASSUME NEW place
    PROVE  /\ \A state : [At(place) EXCEPT !.copy = state].copy = state
           /\ \A checkpoint :
                 [At(place) EXCEPT !.pending = checkpoint].pending = checkpoint
  BY DEF At, NoLeg

\* What a step of the leg of r does to the phase: it keeps it, and there is still
\* a record if there was one.
Keeps(r) ==
    /\ PhaseInv'
    /\ LegInv(r)'
    /\ fsm' = "none" => fsm = "none"

\* A checkpoint without a write keeps the phase when the state may wait there.
LEMMA AdvanceKeeps ==
    ASSUME TypeOK, PhaseInv, NEW r \in Requests, NEW checkpoint,
           Advance(r, checkpoint), fsm # "none", MayWait(fsm, checkpoint.next),
           outcome # "none" => checkpoint.next \in {"generate", "done", "end"}
    PROVE  Keeps(r)
  <1>1. /\ graph' = checkpoint /\ UNCHANGED <<fsm, outcome>>
        /\ leg'[r].at = "run"
    BY PlaceOf DEF Advance, TypeOK
  <1> QED
    BY <1>1 DEF Keeps, PhaseInv, LegInv, MayWait

\* A write of the session keeps it when the state may wait at both nodes.
LEMMA WriteKeeps ==
    ASSUME TypeOK, PhaseInv, NEW r \in Requests, NEW state, NEW checkpoint,
           WriteSession(r, state, checkpoint), state # "none",
           MayWait(state, graph.next), MayWait(state, checkpoint.next),
           outcome # "none" =>
              state \notin Waiting /\ checkpoint.next \in {"generate", "done", "end"}
    PROVE  Keeps(r)
  <1>1. /\ fsm' = state /\ UNCHANGED <<graph, outcome>>
        /\ leg'[r].at = "commit" /\ leg'[r].pending = checkpoint
    BY PlaceOf, InHand DEF WriteSession, TypeOK
  <1> QED
    BY <1>1 DEF Keeps, PhaseInv, LegInv, MayWait

\* Leaving the graph touches nothing else.
LEMMA LeaveKeeps ==
    ASSUME TypeOK, PhaseInv, NEW r \in Requests, NEW exit, Leave(r, exit),
           UNCHANGED <<fsm, graph, outcome>>
    PROVE  Keeps(r)
  <1>1. leg'[r].at = "exit"
    BY PlaceOf DEF Leave, TypeOK
  <1> QED
    BY <1>1 DEF Keeps, PhaseInv, LegInv, MayWait

\* Every step of the graph keeps the phase.
LEMMA NodeKeeps ==
    ASSUME TypeOK, PhaseInv, StartInv, NEW r \in Requests, LegInv(r), Node(r)
    PROVE  Keeps(r)
  <1> USE DEF sessionVars, On
  <1>g. graph \in Graph
    BY DEF TypeOK
  <1>n. /\ \A node : To(node).next = node
        /\ \A node : Routed(node).next \in {node, "fail"}
        /\ Failure.next = "fail"
        /\ \A result : AfterLoop(result).next \in {"done", "end"}
    BY <1>g, NextOf
  <1>p. /\ MayWait(fsm, graph.next)
        /\ fsm = "none" => graph.next = "analyze"
        /\ outcome # "none" => /\ graph.next \in {"generate", "done", "end"}
                               /\ fsm \notin Waiting
    BY DEF PhaseInv
  <1>1. CASE Begin(r)
    <2>1. leg'[r].at = "run" /\ UNCHANGED <<fsm, outcome>> /\ leg[r].at = "spawned"
      BY <1>1 DEF Begin, TypeOK, Leg
    <2>2. CASE Kind[r] = "start"
      <3>1. fsm = "none" /\ outcome = "none"
        BY <2>1, <2>2, <1>p DEF StartInv
      <3>2. graph'.next = "analyze"
        BY <1>1, <2>2, <1>n DEF Begin
      <3> QED
        BY <2>1, <3>1, <3>2 DEF Keeps, PhaseInv, LegInv, MayWait
    <2>3. CASE Kind[r] # "start"
      <3>1. graph' = graph
        BY <1>1, <2>3 DEF Begin
      <3> QED
        BY <2>1, <3>1 DEF Keeps, PhaseInv, LegInv, MayWait
    <2> QED
      BY <2>2, <2>3
  <1>2. CASE Commit(r)
    <2>1. /\ leg[r].at = "commit" /\ Advance(r, leg[r].pending)
      BY <1>2 DEF Commit
    <2>2. /\ fsm # "none" /\ MayWait(fsm, leg[r].pending.next)
          /\ outcome # "none" => leg[r].pending.next \in {"generate", "done", "end"}
      BY <2>1 DEF LegInv
    <2> QED
      BY <2>1, <2>2, AdvanceKeeps
  <1>3. CASE QualityGate(r)
    <2>1. /\ fsm # "none" /\ fsm \notin Waiting /\ outcome = "none"
          /\ Advance(r, Routed("parse_brief")) \/ Advance(r, Failure)
      BY <1>3, <1>p DEF QualityGate, MayWait, Waiting
    <2>2. \A node : MayWait(fsm, node)
      BY <2>1 DEF MayWait, Waiting
    <2> QED
      BY <2>1, <2>2, AdvanceKeeps
  <1>4. CASE AskWithoutPreset(r)
    <2>1. fsm # "none" /\ outcome = "none" /\ Advance(r, Failure)
      BY <1>4, <1>p DEF AskWithoutPreset
    <2>2. MayWait(fsm, Failure.next)
      BY <1>n DEF MayWait
    <2> QED
      BY <2>1, <2>2, AdvanceKeeps
  <1>5. CASE AskNobody(r)
    <2>1. /\ fsm # "none" /\ outcome = "none" /\ fsm # "awaiting_approval"
          /\ Advance(r, Routed("resolve_constraints"))
      BY <1>5, <1>p DEF AskNobody, MayWait
    <2>2. MayWait(fsm, Routed("resolve_constraints").next)
      BY <1>n, <2>1 DEF MayWait
    <2> QED
      BY <2>1, <2>2, AdvanceKeeps
  <1>6. CASE ResolveRejects(r)
    <2> DEFINE again == [Routed("ask") EXCEPT !.reasks = @ + 1, !.reask = TRUE]
    <2>1. /\ fsm # "none" /\ outcome = "none" /\ fsm # "awaiting_approval"
          /\ Advance(r, Failure) \/ Advance(r, again)
      BY <1>6, <1>p DEF ResolveRejects, MayWait
    <2>2. again.next \in {"ask", "fail"}
      BY <1>g, NextOf
    <2>3. MayWait(fsm, again.next) /\ MayWait(fsm, Failure.next)
      BY <1>n, <2>1, <2>2 DEF MayWait
    <2> HIDE DEF again
    <2> QED
      BY <2>1, <2>3, AdvanceKeeps
  <1>7. CASE ApproveRejects(r)
    <2>1. fsm # "none" /\ outcome = "none" /\ Advance(r, Failure)
      BY <1>7, <1>p DEF ApproveRejects
    <2>2. MayWait(fsm, Failure.next)
      BY <1>n DEF MayWait
    <2> QED
      BY <2>1, <2>2, AdvanceKeeps
  <1>8. CASE GenerateReplays(r)
    <2>1. fsm \notin Waiting \cup {"none"} /\ Advance(r, AfterLoop(outcome))
      BY <1>8, <1>p DEF GenerateReplays
    <2>2. MayWait(fsm, AfterLoop(outcome).next)
      BY <2>1 DEF MayWait, Waiting
    <2> QED
      BY <1>n, <2>1, <2>2, AdvanceKeeps
  <1>9. CASE Analyze(r)
    <2>1. outcome = "none" /\ WriteSession(r, "face_check", To("quality_gate"))
      BY <1>9, <1>p DEF Analyze
    <2>2. \A node : MayWait("face_check", node)
      BY DEF MayWait
    <2> QED
      BY <2>1, <2>2, WriteKeeps
  <1>10. CASE ParseBrief(r)
    <2>1. PICK question \in Questions :
            WriteSession(r, leg[r].copy,
                         [To("extract_inventory") EXCEPT !.question = question])
      BY <1>10 DEF ParseBrief
    <2>2. /\ outcome = "none"
          /\ leg[r].copy \notin {"none", "need_input", "awaiting_approval"}
      BY <1>10, <1>p DEF ParseBrief, LegInv
    <2>3. \A node : MayWait(leg[r].copy, node)
      BY <2>2 DEF MayWait
    <2> QED
      BY <2>1, <2>2, <2>3, WriteKeeps
  <1>11. CASE AskAnswered(r)
    <2>1. /\ outcome = "none" /\ graph.next = "ask"
          /\ WriteSession(r, "need_input", Routed("resolve_constraints"))
      BY <1>11, <1>p DEF AskAnswered
    <2>2. MayWait("need_input", graph.next)
          /\ MayWait("need_input", Routed("resolve_constraints").next)
      BY <1>n, <2>1 DEF MayWait
    <2> QED
      BY <2>1, <2>2, WriteKeeps
  <1>12. CASE ResolveAccepts(r)
    <2>1. /\ outcome = "none"
          /\ WriteSession(r, "planning",
                          [Routed("plan_steps") EXCEPT !.reask = FALSE])
      BY <1>12, <1>p DEF ResolveAccepts
    <2>2. \A node : MayWait("planning", node)
      BY DEF MayWait
    <2> QED
      BY <2>1, <2>2, WriteKeeps
  <1>13. CASE PlanSteps(r)
    <2>1. /\ outcome = "none" /\ graph.next = "plan_steps"
          /\ WriteSession(r, "awaiting_approval", To("approve"))
      BY <1>13, <1>p DEF PlanSteps
    <2>2. MayWait("awaiting_approval", graph.next)
          /\ MayWait("awaiting_approval", To("approve").next)
      BY <1>n, <2>1 DEF MayWait
    <2> QED
      BY <2>1, <2>2, WriteKeeps
  <1>14. CASE ApproveWrites(r)
    <2>1. /\ outcome = "none" /\ graph.next = "approve"
          /\ leg[r].copy \notin {"none", "need_input"}
          /\ WriteSession(r, leg[r].copy, Routed("generate"))
      BY <1>14, <1>p DEF ApproveWrites, LegInv
    <2>2. MayWait(leg[r].copy, graph.next)
          /\ MayWait(leg[r].copy, Routed("generate").next)
      BY <1>n, <2>1 DEF MayWait
    <2> QED
      BY <2>1, <2>2, WriteKeeps
  <1>15. CASE ExtractInventory(r)
    <2>1. /\ outcome = "none" /\ fsm # "none" /\ fsm \notin Waiting
          /\ leg[r].copy \notin {"none", "need_input", "awaiting_approval"}
          /\ WriteSession(r, leg[r].copy, To("ask")) \/ Advance(r, To("ask"))
      BY <1>15, <1>p DEF ExtractInventory, LegInv, MayWait, Waiting
    <2>2. \A node : MayWait(leg[r].copy, node) /\ MayWait(fsm, node)
      BY <2>1 DEF MayWait, Waiting
    <2> QED
      BY <2>1, <2>2, WriteKeeps, AdvanceKeeps
  <1>16. CASE Ended(r)
    BY <1>16, LeaveKeeps DEF Ended
  <1>17. CASE AskPauses(r)
    <2>1. /\ fsm' = "need_input" /\ graph.next = "ask" /\ UNCHANGED <<graph, outcome>>
          /\ leg'[r].at = "exit" /\ outcome = "none"
      BY <1>17, <1>p, PlaceOf DEF AskPauses, Leave, TypeOK
    <2> QED
      BY <2>1 DEF Keeps, PhaseInv, LegInv, MayWait
  <1>18. CASE ApprovePauses(r)
    BY <1>18, LeaveKeeps DEF ApprovePauses
  <1>19. CASE ApproveRaises(r)
    BY <1>19, LeaveKeeps DEF ApproveRaises
  <1>20. CASE ReadSession(r)
    <2>1. /\ leg'[r].at = "work" /\ leg'[r].copy = fsm
          /\ graph.next \in {"parse_brief", "extract_inventory"}
          /\ UNCHANGED <<fsm, graph, outcome>>
      BY <1>20, PlaceOf, InHand DEF ReadSession, TypeOK
    <2>2. fsm \notin {"none", "need_input", "awaiting_approval"}
      BY <2>1, <1>p DEF MayWait
    <2> QED
      BY <2>1, <2>2 DEF Keeps, PhaseInv, LegInv, MayWait
  <1>21. CASE ApproveReads(r)
    <2>1. /\ leg'[r].at = "work" /\ leg'[r].copy = fsm
          /\ graph.next = "approve" /\ UNCHANGED <<fsm, graph, outcome>>
      BY <1>21, PlaceOf, InHand DEF ApproveReads, TypeOK
    <2>2. fsm \notin {"none", "need_input"}
      BY <2>1, <1>p DEF MayWait
    <2> QED
      BY <2>1, <2>2 DEF Keeps, PhaseInv, LegInv, MayWait
  <1>22. CASE LoopStarts(r)
    <2>1. /\ leg'[r].at = "loop" /\ fsm' = "generating"
          /\ graph.next = "generate" /\ UNCHANGED <<graph, outcome>>
      BY <1>22, PlaceOf DEF LoopStarts, TypeOK
    <2> QED
      BY <2>1, <1>p DEF Keeps, PhaseInv, LegInv, MayWait, Waiting
  <1>23. CASE LoopCheckpoints(r)
    <2>1. /\ leg'[r] = leg[r] /\ leg[r].at = "loop" /\ fsm' = "generating"
          /\ graph.next = "generate" /\ UNCHANGED <<graph, outcome>>
      BY <1>23 DEF LoopCheckpoints, LegInv
    <2> QED
      BY <2>1, <1>p DEF Keeps, PhaseInv, LegInv, MayWait, Waiting
  <1>24. CASE LoopFinishes(r)
    <2>1. /\ leg'[r].at = "announce" /\ fsm' \in {"done", "failed"}
          /\ graph.next = "generate" /\ UNCHANGED <<graph, outcome>>
      BY <1>24, PlaceOf DEF LoopFinishes, LegInv, TypeOK
    <2> QED
      BY <2>1, <1>p DEF Keeps, PhaseInv, LegInv, MayWait, Waiting
  <1>25. CASE LoopAnnounces(r)
    <2>1. /\ leg'[r].at = "store" /\ graph.next = "generate"
          /\ fsm \notin Waiting \cup {"none"} /\ UNCHANGED <<fsm, graph, outcome>>
      BY <1>25, PlaceOf DEF LoopAnnounces, LegInv, TypeOK
    <2> QED
      BY <2>1, <1>p DEF Keeps, PhaseInv, LegInv, MayWait, Waiting
  <1>26. CASE LoopStores(r)
    <2>1. /\ leg'[r].at = "commit" /\ leg'[r].pending = AfterLoop(LoopResult)
          /\ graph.next = "generate" /\ fsm \notin Waiting \cup {"none"}
          /\ UNCHANGED <<fsm, graph>>
      BY <1>26, PlaceOf, InHand DEF LoopStores, LegInv, TypeOK
    <2>2. leg'[r].pending.next \in {"done", "end"}
      BY <2>1, <1>n
    <2> QED
      BY <2>1, <2>2, <1>p DEF Keeps, PhaseInv, LegInv, MayWait, Waiting
  <1>27. CASE Done(r)
    <2>1. /\ leg'[r].at = "commit" /\ leg'[r].pending = To("end")
          /\ graph.next = "done" /\ UNCHANGED <<fsm, graph, outcome>>
      BY <1>27, PlaceOf, InHand DEF Done, TypeOK
    <2>2. leg'[r].pending.next = "end"
      BY <2>1, <1>n
    <2> QED
      BY <2>1, <2>2, <1>p DEF Keeps, PhaseInv, LegInv, MayWait, Waiting
  <1>28. CASE FailPublishes(r)
    <2>1. /\ leg'[r].at = "commit" /\ leg'[r].pending = To("end")
          /\ fsm \notin Waiting \cup {"none"} /\ UNCHANGED <<fsm, graph, outcome>>
      BY <1>28, PlaceOf, InHand DEF FailPublishes, LegInv, TypeOK
    <2>2. leg'[r].pending.next = "end"
      BY <2>1, <1>n
    <2> QED
      BY <2>1, <2>2, <1>p DEF Keeps, PhaseInv, LegInv, MayWait, Waiting
  <1>29. CASE Fail(r)
    <2>1. /\ leg'[r].at = "tell" /\ fsm' = "failed" /\ UNCHANGED <<graph, outcome>>
      BY <1>29, PlaceOf DEF Fail, TypeOK
    <2> QED
      BY <2>1, <1>p DEF Keeps, PhaseInv, LegInv, MayWait, Waiting
  <1> QED
    BY <1>1, <1>2, <1>3, <1>4, <1>5, <1>6, <1>7, <1>8, <1>9, <1>10,
       <1>11, <1>12, <1>13, <1>14, <1>15, <1>16, <1>17, <1>18, <1>19,
       <1>20, <1>21, <1>22, <1>23, <1>24, <1>25, <1>26, <1>27, <1>28,
       <1>29
    DEF Node

-----------------------------------------------------------------------------
\* What a handler, the end of a leg or a mishap does to the phase: the graph and
\* the outcome stay, the state stays or becomes terminal, and a leg that changes
\* is out of the graph.
OutsideEffect ==
    /\ UNCHANGED <<graph, outcome>>
    /\ fsm' \in {fsm, "cancelled", "failed"}
    /\ \A q \in Requests : leg'[q] = leg[q] \/ leg'[q].at \notin InGraph

\* Such a step keeps the phase and what the legs have in hand.
LEMMA OutsideKeeps ==
    ASSUME PhaseInv, \A r \in Requests : LegInv(r), OutsideEffect
    PROVE  PhaseInv' /\ \A r \in Requests : LegInv(r)'
  <1>1. PhaseInv'
    BY DEF PhaseInv, OutsideEffect, MayWait, Waiting
  <1>2. ASSUME NEW r \in Requests PROVE LegInv(r)'
    <2>1. CASE leg'[r].at \notin InGraph
      BY <2>1 DEF LegInv, InGraph
    <2>2. CASE leg'[r] = leg[r]
      <3>1. LegInv(r)
        OBVIOUS
      <3> QED
        BY <2>2, <3>1 DEF LegInv, OutsideEffect, MayWait, Waiting
    <2> QED
      BY <2>1, <2>2 DEF OutsideEffect
  <1> QED
    BY <1>1, <1>2

\* At most one start request reaches the session ...
OneStart == \A q, r \in Requests : Kind[q] = "start" /\ Kind[r] = "start" => q = r

\* ... or its client sends one request after the other, so that a second start
\* comes only after the first was refused or has made the record.
StartsApart == OneStart \/ SerialClient

\* A request is being handled, or its leg is still under way.
Busy(r) == req[r] \in InHandler \/ Active(r)

OneAtATime == SerialClient => \A q, r \in Requests : Busy(q) /\ Busy(r) => q = r

\* task.cancel() wakes nobody up.
LEMMA InterruptBusy ==
    ASSUME TypeOK, NEW t \in Requests, Interrupt(t)
    PROVE  \A q \in Requests : Active(q)' => Active(q)
  <1>1. \A q \in Requests \ {t} : leg'[q] = leg[q]
    BY DEF Interrupt, TypeOK
  <1>2. leg[t].at \in InGraph \/ leg'[t].at = "dead"
    BY PlaceOf DEF Interrupt, TypeOK
  <1> QED
    BY <1>1, <1>2 DEF Active, Over, InGraph

\* Only Lookup begins something.
LEMMA BusyStep ==
    ASSUME TypeOK, RunnerAssumption, Next, NEW q \in Requests, Busy(q)'
    PROVE  Busy(q) \/ Lookup(q)
  <1> USE DEF handlerVars
  <1>1. ASSUME NEW r \in Requests, Busy(r) \/ Lookup(r),
               q # r => (req'[q] = req[q] /\ leg'[q] = leg[q])
        PROVE  Busy(q) \/ Lookup(q)
    BY <1>1 DEF Busy, Active
  <1>2. ASSUME NEW r \in Requests, Lookup(r) \/ Check(r) \/ Spawn(r) \/ Bounce(r)
                                    \/ Accept(r) \/ CancelSession(r) \/ CancelPublish(r)
        PROVE  Busy(q) \/ Lookup(q)
    <2>1. /\ Busy(r) \/ Lookup(r)
          /\ q # r => req'[q] = req[q] /\ leg'[q] = leg[q]
      BY <1>2 DEF Lookup, Check, Spawn, Bounce, Accept, CancelSession, CancelPublish,
                  Busy, InHandler, TypeOK
    <2> QED
      BY <2>1, <1>1
  <1>3. ASSUME NEW r \in Requests, CancelTask(r) PROVE Busy(q)
    <2>1. req[r] \in InHandler /\ (q # r => req'[q] = req[q])
      BY <1>3 DEF CancelTask, InHandler, TypeOK
    <2>2. Active(q)' => Active(q)
      <3>1. CASE task[Home[r]] = None
        BY <1>3, <3>1 DEF CancelTask, Active
      <3>2. CASE task[Home[r]] # None
        <4>1. task[Home[r]] \in Requests /\ Interrupt(task[Home[r]])
          BY <1>3, <3>2 DEF CancelTask, TypeOK, RunnerAssumption
        <4> QED
          BY <4>1, InterruptBusy
      <3> QED
        BY <3>1, <3>2
    <2> QED
      BY <2>1, <2>2 DEF Busy
  <1>4. ASSUME NEW r \in Requests, Node(r) PROVE Busy(q) \/ Lookup(q)
    <2>1. NodeEffect(r)
      BY <1>4, NodeHasEffect
    <2>2. Busy(r) /\ (q # r => req'[q] = req[q] /\ leg'[q] = leg[q])
      BY <2>1 DEF NodeEffect, Busy, Active, InGraph, Over
    <2> QED
      BY <2>2, <1>1
  <1>5. ASSUME NEW r \in Requests, Wrapup(r) \/ ReleaseFails(r)
        PROVE  Busy(q) \/ Lookup(q)
    <2>1. PICK place : Proceed(r, place)
      BY <1>5 DEF Wrapup, Release, Narrate, FailSession, FailSessionPublishes, ReleaseFails
    <2>2. req' = req /\ leg[r].at \in {"exit", "narrate", "expire", "obituary"}
      BY <1>5 DEF Wrapup, Release, Narrate, FailSession, FailSessionPublishes, ReleaseFails
    <2>3. Busy(r) /\ (q # r => leg'[q] = leg[q])
      BY <2>1, <2>2, ProceedEffect DEF Busy, Active, Over
    <2> QED
      BY <2>2, <2>3, <1>1
  <1>6. ASSUME NEW r \in Requests, WallClock(r) \/ Fault(r) PROVE Busy(q) \/ Lookup(q)
    <2>1. /\ leg[r].at \in InGraph /\ req' = req
          /\ q # r => leg'[q] = leg[q]
      BY <1>6 DEF WallClock, Fault, Leave, TypeOK
    <2> QED
      BY <2>1, <1>1 DEF Busy, Active, InGraph, Over
  <1>7. ASSUME NEW p \in Procs, Shutdown(p) PROVE Busy(q)
    <2>1. task[p] \in Requests /\ Interrupt(task[p]) /\ req' = req
      BY <1>7 DEF Shutdown, TypeOK
    <2> QED
      BY <2>1, InterruptBusy DEF Busy
  <1>8. ASSUME NEW p \in Procs, Crash(p) PROVE Busy(q)
    <2>1. /\ req'[q] = req[q] \/ req'[q] = "lost"
          /\ leg'[q] = leg[q] \/ leg'[q].at = "dead"
      BY <1>8, PlaceOf DEF Crash
    <2> QED
      BY <2>1 DEF Busy, Active, Over, InHandler
  <1>9. CASE LockExpires
    BY <1>9 DEF LockExpires, Busy, Active
  <1> QED
    BY <1>2, <1>3, <1>4, <1>5, <1>6, <1>7, <1>8, <1>9 DEF Next, Handle

\* A client that sends one request after the other has one under way at a time,
\* whatever happens to them.
LEMMA SerialInvariant == Spec => []OneAtATime
  <1>1. Init => OneAtATime
    BY DEF Init, OneAtATime, Busy, Active, NoLeg, InHandler, Over
  <1>2. TypeOK /\ OneAtATime /\ [Next]_vars => OneAtATime'
    <2> SUFFICES ASSUME TypeOK, OneAtATime, [Next]_vars, SerialClient,
                        NEW q \in Requests, NEW r \in Requests, Busy(q)', Busy(r)'
                 PROVE  q = r
      BY DEF OneAtATime
    <2>1. CASE Next
      <3>1. Busy(q) \/ Lookup(q)
        BY <2>1, BusyStep, RunnerAssumption
      <3>2. Busy(r) \/ Lookup(r)
        BY <2>1, BusyStep, RunnerAssumption
      <3>3. ASSUME NEW o \in Requests, Lookup(o)
            PROVE  /\ \A u \in Requests : ~Busy(u)
                   /\ \A u \in Requests \ {o} : ~Busy(u)'
        <4>1. Settled /\ leg' = leg /\ \A u \in Requests \ {o} : req'[u] = req[u]
          BY <3>3 DEF Lookup, TypeOK
        <4> QED
          BY <4>1 DEF Settled, Busy, Active
      <3> QED
        BY <3>1, <3>2, <3>3 DEF OneAtATime
    <2>2. CASE UNCHANGED vars
      BY <2>2 DEF OneAtATime, vars, handlerVars, Busy, Active
    <2> QED
      BY <2>1, <2>2
  <1> QED
    BY <1>1, <1>2, TypeCorrect, PTL DEF Spec

\* How far a handler may get in one step, other than by spawning its leg.
ReqMove(q) ==
    \/ req'[q] = req[q]
    \/ req'[q] \in {"replayed", "rejected", "lost"}
    \/ req[q] = "unsent" /\ req'[q] = "op"
    \/ req[q] = "op" /\ req'[q] = "checked" /\ Admits(Kind[q], fsm)
    \/ req[q] = "spawned" /\ req'[q] = "accepted"
    \/ req[q] = "checked" /\ req'[q] = "joining" /\ Kind[q] = "cancel"
    \/ req[q] = "joining" /\ req'[q] = "writing"
    \/ req[q] = "writing" /\ req'[q] = "accepted"

\* A leg stays, or it was spawned and goes on.
LegMove(q) ==
    \/ leg'[q] = leg[q]
    \/ leg[q].at # "off" /\ leg'[q].at \notin {"off", "spawned"}

\* Steps that spawn nothing keep the discipline of the start, as long as the
\* first record is written on behalf of the start.
LEMMA StartKept ==
    ASSUME TypeOK, StartsApart, OneAtATime, StartInv,
           \A q \in Requests : ReqMove(q) /\ LegMove(q),
           \A p \in Procs : task'[p] = task[p] \/ task'[p] = None,
           fsm' = "none" => fsm = "none",
           fsm = "none" /\ fsm' # "none" =>
              \E q \in Requests : /\ Kind[q] = "start" /\ Active(q)
                                  /\ leg'[q].at \notin {"off", "spawned"}
    PROVE  StartInv'
  <1>1. ASSUME NEW r \in Requests
        PROVE  /\ req'[r] \in {"unsent", "op", "checked"} => leg'[r].at = "off"
               /\ req'[r] \in {"joining", "writing"} => Kind[r] = "cancel"
    <2>1. /\ req[r] \in {"unsent", "op", "checked"} => leg[r].at = "off"
          /\ req[r] \in {"joining", "writing"} => Kind[r] = "cancel"
      BY DEF StartInv
    <2>2. ReqMove(r) /\ LegMove(r)
      OBVIOUS
    <2>3. req'[r] \in {"unsent", "op", "checked"} =>
             req[r] \in {"unsent", "op", "checked"}
      BY <2>2 DEF ReqMove
    <2>4. req'[r] \in {"joining", "writing"} => Kind[r] = "cancel"
      BY <2>1, <2>2 DEF ReqMove
    <2> QED
      BY <2>1, <2>2, <2>3, <2>4 DEF LegMove
  <1>2. ASSUME NEW r \in Requests, Kind[r] # "start", fsm' = "none"
        PROVE  /\ req'[r] \in {"unsent", "op", "replayed", "rejected", "lost"}
               /\ leg'[r].at = "off"
    <2>1. /\ req[r] \in {"unsent", "op", "replayed", "rejected", "lost"}
          /\ leg[r].at = "off" /\ fsm = "none"
      BY <1>2 DEF StartInv
    <2>2. ReqMove(r) /\ LegMove(r)
      OBVIOUS
    <2>3. ~Admits(Kind[r], fsm)
      BY <1>2, <2>1 DEF Admits
    <2> QED
      BY <2>1, <2>2, <2>3 DEF ReqMove, LegMove
  <1>3. ASSUME NEW r \in Requests, Kind[r] = "start",
               req'[r] = "checked" \/ leg'[r].at = "spawned"
        PROVE  fsm' = "none"
    <2>1. ReqMove(r) /\ LegMove(r)
      OBVIOUS
    <2>2. leg'[r].at \in {"off", "spawned"}
      BY <1>1, <1>3
    <2>3. req[r] \in {"op", "checked"} \/ leg[r].at = "spawned"
      BY <1>3, <2>1 DEF ReqMove, LegMove
    <2>4. fsm = "none"
      BY <1>3, <2>1 DEF ReqMove, LegMove, StartInv, Admits
    <2>5. ASSUME NEW q \in Requests, Kind[q] = "start", Active(q),
                 leg'[q].at \notin {"off", "spawned"}
          PROVE  FALSE
      <3>1. Busy(q) /\ Busy(r)
        BY <2>3, <2>5 DEF Busy, Active, InHandler, Over
      <3>2. q = r
        BY <1>3, <2>5, <3>1 DEF StartsApart, OneStart, OneAtATime
      <3> QED
        BY <2>2, <2>5, <3>2
    <2> QED
      BY <2>4, <2>5
  <1>4. ASSUME NEW p \in Procs, task'[p] # None PROVE leg'[task'[p]].at # "off"
    <2>1. task'[p] = task[p] /\ task[p] \in Requests
      BY <1>4 DEF TypeOK
    <2>2. leg[task[p]].at # "off" /\ LegMove(task[p])
      BY <1>4, <2>1 DEF StartInv
    <2> QED
      BY <2>1, <2>2 DEF LegMove
  <1> QED
    BY <1>1, <1>2, <1>3, <1>4 DEF StartInv

\* task.cancel() on a task the process knows of.
LEMMA InterruptMoves ==
    ASSUME TypeOK, RunnerAssumption, NEW t \in Requests, leg[t].at # "off", Interrupt(t)
    PROVE  /\ \A q \in Requests : /\ LegMove(q)
                                  /\ leg'[q] = leg[q] \/ leg'[q].at \notin InGraph
           /\ \A p \in Procs : task'[p] = task[p] \/ task'[p] = None
  <1>1. \A q \in Requests \ {t} : leg'[q] = leg[q]
    BY DEF Interrupt, TypeOK
  <1>2. leg'[t].at \in {"exit", "dead"}
    <2>1. /\ At("dead").at = "dead"
          /\ [At("exit") EXCEPT !.exit = "cancelled"].at = "exit"
      BY PlaceOf
    <2>2. CASE leg[t].at \in InGraph
      BY <2>1, <2>2 DEF Interrupt, TypeOK
    <2>3. CASE leg[t].at \notin InGraph
      BY <2>1, <2>3 DEF Interrupt, TypeOK
    <2> QED
      BY <2>2, <2>3
  <1>3. \A p \in Procs : task'[p] = task[p] \/ task'[p] = None
    BY DEF Interrupt, TypeOK, RunnerAssumption
  <1> QED
    BY <1>1, <1>2, <1>3 DEF LegMove, InGraph

\* The end of a leg.
LEMMA ProceedMoves ==
    ASSUME TypeOK, RunnerAssumption, NEW r \in Requests,
           NEW place \in {"narrate", "expire", "obituary", "gone"},
           leg[r].at # "off", Proceed(r, place)
    PROVE  /\ \A q \in Requests : /\ LegMove(q)
                                  /\ leg'[q] = leg[q] \/ leg'[q].at \notin InGraph
           /\ \A p \in Procs : task'[p] = task[p] \/ task'[p] = None
  <1>1. leg'[r].at = place /\ \A q \in Requests \ {r} : leg'[q] = leg[q]
    BY ProceedEffect
  <1>2. \A p \in Procs : task'[p] = task[p] \/ task'[p] = None
    BY DEF Proceed, TypeOK, RunnerAssumption
  <1> QED
    BY <1>1, <1>2 DEF LegMove, InGraph

\* Every step of a handler, every step after the graph and every mishap keeps
\* the whole invariant.
LEMMA OtherKeeps ==
    ASSUME TypeOK, RunnerAssumption, StartsApart, OneAtATime, GateInv,
           \/ \E r \in Requests : \/ Lookup(r) \/ Handle(r) \/ Wrapup(r)
                                  \/ WallClock(r) \/ Fault(r) \/ ReleaseFails(r)
           \/ \E p \in Procs : Shutdown(p) \/ Crash(p)
           \/ LockExpires
    PROVE  GateInv'
  <1> USE DEF sessionVars, handlerVars
  <1>g. PhaseInv /\ StartInv /\ \A r \in Requests : LegInv(r)
    BY DEF GateInv
  <1>a. \A exit : AfterRelease(exit) \in {"narrate", "expire", "gone"}
    BY DEF AfterRelease
  <1>b. ASSUME OutsideEffect, StartInv' PROVE GateInv'
    BY <1>b, <1>g, OutsideKeeps DEF GateInv
  <1>1. CASE \E r \in Requests : Lookup(r) \/ Check(r) \/ Bounce(r) \/ Accept(r)
                                 \/ CancelPublish(r)
    <2>1. PICK r \in Requests : Lookup(r) \/ Check(r) \/ Bounce(r) \/ Accept(r)
                                \/ CancelPublish(r)
      BY <1>1
    <2>2. UNCHANGED <<fsm, graph, outcome, leg, task>>
      BY <2>1 DEF Lookup, Check, Bounce, Accept, CancelPublish
    <2>3. \A q \in Requests : ReqMove(q)
      BY <2>1 DEF Lookup, Check, Bounce, Accept, CancelPublish, ReqMove, TypeOK
    <2>4. StartInv'
      BY <1>g, <2>2, <2>3, StartKept DEF LegMove
    <2> QED
      BY <2>2, <2>4, <1>b DEF OutsideEffect
  <1>2. CASE \E r \in Requests : Spawn(r)
    <2>1. PICK r \in Requests : Spawn(r)
      BY <1>2
    <2>2. leg'[r].at = "spawned" /\ \A q \in Requests \ {r} : leg'[q] = leg[q]
      BY <2>1 DEF Spawn, TypeOK, Leg
    <2>3. req'[r] = "spawned" /\ \A q \in Requests \ {r} : req'[q] = req[q]
      BY <2>1 DEF Spawn, TypeOK
    <2>4. /\ req[r] = "checked" /\ Kind[r] # "cancel"
          /\ UNCHANGED <<fsm, graph, outcome>>
          /\ \A p \in Procs : task'[p] \in {task[p], r}
      BY <2>1 DEF Spawn, TypeOK
    <2>5. ASSUME NEW q \in Requests
          PROVE  /\ req'[q] \in {"unsent", "op", "checked"} => leg'[q].at = "off"
                 /\ req'[q] \in {"joining", "writing"} => Kind[q] = "cancel"
                 /\ Kind[q] # "start" /\ fsm' = "none" =>
                      /\ req'[q] \in {"unsent", "op", "replayed", "rejected", "lost"}
                      /\ leg'[q].at = "off"
                 /\ Kind[q] = "start" /\ (req'[q] = "checked" \/ leg'[q].at = "spawned")
                      => fsm' = "none"
      <3>1. CASE q = r
        <4>1. leg[r].at = "off"
          BY <1>g, <2>4 DEF StartInv
        <4>2. Kind[r] # "start" => fsm # "none"
          BY <1>g, <2>4 DEF StartInv
        <4>3. Kind[r] = "start" => fsm = "none"
          BY <1>g, <2>4 DEF StartInv
        <4> QED
          BY <3>1, <2>2, <2>3, <2>4, <4>2, <4>3
      <3>2. CASE q # r
        BY <3>2, <1>g, <2>2, <2>3, <2>4 DEF StartInv
      <3> QED
        BY <3>1, <3>2
    <2>6. ASSUME NEW p \in Procs, task'[p] # None PROVE leg'[task'[p]].at # "off"
      <3>1. CASE task'[p] = r
        BY <3>1, <2>2
      <3>2. CASE task'[p] = task[p] /\ task'[p] # r
        <4>1. task[p] \in Requests /\ leg[task[p]].at # "off"
          BY <3>2, <2>6, <1>g DEF StartInv, TypeOK
        <4> QED
          BY <4>1, <3>2, <2>2
      <3> QED
        BY <3>1, <3>2, <2>4
    <2>7. StartInv'
      BY <2>5, <2>6 DEF StartInv
    <2>8. OutsideEffect
      BY <2>2, <2>4 DEF OutsideEffect, InGraph
    <2> QED
      BY <2>7, <2>8, <1>b
  <1>3. CASE \E r \in Requests : CancelTask(r)
    <2>1. PICK r \in Requests : CancelTask(r)
      BY <1>3
    <2>2. task[Home[r]] \in Requests \cup {None} /\ Home[r] \in Procs
      BY DEF TypeOK, RunnerAssumption
    <2>3. /\ \A q \in Requests : /\ LegMove(q)
                                 /\ leg'[q] = leg[q] \/ leg'[q].at \notin InGraph
          /\ \A p \in Procs : task'[p] = task[p] \/ task'[p] = None
      <3>1. CASE task[Home[r]] = None
        BY <2>1, <3>1 DEF CancelTask, LegMove
      <3>2. CASE task[Home[r]] # None
        <4>1. leg[task[Home[r]]].at # "off"
          BY <1>g, <2>2, <3>2 DEF StartInv
        <4>2. Interrupt(task[Home[r]]) /\ task[Home[r]] \in Requests
          BY <2>1, <2>2, <3>2 DEF CancelTask
        <4> QED
          BY <4>1, <4>2, InterruptMoves
      <3> QED
        BY <3>1, <3>2
    <2>4. UNCHANGED <<fsm, graph, outcome>> /\ \A q \in Requests : ReqMove(q)
      BY <2>1 DEF CancelTask, ReqMove, TypeOK
    <2>5. StartInv'
      BY <1>g, <2>3, <2>4, StartKept
    <2> QED
      BY <2>3, <2>4, <2>5, <1>b DEF OutsideEffect
  <1>4. CASE \E r \in Requests : CancelSession(r)
    <2>1. PICK r \in Requests : CancelSession(r)
      BY <1>4
    <2>2. /\ req[r] = "joining" /\ fsm' = "cancelled"
          /\ UNCHANGED <<graph, outcome, leg, task>>
          /\ \A q \in Requests : ReqMove(q)
      BY <2>1 DEF CancelSession, ReqMove, TypeOK
    <2>3. fsm # "none"
      BY <1>g, <2>2 DEF StartInv
    <2>4. StartInv'
      BY <1>g, <2>2, <2>3, StartKept DEF LegMove
    <2> QED
      BY <2>2, <2>4, <1>b DEF OutsideEffect
  <1>5. CASE \E r \in Requests : Release(r) \/ ReleaseFails(r)
    <2>1. PICK r \in Requests : Release(r) \/ ReleaseFails(r)
      BY <1>5
    <2>2. /\ Proceed(r, AfterRelease(leg[r].exit)) /\ leg[r].at # "off"
          /\ UNCHANGED <<fsm, graph, outcome, req>>
      BY <2>1 DEF Release, ReleaseFails
    <2>3. /\ \A q \in Requests : /\ LegMove(q)
                                 /\ leg'[q] = leg[q] \/ leg'[q].at \notin InGraph
          /\ \A p \in Procs : task'[p] = task[p] \/ task'[p] = None
      BY <1>a, <2>2, ProceedMoves
    <2>4. StartInv'
      BY <1>g, <2>2, <2>3, StartKept DEF ReqMove
    <2> QED
      BY <2>2, <2>3, <2>4, <1>b DEF OutsideEffect
  <1>6. CASE \E r \in Requests : Narrate(r) \/ FailSessionPublishes(r)
    <2>1. PICK r \in Requests : Narrate(r) \/ FailSessionPublishes(r)
      BY <1>6
    <2>2. /\ Proceed(r, "gone") /\ leg[r].at # "off"
          /\ UNCHANGED <<fsm, graph, outcome, req>>
      BY <2>1 DEF Narrate, FailSessionPublishes
    <2>3. /\ \A q \in Requests : /\ LegMove(q)
                                 /\ leg'[q] = leg[q] \/ leg'[q].at \notin InGraph
          /\ \A p \in Procs : task'[p] = task[p] \/ task'[p] = None
      BY <2>2, ProceedMoves
    <2>4. StartInv'
      BY <1>g, <2>2, <2>3, StartKept DEF ReqMove
    <2> QED
      BY <2>2, <2>3, <2>4, <1>b DEF OutsideEffect
  <1>7. CASE \E r \in Requests : FailSession(r)
    <2>1. PICK r \in Requests : FailSession(r)
      BY <1>7
    <2>2. /\ Proceed(r, "obituary") /\ leg[r].at = "expire"
          /\ fsm' = IF fsm = "none" THEN fsm ELSE "failed"
          /\ UNCHANGED <<graph, outcome, req>>
      BY <2>1 DEF FailSession
    <2>3. /\ \A q \in Requests : /\ LegMove(q)
                                 /\ leg'[q] = leg[q] \/ leg'[q].at \notin InGraph
          /\ \A p \in Procs : task'[p] = task[p] \/ task'[p] = None
      BY <2>2, ProceedMoves
    <2>4. /\ Active(r)
          /\ fsm = "none" => Kind[r] = "start" /\ leg'[r].at \notin {"off", "spawned"}
      BY <1>g, <2>2, ProceedEffect DEF StartInv, Active, Over
    <2>5. StartInv'
      BY <1>g, <2>2, <2>3, <2>4, StartKept DEF ReqMove
    <2> QED
      BY <2>2, <2>3, <2>5, <1>b DEF OutsideEffect
  <1>8. CASE \E r \in Requests : WallClock(r) \/ Fault(r)
    <2>1. PICK r \in Requests : WallClock(r) \/ Fault(r)
      BY <1>8
    <2>2. PICK exit \in Exits :
            leg[r].at \in InGraph /\ leg' = [leg EXCEPT ![r] =
                                                [At("exit") EXCEPT !.exit = exit]]
      BY <2>1 DEF WallClock, Fault, Leave, Exits
    <2>3. [At("exit") EXCEPT !.exit = exit].at = "exit"
      BY PlaceOf
    <2>4. leg'[r].at = "exit" /\ \A q \in Requests \ {r} : leg'[q] = leg[q]
      BY <2>2, <2>3 DEF TypeOK
    <2>5. UNCHANGED <<fsm, graph, outcome, req, task>>
      BY <2>1 DEF WallClock, Fault
    <2>6. \A q \in Requests : LegMove(q)
      BY <2>2, <2>4 DEF LegMove, InGraph
    <2>7. StartInv'
      BY <1>g, <2>5, <2>6, StartKept DEF ReqMove
    <2> QED
      BY <2>4, <2>5, <2>7, <1>b DEF OutsideEffect, InGraph
  <1>9. CASE \E p \in Procs : Shutdown(p)
    <2>1. PICK p \in Procs : Shutdown(p)
      BY <1>9
    <2>2. task[p] \in Requests /\ leg[task[p]].at # "off" /\ Interrupt(task[p])
      BY <2>1, <1>g DEF Shutdown, TypeOK, StartInv
    <2>3. UNCHANGED <<fsm, graph, outcome, req>>
      BY <2>1 DEF Shutdown
    <2>4. /\ \A q \in Requests : /\ LegMove(q)
                                 /\ leg'[q] = leg[q] \/ leg'[q].at \notin InGraph
          /\ \A o \in Procs : task'[o] = task[o] \/ task'[o] = None
      BY <2>2, InterruptMoves
    <2>5. StartInv'
      BY <1>g, <2>3, <2>4, StartKept DEF ReqMove
    <2> QED
      BY <2>3, <2>4, <2>5, <1>b DEF OutsideEffect
  <1>10. CASE \E p \in Procs : Crash(p)
    <2>1. PICK p \in Procs : Crash(p)
      BY <1>10
    <2>2. \A q \in Requests : \/ leg'[q] = leg[q]
                              \/ leg'[q].at = "dead" /\ leg[q].at # "off"
      BY <2>1, PlaceOf DEF Crash, Active
    <2>3. UNCHANGED <<fsm, graph, outcome>> /\ \A q \in Requests : ReqMove(q)
      BY <2>1 DEF Crash, ReqMove
    <2>4. \A o \in Procs : task'[o] = task[o] \/ task'[o] = None
      BY <2>1 DEF Crash, TypeOK
    <2>5. \A q \in Requests : LegMove(q)
      BY <2>2 DEF LegMove
    <2>6. StartInv'
      BY <1>g, <2>3, <2>4, <2>5, StartKept
    <2> QED
      BY <2>2, <2>3, <2>6, <1>b DEF OutsideEffect, InGraph
  <1>11. CASE LockExpires
    <2>1. UNCHANGED <<fsm, graph, outcome, leg, req, task>>
      BY <1>11 DEF LockExpires
    <2>2. StartInv'
      BY <2>1, <1>g DEF StartInv
    <2> QED
      BY <2>1, <2>2, <1>b DEF OutsideEffect
  <1> QED
    BY <1>1, <1>2, <1>3, <1>4, <1>5, <1>6, <1>7, <1>8, <1>9, <1>10, <1>11
    DEF Handle, Wrapup

\* The gate invariant is inductive, given mutual exclusion: only the lock's
\* holder moves the graph, so what a leg has in hand cannot go stale.
LEMMA GateInvariant == StartsApart => (Spec => []GateInv)
  <1> SUFFICES ASSUME StartsApart PROVE Spec => []GateInv
    OBVIOUS
  <1>1. Init => GateInv
    <2> SUFFICES ASSUME Init PROVE GateInv
      OBVIOUS
    <2>1. \A r \in Requests : leg[r].at = "off" /\ req[r] = "unsent"
      BY DEF Init, NoLeg
    <2>2. PhaseInv
      BY DEF Init, PhaseInv, MayWait, NewThread
    <2>3. StartInv
      BY <2>1 DEF Init, StartInv
    <2>4. \A r \in Requests : LegInv(r)
      BY <2>1 DEF LegInv
    <2> QED
      BY <2>2, <2>3, <2>4 DEF GateInv
  <1>2. TypeOK /\ RunnerInv /\ OneAtATime /\ GateInv /\ [Next]_vars => GateInv'
    <2> SUFFICES ASSUME TypeOK, RunnerInv, OneAtATime, GateInv, [Next]_vars
                 PROVE  GateInv'
      OBVIOUS
    <2>1. ASSUME NEW r \in Requests, Node(r) PROVE GateInv'
      <3>g. PhaseInv /\ StartInv /\ LegInv(r)
        BY DEF GateInv
      <3>1. NodeEffect(r)
        BY <2>1, NodeHasEffect
      <3>2. Keeps(r)
        BY <2>1, <3>g, NodeKeeps
      <3>3. \A q \in Requests \ {r} : leg'[q] = leg[q] /\ leg[q].at \notin InGraph
        BY <3>1 DEF NodeEffect, RunnerInv, DriverHoldsLock, Driving
      <3>4. \A q \in Requests : LegInv(q)'
        BY <3>2, <3>3 DEF Keeps, LegInv, InGraph
      <3>5. \A q \in Requests : ReqMove(q) /\ LegMove(q)
        BY <3>1 DEF NodeEffect, ReqMove, LegMove, InGraph
      <3>6. /\ Active(r)
            /\ fsm = "none" => Kind[r] = "start" /\ leg'[r].at \notin {"off", "spawned"}
        BY <3>1, <3>g DEF NodeEffect, StartInv, InGraph, Active, Over
      <3>7. StartInv'
        BY <3>1, <3>2, <3>5, <3>6, <3>g, StartKept DEF NodeEffect, Keeps
      <3> QED
        BY <3>2, <3>4, <3>7 DEF Keeps, GateInv
    <2>2. CASE \/ \E r \in Requests : \/ Lookup(r) \/ Handle(r) \/ Wrapup(r)
                                      \/ WallClock(r) \/ Fault(r)
                                      \/ ReleaseFails(r)
               \/ \E p \in Procs : Shutdown(p) \/ Crash(p)
               \/ LockExpires
      BY <2>2, OtherKeeps, RunnerAssumption
    <2>3. CASE UNCHANGED vars
      BY <2>3 DEF vars, sessionVars, handlerVars, GateInv, PhaseInv, StartInv,
         LegInv, MayWait
    <2> QED
      BY <2>1, <2>2, <2>3 DEF Next
  <1> QED
    BY <1>1, <1>2, TypeCorrect, RunnerInvariant, SerialInvariant, PTL DEF Spec

-----------------------------------------------------------------------------
(* How exactly the graph is parked.                                        *)

\* The graph is at the very gate the user is asked about.
AtGate ==
    /\ fsm = "need_input" => graph.next = "ask"
    /\ fsm = "awaiting_approval" => graph.next = "approve"

\* A request that has not acted yet.
Early == {"unsent", "op", "checked"}

\* Only a leg in the graph takes the graph away from the gate, and it brings it to
\* one or to the end unless it is cut short.
ExactInv ==
    /\ \A r \in Requests : req[r] \in Early => waits[r] = None
    /\ BrokenOff \/ AtGate \/ \E r \in Requests : leg[r].at \in InGraph

\* No step of the graph is a mishap or a cancel.
LEMMA NodeIsSound ==
    ASSUME NEW r \in Requests, Node(r)
    PROVE  mishaps' = mishaps /\ waits' = waits
  BY DEF Node, Begin, Commit, Ended, Analyze, QualityGate, ReadSession, ParseBrief,
         ExtractInventory, AskWithoutPreset, AskNobody, AskPauses, AskAnswered,
         ResolveAccepts, ResolveRejects, PlanSteps, ApprovePauses, ApproveRejects,
         ApproveRaises, ApproveReads, ApproveWrites, GenerateReplays, LoopStarts,
         LoopCheckpoints, LoopFinishes, LoopAnnounces, LoopStores, Done, Fail,
         FailPublishes, Advance, WriteSession, handlerVars

\* Of its own accord a leg leaves the graph in four ways only.
LEMMA WaysOut ==
    ASSUME TypeOK, NEW r \in Requests, Node(r)
    PROVE  \/ leg'[r].at \in InGraph
           \/ Ended(r) \/ AskPauses(r) \/ ApprovePauses(r) \/ ApproveRaises(r)
  <1>1. ASSUME NEW checkpoint, Advance(r, checkpoint) PROVE leg'[r].at \in InGraph
    BY <1>1, PlaceOf DEF Advance, TypeOK, InGraph
  <1>2. ASSUME NEW state, NEW checkpoint, WriteSession(r, state, checkpoint)
        PROVE  leg'[r].at \in InGraph
    BY <1>2, PlaceOf DEF WriteSession, TypeOK, InGraph
  <1>3. CASE Commit(r) \/ QualityGate(r) \/ AskWithoutPreset(r) \/ AskNobody(r)
             \/ ResolveRejects(r) \/ ApproveRejects(r) \/ GenerateReplays(r)
    <2>1. \E checkpoint : Advance(r, checkpoint)
      BY <1>3 DEF Commit, QualityGate, AskWithoutPreset, AskNobody, ResolveRejects,
                  ApproveRejects, GenerateReplays
    <2> QED
      BY <1>1, <2>1
  <1>4. CASE Analyze(r) \/ ParseBrief(r) \/ AskAnswered(r) \/ ResolveAccepts(r)
             \/ PlanSteps(r) \/ ApproveWrites(r)
    <2>1. \E state, checkpoint : WriteSession(r, state, checkpoint)
      BY <1>4 DEF Analyze, ParseBrief, AskAnswered, ResolveAccepts, PlanSteps,
                  ApproveWrites
    <2> QED
      BY <1>2, <2>1
  <1>5. CASE ExtractInventory(r)
    BY <1>1, <1>2, <1>5 DEF ExtractInventory
  <1>6. CASE Begin(r) \/ LoopCheckpoints(r)
    BY <1>6 DEF Begin, LoopCheckpoints, TypeOK, Leg, InGraph
  <1>7. CASE ReadSession(r) \/ ApproveReads(r)
    <2>1. leg' = [leg EXCEPT ![r] = [At("work") EXCEPT !.copy = fsm]]
      BY <1>7 DEF ReadSession, ApproveReads
    <2>2. leg'[r].at = "work"
      BY <2>1, PlaceOf DEF TypeOK
    <2> QED
      BY <2>2 DEF InGraph
  <1>8. CASE LoopStarts(r) \/ LoopFinishes(r) \/ LoopAnnounces(r) \/ Fail(r)
    BY <1>8, PlaceOf DEF LoopStarts, LoopFinishes, LoopAnnounces, Fail, TypeOK, InGraph
  <1>9. CASE LoopStores(r) \/ Done(r) \/ FailPublishes(r)
    <2>1. \E checkpoint :
             leg' = [leg EXCEPT ![r] = [At("commit") EXCEPT !.pending = checkpoint]]
      BY <1>9 DEF LoopStores, Done, FailPublishes
    <2>2. leg'[r].at = "commit"
      BY <2>1, PlaceOf DEF TypeOK
    <2> QED
      BY <2>2 DEF InGraph
  <1> QED
    BY <1>3, <1>4, <1>5, <1>6, <1>7, <1>8, <1>9 DEF Node

\* A leg that leaves the graph leaves it at the gate, or past both.
LEMMA LeavesAtGate ==
    ASSUME TypeOK, PhaseInv, NEW r \in Requests,
           Ended(r) \/ AskPauses(r) \/ ApprovePauses(r) \/ ApproveRaises(r)
    PROVE  AtGate'
  <1> USE DEF On, sessionVars
  <1>1. MayWait(fsm, graph.next)
    BY DEF PhaseInv
  <1>2. CASE Ended(r)
    BY <1>1, <1>2 DEF Ended, AtGate, MayWait
  <1>3. CASE AskPauses(r)
    BY <1>3 DEF AskPauses, AtGate
  <1>4. CASE ApprovePauses(r) \/ ApproveRaises(r)
    BY <1>1, <1>4 DEF ApprovePauses, ApproveRaises, AtGate, MayWait
  <1> QED
    BY <1>2, <1>3, <1>4

\* A step that moves neither the graph nor a leg out of it.
LEMMA ExactKept ==
    ASSUME ExactInv, UNCHANGED <<graph, mishaps, waits>>,
           fsm' \in {fsm, "failed", "cancelled"},
           \A q \in Requests : req'[q] \in Early => req[q] \in Early,
           \A q \in Requests : leg[q].at \in InGraph => leg'[q].at \in InGraph
    PROVE  ExactInv'
  <1>1. BrokenOff' = BrokenOff
    BY DEF BrokenOff
  <1>2. AtGate => AtGate'
    BY DEF AtGate
  <1> QED
    BY <1>1, <1>2 DEF ExactInv

\* A step that cuts a run short.
LEMMA ExactBroken ==
    ASSUME TypeOK, ExactInv, waits' = waits, NEW m \in Mishaps, Suffer(m),
           \A q \in Requests : req'[q] \in Early => req[q] \in Early
    PROVE  ExactInv'
  <1>1. mishaps'[m] > 0
    BY DEF Suffer, TypeOK
  <1> QED
    BY <1>1 DEF ExactInv, BrokenOff

\* Every step keeps it.
LEMMA ExactStep ==
    ASSUME TypeOK, StartInv, PhaseInv, ExactInv, Next
    PROVE  ExactInv'
  <1> USE DEF sessionVars, handlerVars
  <1>1. ASSUME NEW r \in Requests, Node(r) PROVE ExactInv'
    <2>1. mishaps' = mishaps /\ waits' = waits /\ req' = req
      BY <1>1, NodeIsSound, NodeHasEffect DEF NodeEffect
    <2>2. leg'[r].at \in InGraph \/ AtGate'
      BY <1>1, WaysOut, LeavesAtGate
    <2> QED
      BY <2>1, <2>2 DEF ExactInv
  <1>2. ASSUME NEW r \in Requests, Lookup(r) \/ Check(r) \/ Bounce(r) \/ Accept(r)
                                   \/ CancelSession(r) \/ CancelPublish(r)
        PROVE  ExactInv'
    <2>1. UNCHANGED <<graph, mishaps, waits, leg>> /\ fsm' \in {fsm, "cancelled"}
      BY <1>2 DEF Lookup, Check, Bounce, Accept, CancelSession, CancelPublish
    <2>2. \A q \in Requests : req'[q] \in Early => req[q] \in Early
      BY <1>2 DEF Lookup, Check, Bounce, Accept, CancelSession, CancelPublish, TypeOK, Early
    <2> QED
      BY <2>1, <2>2, ExactKept
  <1>3. ASSUME NEW r \in Requests, Spawn(r) PROVE ExactInv'
    <2>1. /\ UNCHANGED <<fsm, graph, mishaps, waits>> /\ req[r] = "checked"
          /\ \A q \in Requests \ {r} : leg'[q] = leg[q] /\ req'[q] = req[q]
          /\ req'[r] = "spawned"
      BY <1>3 DEF Spawn, TypeOK
    <2>2. leg[r].at \notin InGraph
      BY <2>1 DEF StartInv, InGraph
    <2> QED
      BY <2>1, <2>2, ExactKept DEF Early
  <1>4. ASSUME NEW r \in Requests, CancelTask(r) PROVE ExactInv'
    <2>1. /\ UNCHANGED <<fsm, graph, mishaps>> /\ req[r] = "checked"
          /\ req'[r] = "joining" /\ waits'[r] = task[Home[r]]
          /\ \A q \in Requests \ {r} : req'[q] = req[q] /\ waits'[q] = waits[q]
      BY <1>4 DEF CancelTask, TypeOK
    <2>2. CASE task[Home[r]] = None
      <3>1. leg' = leg
        BY <1>4, <2>2 DEF CancelTask
      <3>2. waits[r] = None
        BY <2>1 DEF ExactInv, Early
      <3>3. waits' = waits
        BY <1>4, <2>2, <3>2 DEF CancelTask, TypeOK
      <3> QED
        BY <2>1, <3>1, <3>3, ExactKept DEF Early
    <2>3. CASE task[Home[r]] # None
      <3>1. BrokenOff'
        BY <2>1, <2>3 DEF BrokenOff
      <3> QED
        BY <2>1, <3>1 DEF ExactInv, Early
    <2> QED
      BY <2>2, <2>3
  <1>5. ASSUME NEW r \in Requests, Wrapup(r) PROVE ExactInv'
    <2>1. /\ UNCHANGED <<graph, mishaps, waits, req>> /\ fsm' \in {fsm, "failed"}
          /\ leg[r].at \notin InGraph
      BY <1>5 DEF Wrapup, Release, Narrate, FailSession, FailSessionPublishes, InGraph
    <2>2. PICK place : Proceed(r, place)
      BY <1>5 DEF Wrapup, Release, Narrate, FailSession, FailSessionPublishes
    <2>3. \A q \in Requests \ {r} : leg'[q] = leg[q]
      BY <2>2, ProceedEffect
    <2> QED
      BY <2>1, <2>3, ExactKept
  <1>6. ASSUME NEW r \in Requests, WallClock(r) \/ Fault(r) \/ ReleaseFails(r)
        PROVE  ExactInv'
    <2>1. waits' = waits /\ req' = req /\ (Suffer("timeout") \/ Suffer("fault"))
      BY <1>6 DEF WallClock, Fault, ReleaseFails
    <2> QED
      BY <2>1, ExactBroken DEF Mishaps
  <1>7. ASSUME NEW p \in Procs, Shutdown(p) \/ Crash(p) PROVE ExactInv'
    <2>1. waits' = waits /\ (Suffer("shutdown") \/ Suffer("crash"))
      BY <1>7 DEF Shutdown, Crash
    <2>2. \A q \in Requests : req'[q] \in Early => req[q] \in Early
      BY <1>7 DEF Shutdown, Crash, Early
    <2> QED
      BY <2>1, <2>2, ExactBroken DEF Mishaps
  <1>8. CASE LockExpires
    <2>1. UNCHANGED <<fsm, graph, mishaps, waits, leg, req>>
      BY <1>8 DEF LockExpires
    <2> QED
      BY <2>1, ExactKept
  <1> QED
    BY <1>1, <1>2, <1>3, <1>4, <1>5, <1>6, <1>7, <1>8 DEF Next, Handle

\* Away from the gate somebody is in the graph, until a run is cut short.
LEMMA ExactInvariant == StartsApart => (Spec => []ExactInv)
  <1> SUFFICES ASSUME StartsApart PROVE Spec => []ExactInv
    OBVIOUS
  <1>1. Init => ExactInv
    BY DEF Init, ExactInv, AtGate
  <1>2. TypeOK /\ GateInv /\ ExactInv /\ [Next]_vars => ExactInv'
    <2> SUFFICES ASSUME TypeOK, GateInv, ExactInv, [Next]_vars PROVE ExactInv'
      OBVIOUS
    <2>1. CASE Next
      BY <2>1, ExactStep DEF GateInv
    <2>2. CASE UNCHANGED vars
      <3>1. UNCHANGED <<fsm, graph, mishaps, waits, leg, req>>
        BY <2>2 DEF vars, sessionVars, handlerVars
      <3> QED
        BY <3>1, ExactKept
    <2> QED
      BY <2>1, <2>2
  <1> QED
    BY <1>1, <1>2, TypeCorrect, GateInvariant, PTL DEF Spec

\* Whenever a session waits for its user and no run is under way, the graph is
\* parked at the gate the user is asked about, for any requests, if no two starts
\* race each other.  Only once a run was cut short, by a mishap or a cancel that
\* reached it, may it be parked right behind that gate, before it or on its way
\* to fail.
THEOREM GateMatches == StartsApart => (Spec => []GateMatchesState)
  <1>1. DriverHoldsLock /\ GateInv /\ ExactInv => GateMatchesState
    <2> SUFFICES ASSUME DriverHoldsLock, GateInv, ExactInv, lock = None
                 PROVE  MayWait(fsm, graph.next) /\ (BrokenOff \/ AtGate)
      BY DEF GateMatchesState, MayWait, AtGate
    <2>1. MayWait(fsm, graph.next)
      BY DEF GateInv, PhaseInv
    <2>2. \A r \in Requests : leg[r].at \notin InGraph
      BY RunnerAssumption DEF DriverHoldsLock, Driving, RunnerAssumption
    <2> QED
      BY <2>1, <2>2 DEF ExactInv
  <1> QED
    BY <1>1, GateInvariant, ExactInvariant, MutualExclusion, PTL

-----------------------------------------------------------------------------
(* A session nobody cancels and nothing disturbs.                          *)

\* No two starts race, nobody cancels the session, and nothing fails.  Answers
\* and decisions may still be duplicated, late and in each other's way.
Calm ==
    /\ StartsApart
    /\ \A r \in Requests : Kind[r] # "cancel"
    /\ \A m \in Mishaps : MaxMishaps[m] = 0

\* Every composition the client picks is one it was offered.
GoodPicks == \A r \in Requests : Kind[r] # "badcomp"

\* The closing events are counted only for such a client, and while no wall clock
\* can strike: one before the first record closes a stream that is used again.
Counted == GoodPicks /\ MaxMishaps["timeout"] = 0

\* The events on the stream that close it.
Closing == Count("done") + Count("failed")

\* The states a session may be in when the graph goes on at a node.
StatesAt(node) ==
    CASE node = "analyze" -> {"none"}
      [] node \in {"quality_gate", "parse_brief", "extract_inventory"} -> {"face_check"}
      [] node \in {"ask", "resolve_constraints"} -> {"face_check", "need_input"}
      [] node = "plan_steps" -> {"planning"}
      [] node \in {"approve", "generate"} -> {"awaiting_approval"}
      [] node = "fail" -> {"face_check", "need_input", "awaiting_approval"}
      [] node = "done" -> {"done"}
      [] OTHER -> {"done", "failed"}

\* The record agrees with the checkpoint: its state f, whether a frame is kept
\* (k), the outcome o and the number n of events that close the stream.
Stands(node, f, k, o, n) ==
    /\ f \in StatesAt(node)
    /\ node \notin {"done", "end"} => ~k /\ o = "none"
    /\ Counted => n = IF node = "end" THEN 1 ELSE 0

\* A failure on the channel has been routed.
Sound(g) == g.failure => g.next \in {"fail", "end"}

\* Where the leg has written what the checkpoint does not say yet.
Midway == {"commit", "loop", "announce", "store", "tell"}

LoopState == IF kept THEN "done" ELSE "failed"
Closed(n) == Counted => Closing = n

\* What the leg of r has written and will write.
LegCourse(r) ==
    /\ leg[r].at = "work" => leg[r].copy = fsm
    /\ leg[r].at = "commit" =>
          /\ Stands(leg[r].pending.next, fsm, kept, outcome, Closing)
          /\ Sound(leg[r].pending)
    /\ leg[r].at = "loop" => fsm = "generating" /\ Closed(0)
    /\ leg[r].at = "announce" => fsm = LoopState /\ Closed(0)
    /\ leg[r].at = "store" => fsm = LoopState /\ Closed(IF kept THEN 0 ELSE 1)
    /\ leg[r].at = "tell" => fsm = "failed" /\ Closed(0)
    /\ leg[r].at = "exit" => \/ leg[r].exit \in {"paused", "ended"}
                             \/ leg[r].exit = "fault" /\ Kind[r] = "badcomp"
    /\ leg[r].at = "narrate" => \/ leg[r].exit = "paused"
                                \/ leg[r].exit = "fault" /\ Kind[r] = "badcomp"
    /\ leg[r].at \notin {"expire", "obituary"}

\* The checkpoint and the record agree whenever no leg is between the two.
CheckpointAgrees ==
    (\A r \in Requests : leg[r].at \notin Midway) =>
        Stands(graph.next, fsm, kept, outcome, Closing)

CourseInv ==
    /\ Sound(graph)
    /\ CheckpointAgrees
    /\ \A r \in Requests : LegCourse(r)

\* How many of a list's elements are e.
Marks(s, e) == {i \in 1..Len(s) : s[i] = e}

\* Appending an element adds one to its own count and nothing to the others.
LEMMA MarksAppend ==
    ASSUME NEW E, NEW s \in Seq(E), NEW x \in E, NEW e
    PROVE  /\ Cardinality(Marks(s, e)) \in Nat
           /\ Cardinality(Marks(Append(s, x), e)) =
                 Cardinality(Marks(s, e)) + (IF x = e THEN 1 ELSE 0)
  <1> DEFINE n == Len(s)
  <1>1. n \in Nat
    OBVIOUS
  <1>2. IsFiniteSet(1..n)
    BY <1>1, FS_Interval
  <1>3. Marks(s, e) \in SUBSET (1..n)
    BY DEF Marks
  <1>4. IsFiniteSet(Marks(s, e))
    BY <1>2, <1>3, FS_Subset
  <1>5. Cardinality(Marks(s, e)) \in Nat
    BY <1>4, FS_CardinalityType
  <1>6. /\ Len(Append(s, x)) = n + 1 /\ Append(s, x)[n + 1] = x
        /\ \A i \in 1..n : Append(s, x)[i] = s[i]
    OBVIOUS
  <1>7. CASE x = e
    <2>1. Marks(Append(s, x), e) = Marks(s, e) \cup {n + 1}
      BY <1>1, <1>6, <1>7 DEF Marks
    <2>2. n + 1 \notin Marks(s, e)
      BY <1>1, <1>3
    <2> HIDE DEF n
    <2>3. Cardinality(Marks(s, e) \cup {n + 1}) = Cardinality(Marks(s, e)) + 1
      BY <1>4, <2>2, FS_AddElement
    <2> QED
      BY <1>5, <1>7, <2>1, <2>3
  <1>8. CASE x # e
    <2>1. Marks(Append(s, x), e) = Marks(s, e)
      BY <1>1, <1>6, <1>8 DEF Marks
    <2> QED
      BY <1>5, <1>8, <2>1
  <1> QED
    BY <1>7, <1>8

\* Only done and failed close the stream.
LEMMA ClosingSteps ==
    ASSUME TypeOK
    PROVE  /\ Closing \in Nat
           /\ stream' = stream => Closing' = Closing
           /\ Publish("done") \/ Publish("failed") => Closing' = Closing + 1
           /\ Publish("need_input") \/ Publish("result") => Closing' = Closing
  <1> DEFINE E == {"need_input", "result", "done", "failed"}
             d == Cardinality(Marks(stream, "done"))
             f == Cardinality(Marks(stream, "failed"))
  <1>1. stream \in Seq(E)
    BY DEF TypeOK
  <1>2. Closing = d + f
    BY DEF Closing, Count, Marks
  <1>3. Closing' = Cardinality(Marks(stream', "done")) + Cardinality(Marks(stream', "failed"))
    BY DEF Closing, Count, Marks
  <1>4. "done" \in E /\ d \in Nat /\ f \in Nat
    BY <1>1, MarksAppend
  <1>5. ASSUME NEW event \in E, stream' = Append(stream, event)
        PROVE  Closing' = Closing + (IF event \in {"done", "failed"} THEN 1 ELSE 0)
    <2>1. /\ Cardinality(Marks(stream', "done")) = d + (IF event = "done" THEN 1 ELSE 0)
          /\ Cardinality(Marks(stream', "failed")) = f + (IF event = "failed" THEN 1 ELSE 0)
      <3> HIDE DEF E
      <3> QED
        BY <1>1, <1>5, MarksAppend
    <2> HIDE DEF d, f
    <2>2. event = "done" => event # "failed"
      OBVIOUS
    <2> QED
      BY <1>2, <1>3, <1>4, <2>1, <2>2
  <1>6. stream' = stream => Closing' = Closing
    BY <1>2, <1>3
  <1> HIDE DEF d, f
  <1>7. Publish("done") => Closing' = Closing + 1
    BY <1>5 DEF Publish
  <1>8. Publish("failed") => Closing' = Closing + 1
    BY <1>5 DEF Publish
  <1>9. Closing \in Nat
    BY <1>2, <1>4
  <1>10. Publish("need_input") => Closing' = Closing
    BY <1>5, <1>9 DEF Publish
  <1>11. Publish("result") => Closing' = Closing
    BY <1>5, <1>9 DEF Publish
  <1> QED
    BY <1>6, <1>7, <1>8, <1>9, <1>10, <1>11

\* What a step of the leg of r does to its course, and to the state.
Runs(r) ==
    /\ Sound(graph')
    /\ leg'[r].at \notin Midway => Stands(graph'.next, fsm', kept', outcome', Closing')
    /\ LegCourse(r)'
    /\ fsm' = fsm \/ <<fsm, fsm'>> \in Fsm!Moves

\* A checkpoint without a write ...
LEMMA AdvanceRuns ==
    ASSUME TypeOK, NEW r \in Requests, NEW checkpoint, Advance(r, checkpoint),
           Sound(checkpoint), Stands(checkpoint.next, fsm, kept, outcome, Closing)
    PROVE  Runs(r)
  <1>1. /\ graph' = checkpoint /\ UNCHANGED <<fsm, kept, outcome, stream>>
        /\ leg'[r].at = "run"
    BY PlaceOf DEF Advance, TypeOK
  <1>2. Closing' = Closing
    BY <1>1, ClosingSteps
  <1> QED
    BY <1>1, <1>2 DEF Runs, LegCourse

\* ... a write of the session ...
LEMMA WriteRuns ==
    ASSUME TypeOK, NEW r \in Requests, NEW state, NEW checkpoint,
           WriteSession(r, state, checkpoint), Sound(graph), Sound(checkpoint),
           Stands(checkpoint.next, state, kept, outcome, Closing),
           state = fsm \/ <<fsm, state>> \in Fsm!Moves
    PROVE  Runs(r)
  <1>1. /\ fsm' = state /\ UNCHANGED <<graph, kept, outcome, stream>>
        /\ leg'[r].at = "commit" /\ leg'[r].pending = checkpoint
    BY PlaceOf, InHand DEF WriteSession, TypeOK
  <1>2. Closing' = Closing
    BY <1>1, ClosingSteps
  <1> QED
    BY <1>1, <1>2 DEF Runs, LegCourse, Midway

\* ... and leaving the graph, by a pause, at its end or for an unknown composition.
MayLeave(r, exit) ==
    exit \in {"paused", "ended"} \/ (exit = "fault" /\ Kind[r] = "badcomp")

LEMMA LeaveRuns ==
    ASSUME TypeOK, NEW r \in Requests, NEW exit, Leave(r, exit), Sound(graph),
           UNCHANGED <<graph, kept, outcome, stream>>,
           Stands(graph.next, fsm', kept, outcome, Closing),
           MayLeave(r, exit),
           fsm' = fsm \/ <<fsm, fsm'>> \in Fsm!Moves
    PROVE  Runs(r)
  <1>1. leg'[r].at = "exit" /\ leg'[r].exit = exit
    BY PlaceOf DEF Leave, TypeOK, At, NoLeg
  <1>2. Closing' = Closing
    BY ClosingSteps
  <1> QED
    BY <1>1, <1>2 DEF Runs, LegCourse, MayLeave

\* The checkpoints that follow a failure and the end.
LEMMA SoundCheckpoints ==
    ASSUME graph \in Graph
    PROVE  /\ Sound(Failure) /\ Failure.next = "fail"
           /\ To("end").next = "end" /\ Sound(To("end"))
           /\ ~graph.failure =>
                 \A node : /\ Routed(node) = To(node)
                           /\ To(node).next = node /\ Sound(To(node))
  BY DEF Graph, To, Routed, Failure, Sound

\* Every step of the graph stays on the course.
LEMMA NodeRuns ==
    ASSUME TypeOK, PhaseInv, StartInv, NEW r \in Requests, LegInv(r), LegCourse(r),
           Sound(graph),
           leg[r].at \notin Midway => Stands(graph.next, fsm, kept, outcome, Closing),
           Node(r)
    PROVE  Runs(r)
  <1> USE DEF On
  <1>g. graph \in Graph
    BY DEF TypeOK
  <1>o. ASSUME leg[r].at \notin Midway, graph.next \notin {"done", "fail", "end"}
        PROVE  /\ ~graph.failure /\ ~kept /\ outcome = "none"
               /\ fsm \in StatesAt(graph.next)
               /\ \A to, f : to \notin {"done", "end"} /\ f \in StatesAt(to) =>
                                Stands(to, f, kept, outcome, Closing)
    <2>1. Stands(graph.next, fsm, kept, outcome, Closing)
      BY <1>o
    <2> QED
      BY <1>o, <2>1 DEF Stands, Sound
  <1>s. ASSUME ~graph.failure, NEW node
        PROVE  Routed(node) = To(node) /\ To(node).next = node /\ Sound(To(node))
    BY <1>g, <1>s, SoundCheckpoints
  <1>f. /\ Sound(Failure) /\ Failure.next = "fail"
        /\ To("end").next = "end" /\ Sound(To("end"))
    BY <1>g, SoundCheckpoints
  <1>m. "run" \notin Midway /\ "work" \notin Midway /\ "spawned" \notin Midway
    BY DEF Midway
  <1>fail. ASSUME leg[r].at \notin Midway, graph.next \notin {"done", "fail", "end"},
                  fsm \in {"face_check", "need_input", "awaiting_approval"},
                  Advance(r, Failure)
           PROVE  Runs(r)
    <2>1. Stands(Failure.next, fsm, kept, outcome, Closing)
      BY <1>fail, <1>o, <1>f DEF StatesAt
    <2> QED
      BY <1>fail, <1>f, <2>1, AdvanceRuns
  <1>to. ASSUME leg[r].at \notin Midway, graph.next \notin {"done", "fail", "end"},
                NEW node, node \notin {"done", "end"}, fsm \in StatesAt(node),
                Advance(r, Routed(node)) \/ Advance(r, To(node))
         PROVE  Runs(r)
    <2>1. Routed(node) = To(node) /\ To(node).next = node /\ Sound(To(node))
      BY <1>to, <1>o, <1>s
    <2>2. Stands(To(node).next, fsm, kept, outcome, Closing)
      BY <1>to, <1>o, <2>1
    <2>3. Advance(r, To(node))
      BY <1>to, <2>1
    <2> QED
      BY <2>1, <2>2, <2>3, AdvanceRuns
  <1>1. CASE Begin(r)
    <2>1. /\ leg[r].at = "spawned" /\ leg'[r].at = "run"
          /\ UNCHANGED <<fsm, kept, outcome, stream>>
      BY <1>1 DEF Begin, TypeOK, Leg
    <2>2. graph'.next = graph.next /\ graph'.failure = graph.failure
      <3>1. CASE Kind[r] = "start"
        <4>1. graph.next = "analyze"
          BY <2>1, <3>1 DEF StartInv, PhaseInv
        <4> QED
          BY <1>1, <1>g, <3>1, <4>1 DEF Begin, To, Graph
      <3>2. CASE Kind[r] # "start"
        BY <1>1, <3>2 DEF Begin
      <3> QED
        BY <3>1, <3>2
    <2>3. Closing' = Closing
      BY <2>1, ClosingSteps
    <2>4. Stands(graph.next, fsm, kept, outcome, Closing)
      BY <2>1, <1>m
    <2> QED
      BY <2>1, <2>2, <2>3, <2>4 DEF Runs, LegCourse, Sound
  <1>2. CASE Commit(r)
    <2>1. leg[r].at = "commit" /\ Advance(r, leg[r].pending)
      BY <1>2 DEF Commit
    <2>2. /\ Stands(leg[r].pending.next, fsm, kept, outcome, Closing)
          /\ Sound(leg[r].pending)
      BY <2>1 DEF LegCourse
    <2> QED
      BY <2>1, <2>2, AdvanceRuns
  <1>3. CASE Ended(r)
    <2>1. /\ leg[r].at = "run" /\ Leave(r, "ended")
          /\ UNCHANGED <<fsm, graph, kept, outcome, stream>>
      BY <1>3 DEF Ended, sessionVars
    <2>2. Stands(graph.next, fsm', kept, outcome, Closing)
      BY <2>1, <1>m
    <2>3. MayLeave(r, "ended")
      BY DEF MayLeave
    <2> QED
      BY <2>1, <2>2, <2>3, LeaveRuns
  <1>4. CASE Analyze(r)
    <2>1. /\ leg[r].at = "run" /\ graph.next = "analyze"
          /\ WriteSession(r, "face_check", To("quality_gate"))
      BY <1>4 DEF Analyze
    <2>2. fsm = "none" /\ ~graph.failure
      BY <2>1, <1>m, <1>o DEF StatesAt
    <2>3. Stands("quality_gate", "face_check", kept, outcome, Closing)
      BY <2>1, <1>m, <1>o DEF StatesAt
    <2>4. To("quality_gate").next = "quality_gate" /\ Sound(To("quality_gate"))
      BY <2>2, <1>s
    <2>5. <<fsm, "face_check">> \in Fsm!Moves
      BY <2>2 DEF Fsm!Moves
    <2> QED
      BY <2>1, <2>3, <2>4, <2>5, WriteRuns
  <1>5. CASE QualityGate(r)
    <2>1. /\ leg[r].at = "run" /\ graph.next = "quality_gate"
          /\ Advance(r, Routed("parse_brief")) \/ Advance(r, Failure)
      BY <1>5 DEF QualityGate
    <2>2. fsm = "face_check"
      BY <2>1, <1>m, <1>o DEF StatesAt
    <2>3. fsm \in StatesAt("parse_brief")
      BY <2>2 DEF StatesAt
    <2> QED
      BY <2>1, <2>2, <2>3, <1>m, <1>fail, <1>to
  <1>6. CASE ReadSession(r) \/ ApproveReads(r)
    <2>1. /\ leg[r].at = "run" /\ UNCHANGED <<fsm, graph, kept, outcome, stream>>
          /\ leg' = [leg EXCEPT ![r] = [At("work") EXCEPT !.copy = fsm]]
      BY <1>6 DEF ReadSession, ApproveReads, sessionVars
    <2>2. leg'[r].at = "work" /\ leg'[r].copy = fsm
      BY <2>1, PlaceOf, InHand DEF TypeOK
    <2>3. Closing' = Closing
      BY <2>1, ClosingSteps
    <2>4. Stands(graph.next, fsm, kept, outcome, Closing)
      BY <2>1, <1>m
    <2> QED
      BY <2>1, <2>2, <2>3, <2>4 DEF Runs, LegCourse
  <1>7. CASE ParseBrief(r)
    <2>1. leg[r].at = "work" /\ graph.next = "parse_brief" /\ leg[r].copy = fsm
      BY <1>7 DEF ParseBrief, LegCourse
    <2>2. PICK question \in Questions :
             WriteSession(r, fsm, [To("extract_inventory") EXCEPT !.question = question])
      BY <1>7, <2>1 DEF ParseBrief
    <2> DEFINE cp == [To("extract_inventory") EXCEPT !.question = question]
    <2>3. ~graph.failure /\ fsm = "face_check"
      BY <2>1, <1>m, <1>o DEF StatesAt
    <2>4. cp.next = "extract_inventory" /\ Sound(cp)
      BY <2>3, <1>g DEF Graph, To, Routed, Sound
    <2>5. Stands("extract_inventory", fsm, kept, outcome, Closing)
      BY <2>1, <2>3, <1>m, <1>o DEF StatesAt
    <2>6. WriteSession(r, fsm, cp)
      BY <2>2
    <2> HIDE DEF cp
    <2>7. Stands(cp.next, fsm, kept, outcome, Closing)
      BY <2>4, <2>5
    <2> QED
      BY <2>4, <2>6, <2>7, WriteRuns
  <1>8. CASE ExtractInventory(r)
    <2>1. /\ leg[r].at = "work" /\ graph.next = "extract_inventory"
          /\ WriteSession(r, fsm, To("ask")) \/ Advance(r, To("ask"))
      BY <1>8 DEF ExtractInventory, LegCourse
    <2>2. ~graph.failure /\ fsm = "face_check"
      BY <2>1, <1>m, <1>o DEF StatesAt
    <2>3. To("ask").next = "ask" /\ Sound(To("ask"))
      BY <2>2, <1>s
    <2>4. fsm \in StatesAt("ask")
      BY <2>2 DEF StatesAt
    <2>5. Stands(To("ask").next, fsm, kept, outcome, Closing)
      BY <2>1, <2>3, <2>4, <1>m, <1>o
    <2> QED
      BY <2>1, <2>3, <2>5, WriteRuns, AdvanceRuns
  <1>9. CASE AskWithoutPreset(r)
    <2>1. leg[r].at = "run" /\ graph.next = "ask" /\ Advance(r, Failure)
      BY <1>9 DEF AskWithoutPreset
    <2>2. fsm \in {"face_check", "need_input"}
      BY <2>1, <1>m, <1>o DEF StatesAt
    <2> QED
      BY <2>1, <2>2, <1>m, <1>fail
  <1>10. CASE AskNobody(r)
    <2>1. leg[r].at = "run" /\ graph.next = "ask" /\ Advance(r, Routed("resolve_constraints"))
      BY <1>10 DEF AskNobody
    <2>2. fsm \in StatesAt("resolve_constraints")
      BY <2>1, <1>m, <1>o DEF StatesAt
    <2> QED
      BY <2>1, <2>2, <1>m, <1>to
  <1>11. CASE AskPauses(r)
    <2>1. /\ leg[r].at = "run" /\ graph.next = "ask" /\ Leave(r, "paused")
          /\ fsm' = "need_input" /\ UNCHANGED <<graph, kept, outcome, stream>>
      BY <1>11 DEF AskPauses
    <2>2. fsm \in {"face_check", "need_input"}
      BY <2>1, <1>m, <1>o DEF StatesAt
    <2>3. fsm' = fsm \/ <<fsm, fsm'>> \in Fsm!Moves
      BY <2>1, <2>2 DEF Fsm!Moves
    <2>4. Stands(graph.next, fsm', kept, outcome, Closing)
      BY <2>1, <1>m, <1>o DEF StatesAt
    <2>5. MayLeave(r, "paused")
      BY DEF MayLeave
    <2> QED
      BY <2>1, <2>3, <2>4, <2>5, LeaveRuns
  <1>12. CASE AskAnswered(r)
    <2> DEFINE cp == Routed("resolve_constraints")
    <2>1. /\ leg[r].at = "run" /\ graph.next = "ask" /\ WriteSession(r, "need_input", cp)
      BY <1>12 DEF AskAnswered
    <2>2. fsm \in {"face_check", "need_input"} /\ ~graph.failure
      BY <2>1, <1>m, <1>o DEF StatesAt
    <2>3. "need_input" = fsm \/ <<fsm, "need_input">> \in Fsm!Moves
      BY <2>2 DEF Fsm!Moves
    <2>4. cp.next = "resolve_constraints" /\ Sound(cp)
      BY <2>2, <1>s
    <2>5. Stands("resolve_constraints", "need_input", kept, outcome, Closing)
      BY <2>1, <1>m, <1>o DEF StatesAt
    <2> HIDE DEF cp
    <2>6. Stands(cp.next, "need_input", kept, outcome, Closing)
      BY <2>4, <2>5
    <2> QED
      BY <2>1, <2>3, <2>4, <2>6, WriteRuns
  <1>13. CASE ResolveAccepts(r)
    <2> DEFINE cp == [Routed("plan_steps") EXCEPT !.reask = FALSE]
    <2>1. /\ leg[r].at = "run" /\ graph.next = "resolve_constraints"
          /\ WriteSession(r, "planning", cp)
      BY <1>13 DEF ResolveAccepts
    <2>2. fsm \in {"face_check", "need_input"} /\ ~graph.failure
      BY <2>1, <1>m, <1>o DEF StatesAt
    <2>3. <<fsm, "planning">> \in Fsm!Moves
      BY <2>2 DEF Fsm!Moves
    <2>4. cp.next = "plan_steps" /\ Sound(cp)
      BY <2>2, <1>g DEF Graph, To, Routed, Sound
    <2>5. Stands("plan_steps", "planning", kept, outcome, Closing)
      BY <2>1, <1>m, <1>o DEF StatesAt
    <2> HIDE DEF cp
    <2>6. Stands(cp.next, "planning", kept, outcome, Closing)
      BY <2>4, <2>5
    <2> QED
      BY <2>1, <2>3, <2>4, <2>6, WriteRuns
  <1>14. CASE ResolveRejects(r)
    <2> DEFINE cp == [Routed("ask") EXCEPT !.reasks = @ + 1, !.reask = TRUE]
    <2>1. /\ leg[r].at = "run" /\ graph.next = "resolve_constraints"
          /\ Advance(r, Failure) \/ Advance(r, cp)
      BY <1>14 DEF ResolveRejects
    <2>2. fsm \in {"face_check", "need_input"} /\ ~graph.failure
      BY <2>1, <1>m, <1>o DEF StatesAt
    <2>3. cp.next = "ask" /\ Sound(cp)
      BY <2>2, <1>g DEF Graph, To, Routed, Sound
    <2>4. Stands("ask", fsm, kept, outcome, Closing)
      BY <2>1, <2>2, <1>m, <1>o DEF StatesAt
    <2> HIDE DEF cp
    <2>5. Stands(cp.next, fsm, kept, outcome, Closing)
      BY <2>3, <2>4
    <2>6. CASE Advance(r, cp)
      BY <2>3, <2>5, <2>6, AdvanceRuns
    <2> QED
      BY <2>1, <2>2, <2>6, <1>m, <1>fail
  <1>15. CASE PlanSteps(r)
    <2>1. /\ leg[r].at = "run" /\ graph.next = "plan_steps"
          /\ WriteSession(r, "awaiting_approval", To("approve"))
      BY <1>15 DEF PlanSteps
    <2>2. fsm = "planning" /\ ~graph.failure
      BY <2>1, <1>m, <1>o DEF StatesAt
    <2>3. <<fsm, "awaiting_approval">> \in Fsm!Moves
      BY <2>2 DEF Fsm!Moves
    <2>4. To("approve").next = "approve" /\ Sound(To("approve"))
      BY <2>2, <1>s
    <2>5. Stands(To("approve").next, "awaiting_approval", kept, outcome, Closing)
      BY <2>1, <2>4, <1>m, <1>o DEF StatesAt
    <2> QED
      BY <2>1, <2>3, <2>4, <2>5, WriteRuns
  <1>16. CASE ApprovePauses(r)
    <2>1. /\ leg[r].at = "run" /\ Leave(r, "paused")
          /\ UNCHANGED <<fsm, graph, kept, outcome, stream>>
      BY <1>16 DEF ApprovePauses, sessionVars
    <2>2. Stands(graph.next, fsm', kept, outcome, Closing)
      BY <2>1, <1>m
    <2>3. MayLeave(r, "paused")
      BY DEF MayLeave
    <2> QED
      BY <2>1, <2>2, <2>3, LeaveRuns
  <1>17. CASE ApproveRejects(r)
    <2>1. leg[r].at = "run" /\ graph.next = "approve" /\ Advance(r, Failure)
      BY <1>17 DEF ApproveRejects
    <2>2. fsm = "awaiting_approval"
      BY <2>1, <1>m, <1>o DEF StatesAt
    <2> QED
      BY <2>1, <2>2, <1>m, <1>fail
  <1>18. CASE ApproveRaises(r)
    <2>1. /\ leg[r].at = "run" /\ Leave(r, "fault") /\ Kind[r] = "badcomp"
          /\ UNCHANGED <<fsm, graph, kept, outcome, stream>>
      BY <1>18 DEF ApproveRaises, sessionVars
    <2>2. Stands(graph.next, fsm', kept, outcome, Closing)
      BY <2>1, <1>m
    <2>3. MayLeave(r, "fault")
      BY <2>1 DEF MayLeave
    <2> QED
      BY <2>1, <2>2, <2>3, LeaveRuns
  <1>19. CASE ApproveWrites(r)
    <2> DEFINE cp == Routed("generate")
    <2>1. leg[r].at = "work" /\ graph.next = "approve" /\ WriteSession(r, fsm, cp)
      BY <1>19 DEF ApproveWrites, LegCourse
    <2>2. ~graph.failure /\ fsm = "awaiting_approval"
      BY <2>1, <1>m, <1>o DEF StatesAt
    <2>3. cp.next = "generate" /\ Sound(cp)
      BY <2>2, <1>s
    <2>4. Stands("generate", fsm, kept, outcome, Closing)
      BY <2>1, <2>2, <1>m, <1>o DEF StatesAt
    <2> HIDE DEF cp
    <2>5. Stands(cp.next, fsm, kept, outcome, Closing)
      BY <2>3, <2>4
    <2> QED
      BY <2>1, <2>3, <2>5, WriteRuns
  <1>20. CASE GenerateReplays(r)
    <2>1. leg[r].at = "run" /\ graph.next = "generate" /\ outcome # "none"
      BY <1>20 DEF GenerateReplays
    <2> QED
      BY <2>1, <1>m, <1>o
  <1>21. CASE LoopStarts(r)
    <2>1. /\ leg[r].at = "run" /\ graph.next = "generate" /\ fsm' = "generating"
          /\ UNCHANGED <<kept, outcome, graph, stream>>
          /\ leg' = [leg EXCEPT ![r] = At("loop")]
      BY <1>21 DEF LoopStarts
    <2>2. leg'[r].at = "loop"
      BY <2>1, PlaceOf DEF TypeOK
    <2>3. fsm = "awaiting_approval"
      BY <2>1, <1>m, <1>o DEF StatesAt
    <2>4. <<fsm, fsm'>> \in Fsm!Moves
      BY <2>1, <2>3 DEF Fsm!Moves
    <2>5. Stands(graph.next, fsm, kept, outcome, Closing) /\ Closing' = Closing
      BY <2>1, <1>m, ClosingSteps
    <2>6. Counted => Closing = 0
      BY <2>1, <2>5 DEF Stands
    <2> QED
      BY <2>1, <2>2, <2>4, <2>5, <2>6 DEF Runs, LegCourse, Closed, Midway
  <1>22. CASE LoopCheckpoints(r)
    <2>1. /\ leg[r].at = "loop" /\ fsm' = "generating"
          /\ UNCHANGED <<outcome, graph, stream, leg>>
      BY <1>22 DEF LoopCheckpoints
    <2>2. fsm = "generating" /\ Closed(0)
      BY <2>1 DEF LegCourse
    <2>3. Closing' = Closing
      BY <2>1, ClosingSteps
    <2> QED
      BY <2>1, <2>2, <2>3 DEF Runs, LegCourse, Closed, Midway
  <1>23. CASE LoopFinishes(r)
    <2>1. /\ fsm' = IF kept THEN "done" ELSE "failed"
          /\ UNCHANGED <<kept, outcome, graph, stream>>
          /\ leg' = [leg EXCEPT ![r] = At("announce")]
          /\ leg[r].at = "loop" \/ (leg[r].at = "run" /\ graph.next = "generate")
      BY <1>23 DEF LoopFinishes
    <2>2. leg'[r].at = "announce" /\ Closing' = Closing
      BY <2>1, PlaceOf, ClosingSteps DEF TypeOK
    <2>3. CASE leg[r].at = "loop"
      <3>1. fsm = "generating" /\ Closed(0)
        BY <2>3 DEF LegCourse
      <3>2. <<fsm, fsm'>> \in Fsm!Moves
        BY <2>1, <3>1 DEF Fsm!Moves
      <3> QED
        BY <2>1, <2>2, <3>1, <3>2 DEF Runs, LegCourse, Closed, Midway, LoopState
    <2>4. CASE leg[r].at = "run" /\ graph.next = "generate"
      <3>1. fsm = "awaiting_approval" /\ ~kept
        BY <2>4, <1>m, <1>o DEF StatesAt
      <3>2. <<fsm, fsm'>> \in Fsm!Moves
        BY <2>1, <3>1 DEF Fsm!Moves
      <3>3. Stands(graph.next, fsm, kept, outcome, Closing)
        BY <2>4, <1>m
      <3>4. Counted => Closing = 0
        BY <2>4, <3>3 DEF Stands
      <3> QED
        BY <2>1, <2>2, <3>1, <3>2, <3>4 DEF Runs, LegCourse, Closed, Midway, LoopState
    <2> QED
      BY <2>1, <2>3, <2>4
  <1>24. CASE LoopAnnounces(r)
    <2>1. /\ leg[r].at = "announce" /\ Publish(LoopResult)
          /\ UNCHANGED <<fsm, kept, outcome, graph>>
          /\ leg' = [leg EXCEPT ![r] = At("store")]
      BY <1>24 DEF LoopAnnounces
    <2>2. leg'[r].at = "store"
      BY <2>1, PlaceOf DEF TypeOK
    <2>3. fsm = LoopState /\ Closed(0)
      BY <2>1 DEF LegCourse
    <2>4. CASE kept
      <3>1. Closing' = Closing
        BY <2>1, <2>4, ClosingSteps DEF LoopResult
      <3> QED
        BY <2>1, <2>2, <2>3, <2>4, <3>1 DEF Runs, LegCourse, Closed, Midway, LoopState
    <2>5. CASE ~kept
      <3>1. Closing' = Closing + 1
        BY <2>1, <2>5, ClosingSteps DEF LoopResult
      <3> QED
        BY <2>1, <2>2, <2>3, <2>5, <3>1 DEF Runs, LegCourse, Closed, Midway, LoopState
    <2> QED
      BY <2>4, <2>5
  <1>25. CASE LoopStores(r)
    <2> DEFINE cp == AfterLoop(LoopResult)
    <2>1. /\ leg[r].at = "store" /\ UNCHANGED <<fsm, kept, graph, stream>>
          /\ leg' = [leg EXCEPT ![r] = [At("commit") EXCEPT !.pending = cp]]
      BY <1>25 DEF LoopStores
    <2>2. leg'[r].at = "commit" /\ leg'[r].pending = cp
      BY <2>1, PlaceOf, InHand DEF TypeOK
    <2>3. fsm = LoopState /\ Closed(IF kept THEN 0 ELSE 1)
      BY <2>1 DEF LegCourse
    <2>4. ~graph.failure
      BY <2>1 DEF LegInv, Sound
    <2>5. cp.next = (IF kept THEN "done" ELSE "end") /\ Sound(cp)
      BY <2>4, <1>s, <1>f DEF AfterLoop, LoopResult
    <2>6. Closing' = Closing
      BY <2>1, ClosingSteps
    <2> HIDE DEF cp
    <2>7. Stands(cp.next, fsm, kept, outcome', Closing)
      BY <2>3, <2>5 DEF Stands, StatesAt, Closed, LoopState
    <2> QED
      BY <2>1, <2>2, <2>5, <2>6, <2>7 DEF Runs, LegCourse, Midway
  <1>26. CASE Done(r)
    <2> DEFINE cp == To("end")
    <2>1. /\ leg[r].at = "run" /\ graph.next = "done" /\ Publish("done")
          /\ UNCHANGED <<fsm, kept, outcome, graph>>
          /\ leg' = [leg EXCEPT ![r] = [At("commit") EXCEPT !.pending = cp]]
      BY <1>26 DEF Done
    <2>2. leg'[r].at = "commit" /\ leg'[r].pending = cp
      BY <2>1, PlaceOf, InHand DEF TypeOK
    <2>3. Stands("done", fsm, kept, outcome, Closing)
      BY <2>1, <1>m
    <2>4. Closing' = Closing + 1
      BY <2>1, ClosingSteps
    <2>5. cp.next = "end" /\ Sound(cp)
      BY <1>f
    <2> HIDE DEF cp
    <2>6. Stands(cp.next, fsm, kept, outcome, Closing')
      BY <2>3, <2>4, <2>5 DEF Stands, StatesAt
    <2> QED
      BY <2>1, <2>2, <2>5, <2>6 DEF Runs, LegCourse, Midway
  <1>27. CASE Fail(r)
    <2>1. /\ leg[r].at = "run" /\ graph.next = "fail" /\ fsm' = "failed"
          /\ UNCHANGED <<kept, outcome, graph, stream>>
          /\ leg' = [leg EXCEPT ![r] = At("tell")]
      BY <1>27 DEF Fail
    <2>2. leg'[r].at = "tell" /\ Closing' = Closing
      BY <2>1, PlaceOf, ClosingSteps DEF TypeOK
    <2>3. Stands("fail", fsm, kept, outcome, Closing)
      BY <2>1, <1>m
    <2>4. <<fsm, fsm'>> \in Fsm!Moves
      BY <2>1, <2>3 DEF Fsm!Moves, Stands, StatesAt
    <2>5. Counted => Closing = 0
      BY <2>3 DEF Stands
    <2> QED
      BY <2>1, <2>2, <2>4, <2>5 DEF Runs, LegCourse, Midway, Closed
  <1>28. CASE FailPublishes(r)
    <2> DEFINE cp == To("end")
    <2>1. /\ leg[r].at = "tell" /\ Publish("failed")
          /\ UNCHANGED <<fsm, kept, outcome, graph>>
          /\ leg' = [leg EXCEPT ![r] = [At("commit") EXCEPT !.pending = cp]]
      BY <1>28 DEF FailPublishes
    <2>2. leg'[r].at = "commit" /\ leg'[r].pending = cp
      BY <2>1, PlaceOf, InHand DEF TypeOK
    <2>3. fsm = "failed" /\ Closed(0)
      BY <2>1 DEF LegCourse
    <2>4. Closing' = Closing + 1
      BY <2>1, ClosingSteps
    <2>5. cp.next = "end" /\ Sound(cp)
      BY <1>f
    <2> HIDE DEF cp
    <2>6. Stands(cp.next, fsm, kept, outcome, Closing')
      BY <2>3, <2>4, <2>5 DEF Stands, StatesAt, Closed
    <2> QED
      BY <2>1, <2>2, <2>5, <2>6 DEF Runs, LegCourse, Midway
  <1> QED
    BY <1>1, <1>2, <1>3, <1>4, <1>5, <1>6, <1>7, <1>8, <1>9, <1>10, <1>11, <1>12,
       <1>13, <1>14, <1>15, <1>16, <1>17, <1>18, <1>19, <1>20, <1>21, <1>22, <1>23,
       <1>24, <1>25, <1>26, <1>27, <1>28
    DEF Node

\* What a handler or the end of a leg does to the course: nothing, except that a
\* leg is spawned, narrates its pause or is gone.
Aside ==
    /\ UNCHANGED <<fsm, kept, outcome, graph>>
    /\ Counted => Closing' = Closing
    /\ \A q \in Requests :
          \/ leg'[q] = leg[q]
          \/ /\ leg[q].at \notin Midway
             /\ \/ leg'[q].at \in {"spawned", "gone"}
                \/ /\ leg'[q].at = "narrate"
                   /\ leg'[q].exit # "ended" /\ MayLeave(q, leg'[q].exit)

LEMMA AsideKeeps ==
    ASSUME CourseInv, Aside
    PROVE  CourseInv'
  <1>1. /\ Sound(graph) /\ CheckpointAgrees
        /\ \A r \in Requests : LegCourse(r)
    BY DEF CourseInv
  <1>2. /\ UNCHANGED <<fsm, kept, outcome, graph>>
        /\ Counted => Closing' = Closing
    BY DEF Aside
  <1>3. ASSUME NEW node, Stands(node, fsm, kept, outcome, Closing)
        PROVE  Stands(node, fsm', kept', outcome', Closing')
    BY <1>2, <1>3 DEF Stands
  <1>4. CheckpointAgrees'
    <2> SUFFICES ASSUME \A r \in Requests : leg'[r].at \notin Midway
                 PROVE  Stands(graph'.next, fsm', kept', outcome', Closing')
      BY DEF CheckpointAgrees
    <2>1. \A r \in Requests : leg[r].at \notin Midway
      BY DEF Aside
    <2>2. Stands(graph.next, fsm, kept, outcome, Closing)
      BY <1>1, <2>1 DEF CheckpointAgrees
    <2> QED
      BY <1>2, <1>3, <2>2
  <1>5. ASSUME NEW r \in Requests PROVE LegCourse(r)'
    <2>1. LegCourse(r)
      BY <1>1
    <2>2. CASE leg'[r] = leg[r]
      BY <1>2, <1>3, <2>1, <2>2 DEF LegCourse, Closed, LoopState
    <2>3. CASE leg'[r].at \in {"spawned", "gone"}
      BY <2>3 DEF LegCourse
    <2>4. CASE leg'[r].at = "narrate" /\ leg'[r].exit # "ended" /\ MayLeave(r, leg'[r].exit)
      BY <2>4 DEF LegCourse, MayLeave
    <2> QED
      BY <2>2, <2>3, <2>4 DEF Aside
  <1> QED
    BY <1>1, <1>2, <1>4, <1>5 DEF CourseInv, Sound

\* On a calm session every step outside the graph is such a step.
LEMMA OtherAside ==
    ASSUME TypeOK, RunnerAssumption, Calm, StartInv, CourseInv,
           \/ \E r \in Requests : \/ Lookup(r) \/ Handle(r) \/ Wrapup(r)
                                  \/ WallClock(r) \/ Fault(r) \/ ReleaseFails(r)
           \/ \E p \in Procs : Shutdown(p) \/ Crash(p)
           \/ LockExpires
    PROVE  Aside
  <1> USE DEF sessionVars, handlerVars
  <1>l. \A r \in Requests : LegCourse(r)
    BY DEF CourseInv
  <1>c. \A r \in Requests : Kind[r] # "cancel" /\ req[r] \notin {"joining", "writing"}
    BY DEF Calm, StartInv
  <1>m. \A m \in Mishaps : ~Suffer(m)
    BY DEF Calm, Suffer, TypeOK
  <1>1. ASSUME NEW r \in Requests,
               Lookup(r) \/ Check(r) \/ Bounce(r) \/ Accept(r)
        PROVE  Aside
    <2>1. UNCHANGED <<fsm, kept, outcome, graph, stream, leg>>
      BY <1>1 DEF Lookup, Check, Bounce, Accept
    <2> QED
      BY <2>1, ClosingSteps DEF Aside
  <1>2. ASSUME NEW r \in Requests, Spawn(r) PROVE Aside
    <2>1. /\ UNCHANGED <<fsm, kept, outcome, graph, stream>>
          /\ req[r] = "checked" /\ leg' = [leg EXCEPT ![r].at = "spawned"]
      BY <1>2 DEF Spawn
    <2>2. leg[r].at = "off"
      BY <2>1 DEF StartInv
    <2>3. leg'[r].at = "spawned" /\ \A q \in Requests \ {r} : leg'[q] = leg[q]
      BY <2>1 DEF TypeOK, Leg
    <2> QED
      BY <2>1, <2>2, <2>3, ClosingSteps DEF Aside, Midway
  <1>3. ASSUME NEW r \in Requests, CancelTask(r) \/ CancelSession(r) \/ CancelPublish(r)
        PROVE  FALSE
    BY <1>3, <1>c DEF CancelTask, CancelSession, CancelPublish
  <1>4. ASSUME NEW r \in Requests, Release(r) PROVE Aside
    <2> DEFINE place == AfterRelease(leg[r].exit)
    <2>1. /\ UNCHANGED <<fsm, kept, outcome, graph, stream>>
          /\ leg[r].at = "exit" /\ Proceed(r, place)
      BY <1>4 DEF Release
    <2>2. leg'[r].at = place /\ \A q \in Requests \ {r} : leg'[q] = leg[q]
      BY <2>1, ProceedEffect
    <2>3. MayLeave(r, leg[r].exit)
      BY <2>1, <1>l DEF LegCourse, MayLeave
    <2>4. CASE leg[r].exit = "ended"
      <3>1. place = "gone"
        BY <2>4 DEF AfterRelease
      <3> QED
        BY <2>1, <2>2, <3>1, ClosingSteps DEF Aside, Midway
    <2>5. CASE leg[r].exit # "ended"
      <3>1. place = "narrate"
        BY <2>3, <2>5 DEF AfterRelease, MayLeave
      <3>2. leg' = [leg EXCEPT ![r] = [leg[r] EXCEPT !.at = "narrate"]]
        BY <2>1, <3>1 DEF Proceed
      <3>3. leg'[r].exit = leg[r].exit
        BY <3>2 DEF TypeOK, Leg
      <3> QED
        BY <2>1, <2>2, <2>3, <2>5, <3>1, <3>3, ClosingSteps DEF Aside, Midway
    <2> QED
      BY <2>4, <2>5
  <1>5. ASSUME NEW r \in Requests, Narrate(r) PROVE Aside
    <2>1. /\ UNCHANGED <<fsm, kept, outcome, graph>>
          /\ leg[r].at = "narrate" /\ Proceed(r, "gone")
          /\ Publish(IF leg[r].exit = "paused" THEN "need_input" ELSE "failed")
      BY <1>5 DEF Narrate
    <2>2. leg'[r].at = "gone" /\ \A q \in Requests \ {r} : leg'[q] = leg[q]
      BY <2>1, ProceedEffect
    <2>3. leg[r].exit = "paused" \/ ~Counted
      BY <2>1, <1>l DEF LegCourse, GoodPicks, Counted
    <2>4. Counted => Closing' = Closing
      BY <2>1, <2>3, ClosingSteps
    <2> QED
      BY <2>1, <2>2, <2>4 DEF Aside, Midway
  <1>6. ASSUME NEW r \in Requests, FailSession(r) \/ FailSessionPublishes(r)
        PROVE  FALSE
    BY <1>6, <1>l DEF FailSession, FailSessionPublishes, LegCourse
  <1>7. ASSUME NEW r \in Requests, WallClock(r) \/ Fault(r) \/ ReleaseFails(r)
        PROVE  FALSE
    BY <1>7, <1>m DEF WallClock, Fault, ReleaseFails, Mishaps
  <1>8. ASSUME NEW p \in Procs, Shutdown(p) \/ Crash(p) PROVE FALSE
    BY <1>8, <1>m DEF Shutdown, Crash, Mishaps
  <1>9. CASE LockExpires
    <2>1. UNCHANGED <<fsm, kept, outcome, graph, stream, leg>>
      BY <1>9 DEF LockExpires
    <2> QED
      BY <2>1, ClosingSteps DEF Aside
  <1> QED
    BY <1>1, <1>2, <1>3, <1>4, <1>5, <1>6, <1>7, <1>8, <1>9 DEF Handle, Wrapup

\* The course of a calm session, step by step.
LEMMA CourseStep ==
    ASSUME RunnerAssumption, Calm, RunnerInv, GateInv, CourseInv, [Next]_vars
    PROVE  /\ CourseInv'
           /\ fsm' = fsm \/ <<fsm, fsm'>> \in Fsm!Moves
  <1>i. /\ TypeOK /\ DriverHoldsLock /\ PhaseInv /\ StartInv
        /\ \A r \in Requests : LegInv(r)
        /\ Sound(graph) /\ CheckpointAgrees
        /\ \A r \in Requests : LegCourse(r)
    BY DEF RunnerInv, GateInv, CourseInv
  <1>1. ASSUME NEW r \in Requests, Node(r)
        PROVE  CourseInv' /\ (fsm' = fsm \/ <<fsm, fsm'>> \in Fsm!Moves)
    <2>1. NodeEffect(r)
      BY <1>1, <1>i, NodeHasEffect
    <2>2. \A q \in Requests \ {r} : leg'[q] = leg[q] /\ leg[q].at \notin Driving
      BY <2>1, <1>i DEF NodeEffect, DriverHoldsLock, Driving
    <2>3. \A q \in Requests \ {r} : /\ leg'[q] = leg[q] /\ leg[q].at \notin Midway
                                    /\ leg[q].at # "exit" /\ leg[q].at # "work"
      BY <2>2 DEF Midway, Driving, InGraph
    <2>4. leg[r].at \notin Midway => Stands(graph.next, fsm, kept, outcome, Closing)
      BY <2>3, <1>i DEF CheckpointAgrees
    <2>5. Runs(r)
      BY <1>1, <1>i, <2>4, NodeRuns
    <2>6. ASSUME NEW q \in Requests PROVE LegCourse(q)'
      <3>1. CASE q = r
        BY <3>1, <2>5 DEF Runs
      <3>2. CASE q # r
        <4>1. LegCourse(q) /\ leg'[q] = leg[q] /\ leg[q].at \notin Midway
              /\ leg[q].at # "work" /\ leg[q].at # "exit"
          BY <3>2, <2>3, <1>i
        <4> QED
          BY <4>1 DEF LegCourse, Midway
      <3> QED
        BY <3>1, <3>2
    <2>7. CheckpointAgrees'
      BY <2>5 DEF CheckpointAgrees, Runs
    <2> QED
      BY <2>5, <2>6, <2>7 DEF CourseInv, Runs
  <1>2. CASE \/ \E r \in Requests : \/ Lookup(r) \/ Handle(r) \/ Wrapup(r)
                                    \/ WallClock(r) \/ Fault(r) \/ ReleaseFails(r)
             \/ \E p \in Procs : Shutdown(p) \/ Crash(p)
             \/ LockExpires
    <2>1. Aside
      BY <1>2, <1>i, OtherAside
    <2> QED
      BY <2>1, AsideKeeps DEF Aside
  <1>3. CASE UNCHANGED vars
    <2>1. UNCHANGED <<fsm, kept, outcome, graph, stream, leg>>
      BY <1>3 DEF vars, sessionVars
    <2>2. Aside
      BY <2>1, <1>i, ClosingSteps DEF Aside
    <2> QED
      BY <2>1, <2>2, AsideKeeps
  <1> QED
    BY <1>1, <1>2, <1>3 DEF Next

\* On a calm session the record and the checkpoint agree between any two nodes.
LEMMA CourseInvariant == Calm => (Spec => []CourseInv)
  <1> SUFFICES ASSUME Calm PROVE Spec => []CourseInv
    OBVIOUS
  <1>1. Init => CourseInv
    <2> SUFFICES ASSUME Init PROVE CourseInv
      OBVIOUS
    <2>1. \A r \in Requests : leg[r].at = "off"
      BY DEF Init, NoLeg
    <2>2. Closing = 0
      <3>1. {i \in 1..Len(stream) : stream[i] = "done"} = {}
            /\ {i \in 1..Len(stream) : stream[i] = "failed"} = {}
        BY DEF Init
      <3>2. Count("done") = 0 /\ Count("failed") = 0
        BY <3>1, FS_EmptySet DEF Count
      <3> QED
        BY <3>2 DEF Closing
    <2>3. Sound(graph) /\ Stands(graph.next, fsm, kept, outcome, Closing)
      BY <2>2 DEF Init, NewThread, Sound, Stands, StatesAt
    <2>4. \A r \in Requests : LegCourse(r)
      BY <2>1 DEF LegCourse
    <2> QED
      BY <2>3, <2>4 DEF CourseInv, CheckpointAgrees
  <1>2. RunnerInv /\ GateInv /\ CourseInv /\ [Next]_vars => CourseInv'
    BY CourseStep, RunnerAssumption
  <1>3. StartsApart
    BY DEF Calm
  <1>4. Spec => []GateInv
    BY <1>3, GateInvariant
  <1> QED
    BY <1>1, <1>2, <1>4, RunnerInvariant, PTL DEF Spec

\* fsm_state moves along the edges of SessionFsm, whatever answers and decisions
\* are sent twice, too late or against each other, as long as no two
\* starts race, nobody cancels and nothing fails.  (A cancel may be overwritten
\* by a leg on another process, and a fault leaves a checkpoint behind its record.)
THEOREM ImplementsFsm == Calm => (Spec => FsmSpec)
  <1> SUFFICES ASSUME Calm PROVE Spec => FsmSpec
    OBVIOUS
  <1>1. Init => Fsm!Init
    BY DEF Init, Fsm!Init
  <1>2. RunnerInv /\ GateInv /\ CourseInv /\ [Next]_vars => [Fsm!Step]_fsm
    <2> SUFFICES ASSUME RunnerInv, GateInv, CourseInv, [Next]_vars
                 PROVE  fsm' = fsm \/ Fsm!Step
      OBVIOUS
    <2>1. fsm' = fsm \/ <<fsm, fsm'>> \in Fsm!Moves
      BY CourseStep, RunnerAssumption
    <2> QED
      BY <2>1 DEF Fsm!Step
  <1>3. Spec => []GateInv
    BY GateInvariant DEF Calm
  <1>4. Spec => []CourseInv
    BY CourseInvariant
  <1> QED
    BY <1>1, <1>2, <1>3, <1>4, RunnerInvariant, PTL DEF Spec, FsmSpec, Fsm!Spec

\* _route_generate's "exactly one terminal event per session": on a calm session
\* whose client picks compositions it was offered, the stream is closed at most
\* once, although the loop, the fail node and the done node each can close it.
THEOREM SingleEnd == Calm /\ GoodPicks => (Spec => []OneTerminalEvent)
  <1> SUFFICES ASSUME Calm, GoodPicks PROVE Spec => []OneTerminalEvent
    OBVIOUS
  <1>1. CourseInv => OneTerminalEvent
    <2> SUFFICES ASSUME CourseInv PROVE Closing <= 1
      BY DEF OneTerminalEvent, Closing
    <2>c. Counted
      BY DEF Calm, Counted, Mishaps
    <2>1. CASE \A r \in Requests : leg[r].at \notin Midway
      BY <2>1, <2>c DEF CourseInv, CheckpointAgrees, Stands
    <2>2. ASSUME NEW r \in Requests, leg[r].at \in Midway PROVE Closing <= 1
      <3>1. LegCourse(r)
        BY DEF CourseInv
      <3> QED
        BY <2>2, <2>c, <3>1 DEF LegCourse, Midway, Stands, Closed
    <2> QED
      BY <2>1, <2>2
  <1> QED
    BY <1>1, CourseInvariant, PTL

-----------------------------------------------------------------------------
(* A client that answers in turn, and a wall clock.                        *)

\* The client sends one request after the other, does not cancel, and picks
\* compositions it was offered.  Any mishap may happen.
InTurn ==
    /\ SerialClient
    /\ GoodPicks
    /\ \A r \in Requests : Kind[r] # "cancel"

Results == Count("result")
LastEvent == IF stream = <<>> THEN "none" ELSE stream[Len(stream)]

\* The stream says what the stored state expects.
Told ==
    CASE fsm = "none" -> \/ LastEvent = "none"
                         \/ LastEvent = "failed" /\ mishaps["timeout"] > 0
      [] fsm \in Waiting -> LastEvent = "need_input"
      [] fsm = "done" -> LastEvent = "done" /\ Results = 1
      [] fsm = "failed" -> LastEvent = "failed"
      [] OTHER -> FALSE

\* The session waits for its start, an answer or a decision, and the graph is
\* where the next leg has to go on.
Parked ==
    /\ fsm \in Waiting \cup {"none"}
    /\ Sound(graph)
    /\ Stands(graph.next, fsm, kept, outcome, Closing)
    /\ Results = 0

\* The leg of r has only the end of the graph before it.
AtEnd(r) ==
    \/ leg[r].at = "run" /\ graph.next = "end"
    \/ leg[r].at = "commit" /\ leg[r].pending.next = "end"

\* The leg of r in the graph: it keeps the course, the result is out as soon as
\* it is announced, and the closing event is the last one and fits the state.
InGraphTale(r) ==
    /\ LegCourse(r) /\ Sound(graph)
    /\ leg[r].at \notin Midway => Stands(graph.next, fsm, kept, outcome, Closing)
    /\ Results = IF fsm = "done" /\ leg[r].at # "announce" THEN 1 ELSE 0
    /\ AtEnd(r) => LastEvent = fsm
    /\ leg[r].at = "store" /\ ~kept => LastEvent = "failed"

\* The wall clock has struck; before the first record it left the session as it
\* was before its start.
Struck ==
    /\ mishaps["timeout"] > 0
    /\ ~Counted
    /\ fsm = "none" => Parked

LegTale(r) ==
    /\ leg[r].at = "spawned" => Parked
    /\ leg[r].at \in InGraph => InGraphTale(r)
    /\ leg[r].at = "exit" =>
          \/ leg[r].exit = "timeout" /\ Struck
          \/ leg[r].exit = "ended" /\ Told /\ fsm \in {"done", "failed"}
          \/ leg[r].exit = "paused" /\ Parked /\ fsm \in Waiting
    /\ leg[r].at = "narrate" => leg[r].exit = "paused" /\ Parked /\ fsm \in Waiting
    /\ leg[r].at \in {"expire", "obituary"} => Struck
    /\ leg[r].at = "obituary" => fsm \in {"failed", "none"}

\* Between two legs the stream has told everything, and a session that is not
\* over is parked.
AtRest == Told /\ (Parked \/ fsm \in {"done", "failed"})

\* The inductive invariant, up to the first fault or death: who has passed the
\* check is still admitted, and each leg has told what it wrote or is about to.
TaleInv ==
    Unbroken =>
        /\ \A r \in Requests : req[r] = "checked" => Admits(Kind[r], fsm)
        /\ (\A r \in Requests : ~Active(r)) => AtRest
        /\ \A r \in Requests : LegTale(r)

\* What an event adds to the stream.
LEMMA StreamSteps ==
    ASSUME TypeOK
    PROVE  /\ Results \in Nat
           /\ stream' = stream => Results' = Results /\ LastEvent' = LastEvent
           /\ \A event \in {"need_input", "result", "done", "failed"} :
                 Publish(event) =>
                    /\ LastEvent' = event
                    /\ Results' = Results + (IF event = "result" THEN 1 ELSE 0)
  <1> DEFINE E == {"need_input", "result", "done", "failed"}
  <1>1. stream \in Seq(E)
    BY DEF TypeOK
  <1>2. /\ Results = Cardinality(Marks(stream, "result"))
        /\ Results' = Cardinality(Marks(stream', "result"))
    BY DEF Results, Count, Marks
  <1>3. Results \in Nat
    <2>1. "done" \in E
      OBVIOUS
    <2> QED
      BY <1>1, <1>2, <2>1, MarksAppend
  <1>4. stream' = stream => Results' = Results /\ LastEvent' = LastEvent
    BY <1>2 DEF LastEvent
  <1>5. ASSUME NEW event \in E, Publish(event)
        PROVE  /\ LastEvent' = event
               /\ Results' = Results + (IF event = "result" THEN 1 ELSE 0)
    <2>1. stream' = Append(stream, event)
      BY <1>5 DEF Publish
    <2>2. Results' = Results + (IF event = "result" THEN 1 ELSE 0)
      <3> HIDE DEF E
      <3> QED
        BY <1>1, <1>2, <2>1, MarksAppend
    <2>3. stream' # <<>> /\ stream'[Len(stream')] = event
      <3> HIDE DEF E
      <3> QED
        BY <1>1, <2>1
    <2> QED
      BY <2>2, <2>3 DEF LastEvent
  <1> QED
    BY <1>3, <1>4, <1>5

\* A step in the graph that publishes nothing and does not lead to its end.
LEMMA QuietTells ==
    ASSUME TypeOK, TypeOK', NEW r \in Requests, Runs(r), stream' = stream, Results = 0,
           leg'[r].at \in InGraph \ {"store"},
           leg'[r].at \notin Midway => graph'.next \notin {"done", "end"},
           leg'[r].at = "commit" => leg'[r].pending.next \notin {"done", "end"}
    PROVE  LegTale(r)'
  <1>1. Results' = 0
    BY StreamSteps
  <1>2. /\ Sound(graph') /\ LegCourse(r)'
        /\ leg'[r].at \notin Midway => Stands(graph'.next, fsm', kept', outcome', Closing')
    BY DEF Runs
  <1>3. ~AtEnd(r)'
    BY DEF AtEnd, Midway
  <1>4. /\ \A node \in Nodes \ {"done", "end"} : "done" \notin StatesAt(node)
        /\ graph'.next \in Nodes /\ leg'[r].pending.next \in Nodes
    BY DEF StatesAt, Nodes, TypeOK, Graph, Leg
  <1>5. fsm' # "done" \/ leg'[r].at = "announce"
    <2>1. CASE leg'[r].at \notin Midway
      BY <1>2, <1>4, <2>1 DEF Stands
    <2>2. CASE leg'[r].at = "commit"
      BY <1>2, <1>4, <2>2 DEF LegCourse, Stands
    <2>3. CASE leg'[r].at \in {"loop", "tell"}
      BY <1>2, <2>3 DEF LegCourse
    <2> QED
      BY <2>1, <2>2, <2>3 DEF Midway
  <1>6. InGraphTale(r)'
    BY <1>1, <1>2, <1>3, <1>5 DEF InGraphTale
  <1> QED
    BY <1>6 DEF LegTale, InGraph

\* Every step of the graph goes on with the tale.
LEMMA NodeTells ==
    ASSUME TypeOK, PhaseInv, StartInv, NEW r \in Requests, LegInv(r), LegTale(r),
           Kind[r] # "badcomp", Node(r)
    PROVE  LegTale(r)'
  <1> USE DEF On
  <1>g. graph \in Graph /\ TypeOK'
    BY NodeType, RunnerAssumption DEF TypeOK
  <1>a. leg[r].at \in InGraph \cup {"spawned"}
    BY NodeHasEffect DEF NodeEffect
  <1>p. /\ "run" \in InGraph \ Midway /\ "work" \in InGraph \ Midway
        /\ {"commit", "loop", "announce", "store", "tell"} \subseteq InGraph \cap Midway
        /\ "spawned" \notin Midway \cup InGraph
        /\ "exit" \notin Midway \cup InGraph
    BY DEF InGraph, Midway
  <1>t. leg[r].at # "spawned" => InGraphTale(r)
    BY <1>a DEF LegTale
  <1>c. /\ LegCourse(r) /\ Sound(graph)
        /\ leg[r].at \notin Midway => Stands(graph.next, fsm, kept, outcome, Closing)
    <2>1. CASE leg[r].at = "spawned"
      BY <2>1 DEF LegTale, Parked, LegCourse
    <2>2. CASE leg[r].at # "spawned"
      BY <2>2, <1>t DEF InGraphTale
    <2> QED
      BY <2>1, <2>2
  <1>r. Runs(r)
    BY <1>c, NodeRuns
  <1>n. /\ \A node : To(node).next = node
        /\ \A node : Routed(node).next \in {node, "fail"}
        /\ Failure.next = "fail"
        /\ \A node, question : [To(node) EXCEPT !.question = question].next = node
        /\ \A node : [Routed(node) EXCEPT !.reask = FALSE].next \in {node, "fail"}
        /\ \A node : [Routed(node) EXCEPT !.reasks = @ + 1, !.reask = TRUE].next
                           \in {node, "fail"}
    BY <1>g, NextOf
  <1>z. ASSUME leg[r].at \in {"run", "work"}, graph.next \notin {"done", "end"}
        PROVE  Results = 0 /\ fsm \in StatesAt(graph.next) /\ outcome = "none"
    <2>1. InGraphTale(r) /\ Stands(graph.next, fsm, kept, outcome, Closing)
      BY <1>z, <1>t, <1>c, <1>p
    <2>2. fsm # "done"
      BY <1>z, <1>g, <2>1 DEF Stands, StatesAt, Graph, Nodes
    <2> QED
      BY <1>z, <2>1, <2>2 DEF InGraphTale, Stands
  <1>adv. ASSUME NEW checkpoint, Advance(r, checkpoint), Results = 0,
                 checkpoint.next \notin {"done", "end"}
          PROVE  LegTale(r)'
    <2>1. leg'[r].at = "run" /\ graph' = checkpoint /\ stream' = stream
      BY <1>adv, PlaceOf DEF Advance, TypeOK
    <2> QED
      BY <2>1, <1>adv, <1>g, <1>r, <1>p, QuietTells
  <1>wri. ASSUME NEW state, NEW checkpoint, WriteSession(r, state, checkpoint),
                 Results = 0, checkpoint.next \notin {"done", "end"}
          PROVE  LegTale(r)'
    <2>1. leg'[r].at = "commit" /\ leg'[r].pending = checkpoint /\ stream' = stream
      BY <1>wri, PlaceOf, InHand DEF WriteSession, TypeOK
    <2> QED
      BY <2>1, <1>wri, <1>g, <1>r, <1>p, QuietTells
  <1>put. ASSUME NEW place \in {"loop", "announce", "tell"}, Results = 0, stream' = stream,
                 leg' = [leg EXCEPT ![r] = At(place)]
          PROVE  LegTale(r)'
    <2>1. leg'[r].at = place
      BY <1>put, PlaceOf DEF TypeOK
    <2> QED
      BY <2>1, <1>put, <1>g, <1>r, <1>p, QuietTells
  <1>1. CASE Begin(r)
    <2>1. /\ leg[r].at = "spawned" /\ leg'[r].at = "run" /\ stream' = stream
          /\ graph' = IF Kind[r] = "start" THEN To("analyze") ELSE graph
      BY <1>1 DEF Begin, TypeOK, Leg
    <2>2. Parked
      BY <2>1 DEF LegTale
    <2>3. graph.next \notin {"done", "end"}
      BY <2>2 DEF Parked, Stands, StatesAt, Waiting
    <2>4. graph'.next \notin {"done", "end"}
      BY <2>1, <2>3, <1>n
    <2> QED
      BY <2>1, <2>2, <2>4, <1>g, <1>r, <1>p, QuietTells DEF Parked
  <1>2. CASE Commit(r)
    <2>1. /\ leg[r].at = "commit" /\ leg'[r].at = "run" /\ graph' = leg[r].pending
          /\ UNCHANGED <<fsm, kept, outcome, stream>>
      BY <1>2, PlaceOf DEF Commit, Advance, TypeOK
    <2>2. InGraphTale(r)
      BY <2>1, <1>t
    <2>3. Results' = Results /\ LastEvent' = LastEvent
      BY <2>1, StreamSteps
    <2>4. AtEnd(r)' => AtEnd(r)
      BY <2>1 DEF AtEnd
    <2>5. InGraphTale(r)'
      BY <2>1, <2>2, <2>3, <2>4, <1>r, <1>p DEF InGraphTale, Runs
    <2> QED
      BY <2>1, <2>5 DEF LegTale
  <1>3. CASE Ended(r)
    <2>1. /\ leg[r].at = "run" /\ graph.next = "end" /\ Leave(r, "ended")
          /\ UNCHANGED <<fsm, graph, kept, outcome, stream>>
      BY <1>3 DEF Ended, sessionVars
    <2>2. leg'[r].at = "exit" /\ leg'[r].exit = "ended"
      BY <2>1, PlaceOf DEF Leave, TypeOK, At, NoLeg
    <2>3. InGraphTale(r) /\ Stands("end", fsm, kept, outcome, Closing)
      BY <2>1, <1>t, <1>c, <1>p
    <2>4. fsm \in {"done", "failed"} /\ LastEvent = fsm /\ (fsm = "done" => Results = 1)
      BY <2>1, <2>3 DEF InGraphTale, AtEnd, Stands, StatesAt
    <2>5. Results' = Results /\ LastEvent' = LastEvent
      BY <2>1, StreamSteps
    <2>6. Told'
      BY <2>1, <2>4, <2>5 DEF Told, Waiting
    <2> QED
      BY <2>1, <2>2, <2>4, <2>6, <1>p DEF LegTale
  <1>4. CASE Analyze(r)
    <2>1. /\ leg[r].at = "run" /\ graph.next = "analyze"
          /\ WriteSession(r, "face_check", To("quality_gate"))
      BY <1>4 DEF Analyze
    <2> QED
      BY <2>1, <1>z, <1>n, <1>wri
  <1>5. CASE QualityGate(r)
    <2>1. /\ leg[r].at = "run" /\ graph.next = "quality_gate"
          /\ Advance(r, Routed("parse_brief")) \/ Advance(r, Failure)
      BY <1>5 DEF QualityGate
    <2>2. Routed("parse_brief").next \notin {"done", "end"} /\ Failure.next = "fail"
      BY <1>n
    <2> QED
      BY <2>1, <2>2, <1>z, <1>adv
  <1>6. CASE ReadSession(r) \/ ApproveReads(r)
    <2>1. /\ leg[r].at = "run" /\ UNCHANGED <<graph, stream>>
          /\ graph.next \in {"parse_brief", "extract_inventory", "approve"}
          /\ leg' = [leg EXCEPT ![r] = [At("work") EXCEPT !.copy = fsm]]
      BY <1>6 DEF ReadSession, ApproveReads, sessionVars
    <2>2. leg'[r].at = "work"
      BY <2>1, PlaceOf DEF TypeOK
    <2> QED
      BY <2>1, <2>2, <1>z, <1>g, <1>r, <1>p, QuietTells
  <1>7. CASE ParseBrief(r)
    <2>1. leg[r].at = "work" /\ graph.next = "parse_brief"
      BY <1>7 DEF ParseBrief
    <2>2. PICK question \in Questions :
             WriteSession(r, leg[r].copy,
                          [To("extract_inventory") EXCEPT !.question = question])
      BY <1>7 DEF ParseBrief
    <2>3. [To("extract_inventory") EXCEPT !.question = question].next \notin {"done", "end"}
      BY <1>n
    <2> QED
      BY <2>1, <2>2, <2>3, <1>z, <1>wri
  <1>8. CASE ExtractInventory(r)
    <2>1. /\ leg[r].at = "work" /\ graph.next = "extract_inventory"
          /\ WriteSession(r, leg[r].copy, To("ask")) \/ Advance(r, To("ask"))
      BY <1>8 DEF ExtractInventory
    <2>2. To("ask").next \notin {"done", "end"}
      BY <1>n
    <2> QED
      BY <2>1, <2>2, <1>z, <1>adv, <1>wri
  <1>9. CASE AskWithoutPreset(r) \/ ApproveRejects(r)
    <2>1. leg[r].at = "run" /\ graph.next \in {"ask", "approve"} /\ Advance(r, Failure)
      BY <1>9 DEF AskWithoutPreset, ApproveRejects
    <2> QED
      BY <2>1, <1>z, <1>n, <1>adv
  <1>10. CASE AskNobody(r)
    <2>1. leg[r].at = "run" /\ graph.next = "ask" /\ Advance(r, Routed("resolve_constraints"))
      BY <1>10 DEF AskNobody
    <2>2. Routed("resolve_constraints").next \notin {"done", "end"}
      BY <1>n
    <2> QED
      BY <2>1, <2>2, <1>z, <1>adv
  <1>11. CASE AskPauses(r) \/ ApprovePauses(r)
    <2>1. /\ leg[r].at = "run" /\ graph.next \in {"ask", "approve"} /\ Leave(r, "paused")
          /\ fsm' = (IF graph.next = "ask" THEN "need_input" ELSE fsm)
          /\ stream' = stream
      BY <1>11 DEF AskPauses, ApprovePauses, sessionVars
    <2>2. leg'[r].at = "exit" /\ leg'[r].exit = "paused"
      BY <2>1, PlaceOf DEF Leave, TypeOK, At, NoLeg
    <2>3. Results = 0 /\ fsm \in StatesAt(graph.next)
      BY <2>1, <1>z
    <2>4. fsm' \in Waiting
      BY <2>1, <2>3 DEF StatesAt, Waiting
    <2>5. Results' = 0
      BY <2>1, <2>3, StreamSteps
    <2>6. Parked'
      BY <2>2, <2>4, <2>5, <1>r, <1>p DEF Parked, Runs
    <2> QED
      BY <2>2, <2>4, <2>6, <1>p DEF LegTale
  <1>12. CASE AskAnswered(r)
    <2>1. /\ leg[r].at = "run" /\ graph.next = "ask"
          /\ WriteSession(r, "need_input", Routed("resolve_constraints"))
      BY <1>12 DEF AskAnswered
    <2>2. Routed("resolve_constraints").next \notin {"done", "end"}
      BY <1>n
    <2> QED
      BY <2>1, <2>2, <1>z, <1>wri
  <1>13. CASE ResolveAccepts(r)
    <2>1. /\ leg[r].at = "run" /\ graph.next = "resolve_constraints"
          /\ WriteSession(r, "planning", [Routed("plan_steps") EXCEPT !.reask = FALSE])
      BY <1>13 DEF ResolveAccepts
    <2>2. [Routed("plan_steps") EXCEPT !.reask = FALSE].next \notin {"done", "end"}
      BY <1>n
    <2> QED
      BY <2>1, <2>2, <1>z, <1>wri
  <1>14. CASE ResolveRejects(r)
    <2> DEFINE cp == [Routed("ask") EXCEPT !.reasks = @ + 1, !.reask = TRUE]
    <2>1. /\ leg[r].at = "run" /\ graph.next = "resolve_constraints"
          /\ Advance(r, Failure) \/ Advance(r, cp)
      BY <1>14 DEF ResolveRejects
    <2>2. cp.next \notin {"done", "end"} /\ Failure.next = "fail"
      BY <1>n
    <2> HIDE DEF cp
    <2> QED
      BY <2>1, <2>2, <1>z, <1>adv
  <1>15. CASE PlanSteps(r)
    <2>1. /\ leg[r].at = "run" /\ graph.next = "plan_steps"
          /\ WriteSession(r, "awaiting_approval", To("approve"))
      BY <1>15 DEF PlanSteps
    <2> QED
      BY <2>1, <1>z, <1>n, <1>wri
  <1>16. CASE ApproveRaises(r)
    BY <1>16 DEF ApproveRaises
  <1>17. CASE ApproveWrites(r)
    <2>1. /\ leg[r].at = "work" /\ graph.next = "approve"
          /\ WriteSession(r, leg[r].copy, Routed("generate"))
      BY <1>17 DEF ApproveWrites
    <2>2. Routed("generate").next \notin {"done", "end"}
      BY <1>n
    <2> QED
      BY <2>1, <2>2, <1>z, <1>wri
  <1>18. CASE GenerateReplays(r)
    BY <1>18, <1>z DEF GenerateReplays
  <1>19. CASE LoopStarts(r) \/ Fail(r)
    <2>1. PICK place \in {"loop", "tell"} : leg' = [leg EXCEPT ![r] = At(place)]
      BY <1>19 DEF LoopStarts, Fail
    <2>2. leg[r].at = "run" /\ graph.next \in {"generate", "fail"} /\ stream' = stream
      BY <1>19 DEF LoopStarts, Fail
    <2> QED
      BY <2>1, <2>2, <1>z, <1>put
  <1>20. CASE LoopCheckpoints(r)
    <2>1. leg[r].at = "loop" /\ leg' = leg /\ stream' = stream
      BY <1>20 DEF LoopCheckpoints
    <2>2. Results = 0
      BY <2>1, <1>t DEF InGraphTale, LegCourse
    <2> QED
      BY <2>1, <2>2, <1>g, <1>r, <1>p, QuietTells
  <1>21. CASE LoopFinishes(r)
    <2>1. /\ leg' = [leg EXCEPT ![r] = At("announce")] /\ stream' = stream
          /\ leg[r].at = "loop" \/ (leg[r].at = "run" /\ graph.next = "generate")
      BY <1>21 DEF LoopFinishes
    <2>2. Results = 0
      BY <2>1, <1>t, <1>z DEF InGraphTale, LegCourse
    <2> QED
      BY <2>1, <2>2, <1>put
  <1>22. CASE LoopAnnounces(r)
    <2>1. /\ leg[r].at = "announce" /\ Publish(LoopResult)
          /\ UNCHANGED <<fsm, kept>> /\ leg' = [leg EXCEPT ![r] = At("store")]
      BY <1>22 DEF LoopAnnounces
    <2>2. leg'[r].at = "store"
      BY <2>1, PlaceOf DEF TypeOK
    <2>3. Results = 0 /\ fsm = IF kept THEN "done" ELSE "failed"
      BY <2>1, <1>t DEF InGraphTale, LegCourse, LoopState
    <2>4. /\ LastEvent' = LoopResult
          /\ Results' = IF kept THEN 1 ELSE 0
      BY <2>1, <2>3, StreamSteps DEF LoopResult
    <2>5. ~AtEnd(r)'
      BY <2>2 DEF AtEnd
    <2>6. InGraphTale(r)'
      BY <2>1, <2>2, <2>3, <2>4, <2>5, <1>r, <1>p DEF InGraphTale, Runs, LoopResult
    <2> QED
      BY <2>2, <2>6 DEF LegTale
  <1>23. CASE LoopStores(r)
    <2> DEFINE cp == AfterLoop(LoopResult)
    <2>1. /\ leg[r].at = "store" /\ UNCHANGED <<fsm, kept, graph, stream>>
          /\ leg' = [leg EXCEPT ![r] = [At("commit") EXCEPT !.pending = cp]]
      BY <1>23 DEF LoopStores
    <2>2. leg'[r].at = "commit" /\ leg'[r].pending = cp
      BY <2>1, PlaceOf, InHand DEF TypeOK
    <2>3. cp.next = IF kept THEN "done" ELSE "end"
      BY <1>n DEF AfterLoop, LoopResult
    <2> HIDE DEF cp
    <2>4. /\ fsm = (IF kept THEN "done" ELSE "failed") /\ Results = IF kept THEN 1 ELSE 0
          /\ ~kept => LastEvent = "failed"
      BY <2>1, <1>t DEF InGraphTale, LegCourse, LoopState
    <2>5. Results' = Results /\ LastEvent' = LastEvent
      BY <2>1, StreamSteps
    <2>6. AtEnd(r)' => ~kept
      BY <2>2, <2>3 DEF AtEnd
    <2>7. InGraphTale(r)'
      BY <2>1, <2>2, <2>4, <2>5, <2>6, <1>r, <1>p DEF InGraphTale, Runs
    <2> QED
      BY <2>2, <2>7 DEF LegTale
  <1>24. CASE Done(r) \/ FailPublishes(r)
    <2> DEFINE cp == To("end")
               event == IF leg[r].at = "tell" THEN "failed" ELSE "done"
    <2>1. /\ leg[r].at = "tell" \/ (leg[r].at = "run" /\ graph.next = "done")
          /\ Publish(event) /\ fsm' = fsm
          /\ leg' = [leg EXCEPT ![r] = [At("commit") EXCEPT !.pending = cp]]
      BY <1>24 DEF Done, FailPublishes
    <2>2. leg'[r].at = "commit"
      BY <2>1, PlaceOf DEF TypeOK
    <2>3. fsm = event /\ Results = IF fsm = "done" THEN 1 ELSE 0
      <3>1. CASE leg[r].at = "tell"
        BY <3>1, <1>t DEF InGraphTale, LegCourse
      <3>2. CASE leg[r].at = "run" /\ graph.next = "done"
        BY <3>2, <1>t, <1>c, <1>p DEF InGraphTale, Stands, StatesAt
      <3> QED
        BY <2>1, <3>1, <3>2
    <2>4. event \in {"need_input", "result", "done", "failed"} /\ event # "result"
      OBVIOUS
    <2> HIDE DEF event, cp
    <2>5. LastEvent' = event /\ Results' = Results
      BY <2>1, <2>3, <2>4, StreamSteps
    <2>6. InGraphTale(r)'
      BY <2>1, <2>2, <2>3, <2>5, <1>r, <1>p DEF InGraphTale, Runs
    <2> QED
      BY <2>2, <2>6 DEF LegTale
  <1> QED
    BY <1>1, <1>2, <1>3, <1>4, <1>5, <1>6, <1>7, <1>8, <1>9, <1>10, <1>11, <1>12,
       <1>13, <1>14, <1>15, <1>16, <1>17, <1>18, <1>19, <1>20, <1>21, <1>22, <1>23,
       <1>24
    DEF Node

\* Where the session is left alone, everything said of it carries over.
LEMMA SameTale ==
    ASSUME TypeOK, UNCHANGED <<fsm, kept, outcome, graph, stream, mishaps>>
    PROVE  /\ Told' = Told
           /\ Parked' = Parked
           /\ Struck' = Struck
           /\ AtRest' = AtRest
           /\ \A q \in Requests : leg'[q] = leg[q] => LegTale(q)' = LegTale(q)
  <1>1. Results' = Results /\ LastEvent' = LastEvent
    BY StreamSteps
  <1>2. Closing' = Closing
    BY DEF Closing, Count
  <1>3. Told' = Told
    BY <1>1 DEF Told
  <1>4. Parked' = Parked
    BY <1>1, <1>2 DEF Parked
  <1>6. Struck' = Struck
    BY <1>4 DEF Struck
  <1>5. ASSUME NEW q \in Requests, leg'[q] = leg[q]
        PROVE  LegTale(q)' = LegTale(q)
    <2>1. LegCourse(q)' = LegCourse(q)
      BY <1>2, <1>5 DEF LegCourse, Closed, LoopState
    <2>2. InGraphTale(q)' = InGraphTale(q)
      BY <1>1, <1>2, <1>5, <2>1 DEF InGraphTale, AtEnd
    <2> QED
      BY <1>3, <1>4, <1>5, <1>6, <2>2 DEF LegTale
  <1> QED
    BY <1>3, <1>4, <1>5, <1>6 DEF AtRest

\* A step of the only leg under way: nobody else has a tale, and nobody stands
\* between the check and the spawn.
LEMMA MoveTells ==
    ASSUME TypeOK, StartInv, OneAtATime, SerialClient, NEW r \in Requests, Active(r),
           \A q \in Requests \ {r} : leg'[q] = leg[q], req' = req,
           LegTale(r)', ~Active(r)' => AtRest'
    PROVE  TaleInv'
  <1>1. ASSUME NEW q \in Requests \ {r} PROVE LegTale(q)'
    <2>1. ~Active(q)
      BY DEF OneAtATime, Busy
    <2>2. leg'[q].at \in {"off", "gone", "dead"}
      BY <2>1 DEF Active, Over
    <2> QED
      BY <2>2 DEF LegTale, InGraph
  <1>2. ASSUME NEW q \in Requests, req'[q] = "checked" PROVE FALSE
    <2>1. q = r
      BY <1>2 DEF OneAtATime, Busy, InHandler
    <2>2. leg[q].at = "off"
      BY <1>2 DEF StartInv
    <2> QED
      BY <2>1, <2>2 DEF Active
  <1> QED
    BY <1>1, <1>2 DEF TaleInv

\* A step that leaves the session, the legs and whoever passed the check alone.
LEMMA IdleTells ==
    ASSUME TypeOK, TaleInv, UNCHANGED <<fsm, kept, outcome, graph, stream, leg, mishaps>>,
           \A q \in Requests : req'[q] = "checked" =>
              req[q] = "checked" \/ Admits(Kind[q], fsm)
    PROVE  TaleInv'
  <1>1. Unbroken' = Unbroken
    BY DEF Unbroken
  <1>2. /\ AtRest' = AtRest
        /\ \A q \in Requests : LegTale(q)' = LegTale(q)
    BY SameTale
  <1>3. \A q \in Requests : Active(q)' = Active(q)
    BY DEF Active
  <1> QED
    BY <1>1, <1>2, <1>3 DEF TaleInv

\* The requests' handlers: who passes the check is admitted, and who is spawned
\* finds a session at rest that is waiting for it.
LEMMA HandlerTells ==
    ASSUME TypeOK, StartInv, OneAtATime, InTurn, TaleInv, NEW r \in Requests,
           Lookup(r) \/ Handle(r)
    PROVE  TaleInv'
  <1> USE DEF sessionVars
  <1>1. CASE Lookup(r) \/ Check(r) \/ Bounce(r) \/ Accept(r)
    <2>1. UNCHANGED <<fsm, kept, outcome, graph, stream, leg, mishaps>>
      BY <1>1 DEF Lookup, Check, Bounce, Accept
    <2>2. \A q \in Requests : req'[q] = "checked" =>
             req[q] = "checked" \/ Admits(Kind[q], fsm)
      BY <1>1 DEF Lookup, Check, Bounce, Accept, TypeOK
    <2> QED
      BY <2>1, <2>2, IdleTells
  <1>2. CASE Spawn(r)
    <2>1. /\ req[r] = "checked" /\ Kind[r] # "cancel"
          /\ UNCHANGED <<fsm, kept, outcome, graph, stream, mishaps>>
          /\ \A q \in Requests \ {r} : leg'[q] = leg[q] /\ req'[q] = req[q]
          /\ leg'[r].at = "spawned" /\ req'[r] = "spawned"
      BY <1>2 DEF Spawn, TypeOK, Leg
    <2>2. \A q \in Requests \ {r} : ~Active(q) /\ req[q] # "checked"
      BY <2>1 DEF OneAtATime, Busy, InHandler, InTurn
    <2>3. leg[r].at = "off"
      BY <2>1 DEF StartInv
    <2>4. \A q \in Requests : ~Active(q)
      BY <2>2, <2>3 DEF Active
    <2> SUFFICES ASSUME Unbroken' PROVE TaleInv'
      BY DEF TaleInv
    <2>5. Unbroken
      BY <2>1 DEF Unbroken
    <2>6. AtRest /\ Admits(Kind[r], fsm)
      BY <2>1, <2>4, <2>5 DEF TaleInv
    <2>7. fsm \in Waiting \cup {"none"}
      BY <2>1, <2>6, RunnerAssumption DEF Admits, Waiting, Kinds
    <2>8. Parked'
      BY <2>1, <2>6, <2>7, SameTale DEF AtRest, Waiting
    <2>9. LegTale(r)'
      BY <2>1, <2>8 DEF LegTale, InGraph
    <2>10. \A q \in Requests \ {r} : LegTale(q)'
      BY <2>1, <2>5, SameTale DEF TaleInv
    <2>11. Active(r)'
      BY <2>1 DEF Active, Over
    <2>12. \A q \in Requests : req'[q] # "checked"
      BY <2>1, <2>2
    <2> QED
      BY <2>9, <2>10, <2>11, <2>12 DEF TaleInv
  <1>3. CASE CancelTask(r)
    BY <1>3 DEF CancelTask, InTurn
  <1>4. CASE CancelSession(r)
    BY <1>4 DEF CancelSession, StartInv, InTurn
  <1>5. CASE CancelPublish(r)
    BY <1>5 DEF CancelPublish, StartInv, InTurn
  <1> QED
    BY <1>1, <1>2, <1>3, <1>4, <1>5 DEF Handle

\* A leg that is reaped, or goes on with what it left with.
LEMMA ProceedTo ==
    ASSUME TypeOK, NEW r \in Requests, NEW place, Proceed(r, place)
    PROVE  /\ leg'[r].at = place
           /\ place # "gone" => leg'[r].exit = leg[r].exit
           /\ \A q \in Requests \ {r} : leg'[q] = leg[q]
  BY PlaceOf DEF Proceed, TypeOK, Leg

\* After the graph: the question is published behind its state, and so is the
\* failure the wall clock leaves.
LEMMA WrapupTells ==
    ASSUME TypeOK, StartInv, OneAtATime, InTurn, TaleInv, NEW r \in Requests,
           LegInv(r), Wrapup(r) \/ WallClock(r)
    PROVE  TaleInv'
  <1> USE DEF sessionVars, handlerVars
  <1>s. SerialClient
    BY DEF InTurn
  <1>u. Unbroken' => Unbroken
    BY DEF Wrapup, Release, Narrate, FailSession, FailSessionPublishes, WallClock, Suffer,
           Unbroken, TypeOK, Mishaps
  <1>t. ASSUME Unbroken' PROVE LegTale(r)
    BY <1>u, <1>t DEF TaleInv
  <1>a. Active(r) /\ req' = req
    BY DEF Wrapup, Release, Narrate, FailSession, FailSessionPublishes, WallClock, Active,
           Over, InGraph
  <1>b. \A q \in Requests \ {r} : leg'[q] = leg[q]
    <2>1. CASE Wrapup(r)
      BY <2>1, ProceedTo DEF Wrapup, Release, Narrate, FailSession, FailSessionPublishes
    <2>2. CASE WallClock(r)
      BY <2>2 DEF WallClock, Leave, TypeOK
    <2> QED
      BY <2>1, <2>2
  <1> SUFFICES ASSUME Unbroken' PROVE LegTale(r)' /\ (~Active(r)' => AtRest')
    BY <1>s, <1>a, <1>b, MoveTells DEF TaleInv
  <1>l. LegTale(r)
    BY <1>t
  <1>1. CASE Release(r)
    <2>1. /\ leg[r].at = "exit" /\ Proceed(r, AfterRelease(leg[r].exit))
          /\ UNCHANGED <<fsm, kept, outcome, graph, stream, mishaps>>
      BY <1>1 DEF Release
    <2>2. Told' = Told /\ Parked' = Parked /\ Struck' = Struck
      BY <2>1, SameTale
    <2>3. CASE leg[r].exit = "timeout"
      <3>1. leg'[r].at = "expire"
        BY <2>1, <2>3, ProceedTo DEF AfterRelease
      <3>2. Struck'
        BY <2>1, <2>2, <2>3, <1>l DEF LegTale
      <3> QED
        BY <3>1, <3>2 DEF LegTale, InGraph, Active, Over
    <2>4. CASE leg[r].exit = "ended"
      <3>1. leg'[r].at = "gone"
        BY <2>1, <2>4, ProceedTo DEF AfterRelease
      <3>2. Told' /\ fsm' \in {"done", "failed"}
        BY <2>1, <2>2, <2>4, <1>l DEF LegTale
      <3> QED
        BY <3>1, <3>2 DEF LegTale, InGraph, AtRest
    <2>5. CASE leg[r].exit = "paused"
      <3>1. leg'[r].at = "narrate" /\ leg'[r].exit = "paused"
        BY <2>1, <2>5, ProceedTo DEF AfterRelease
      <3>2. Parked' /\ fsm' \in Waiting
        BY <2>1, <2>2, <2>5, <1>l DEF LegTale
      <3> QED
        BY <3>1, <3>2 DEF LegTale, InGraph, Active, Over
    <2> QED
      BY <2>1, <2>3, <2>4, <2>5, <1>l DEF LegTale
  <1>2. CASE Narrate(r)
    <2>1. leg[r].at = "narrate" /\ UNCHANGED <<fsm, kept, outcome, graph>>
      BY <1>2 DEF Narrate
    <2>2. leg[r].exit = "paused" /\ Parked /\ fsm \in Waiting
      BY <2>1, <1>l DEF LegTale
    <2>3. Publish("need_input") /\ leg'[r].at = "gone"
      BY <1>2, <2>2, ProceedTo DEF Narrate
    <2>4. LastEvent' = "need_input" /\ Results' = Results
      <3>1. Results \in Nat
        BY StreamSteps
      <3> QED
        BY <2>3, <3>1, StreamSteps
    <2>5. Closing' = Closing
      BY <2>3, ClosingSteps
    <2>6. Told' /\ Parked'
      BY <2>1, <2>2, <2>4, <2>5 DEF Told, Parked, Waiting
    <2> QED
      BY <2>3, <2>6 DEF LegTale, InGraph, AtRest
  <1>3. CASE FailSession(r)
    <2>1. /\ fsm' = IF fsm = "none" THEN fsm ELSE "failed"
          /\ leg[r].at = "expire" /\ leg'[r].at = "obituary"
          /\ UNCHANGED <<kept, outcome, graph, stream, mishaps>>
      BY <1>3, ProceedTo DEF FailSession
    <2>2. Struck
      BY <2>1, <1>l DEF LegTale
    <2>3. Struck'
      <3>1. CASE fsm = "none"
        BY <2>1, <2>2, <3>1, SameTale
      <3>2. CASE fsm # "none"
        BY <2>1, <2>2, <3>2 DEF Struck
      <3> QED
        BY <3>1, <3>2
    <2> QED
      BY <2>1, <2>3 DEF LegTale, InGraph, Active, Over
  <1>4. CASE FailSessionPublishes(r)
    <2>1. /\ Publish("failed") /\ leg[r].at = "obituary" /\ leg'[r].at = "gone"
          /\ UNCHANGED <<fsm, kept, outcome, graph, mishaps>>
      BY <1>4, ProceedTo DEF FailSessionPublishes
    <2>2. Struck /\ fsm \in {"failed", "none"}
      BY <2>1, <1>l DEF LegTale
    <2>3. Results' = Results /\ LastEvent' = "failed"
      <3>1. Results \in Nat
        BY StreamSteps
      <3> QED
        BY <2>1, <3>1, StreamSteps
    <2>4. Told'
      BY <2>1, <2>2, <2>3 DEF Told, Struck, Waiting
    <2>5. fsm = "none" => Parked'
      BY <2>1, <2>2, <2>3 DEF Parked, Struck, Stands
    <2> QED
      BY <2>1, <2>2, <2>4, <2>5 DEF LegTale, InGraph, AtRest
  <1>5. CASE WallClock(r)
    <2>1. /\ leg'[r].at = "exit" /\ leg'[r].exit = "timeout" /\ leg[r].at \in InGraph
          /\ Suffer("timeout") /\ UNCHANGED <<fsm, kept, outcome, graph, stream>>
      BY <1>5 DEF WallClock, Leave, At, NoLeg, TypeOK
    <2>2. mishaps'["timeout"] > 0 /\ ~Counted
      BY <2>1, RunnerAssumption DEF Suffer, Counted, TypeOK, Mishaps, RunnerAssumption
    <2>3. fsm = "none" => Parked
      <3> SUFFICES ASSUME fsm = "none" PROVE Parked
        OBVIOUS
      <3>1. InGraphTale(r)
        BY <2>1, <1>l DEF LegTale
      <3>2. leg[r].at \notin Midway
        BY DEF LegInv, Midway
      <3> QED
        BY <3>1, <3>2 DEF InGraphTale, Parked
    <2>4. fsm = "none" => Parked'
      <3>1. Results' = Results
        BY <2>1, StreamSteps
      <3>2. Closing' = Closing
        BY <2>1 DEF Closing, Count
      <3> QED
        BY <2>1, <2>3, <3>1, <3>2 DEF Parked
    <2>5. Struck'
      BY <2>1, <2>2, <2>4 DEF Struck
    <2> QED
      BY <2>1, <2>5 DEF LegTale, InGraph, Active, Over
  <1> QED
    BY <1>1, <1>2, <1>3, <1>4, <1>5 DEF Wrapup

\* Up to the first fault or death, every step of a session whose client answers
\* in turn goes on with the tale.
LEMMA TaleStep ==
    ASSUME TypeOK, OneAtATime, GateInv, InTurn, TaleInv, Next
    PROVE  TaleInv'
  <1>g. PhaseInv /\ StartInv /\ \A r \in Requests : LegInv(r)
    BY DEF GateInv
  <1>1. ASSUME NEW r \in Requests, Lookup(r) \/ Handle(r) PROVE TaleInv'
    BY <1>1, <1>g, HandlerTells
  <1>2. ASSUME NEW r \in Requests, Node(r) PROVE TaleInv'
    <2>1. NodeEffect(r)
      BY <1>2, NodeHasEffect
    <2>2. Active(r) /\ Active(r)'
      BY <2>1 DEF NodeEffect, Active, InGraph, Over
    <2> SUFFICES ASSUME Unbroken' PROVE TaleInv'
      BY DEF TaleInv
    <2>3. LegTale(r)
      BY <1>2, NodeIsSound DEF Unbroken, TaleInv
    <2>4. LegTale(r)'
      BY <1>2, <1>g, <2>3, NodeTells DEF InTurn, GoodPicks
    <2> QED
      BY <1>g, <2>1, <2>2, <2>4, MoveTells DEF NodeEffect, InTurn
  <1>3. ASSUME NEW r \in Requests, Wrapup(r) \/ WallClock(r) PROVE TaleInv'
    BY <1>3, <1>g, WrapupTells
  <1>4. ASSUME NEW m \in {"fault", "crash", "shutdown"}, Suffer(m) PROVE TaleInv'
    <2>1. mishaps'[m] > 0
      BY <1>4 DEF Suffer, TypeOK, Mishaps
    <2> QED
      BY <2>1 DEF TaleInv, Unbroken
  <1>5. CASE LockExpires
    <2>1. UNCHANGED <<fsm, kept, outcome, graph, stream, leg, mishaps>> /\ req' = req
      BY <1>5 DEF LockExpires, sessionVars, handlerVars
    <2> QED
      BY <2>1, IdleTells
  <1> QED
    BY <1>1, <1>2, <1>3, <1>4, <1>5 DEF Next, Fault, ReleaseFails, Shutdown, Crash

LEMMA TaleInvariant == InTurn => (Spec => []TaleInv)
  <1> SUFFICES ASSUME InTurn PROVE Spec => []TaleInv
    OBVIOUS
  <1>1. TypeOK /\ Init => TaleInv
    <2> SUFFICES ASSUME TypeOK, Init PROVE TaleInv
      OBVIOUS
    <2>1. \A r \in Requests : leg[r].at = "off" /\ req[r] = "unsent"
      BY DEF Init, NoLeg
    <2>2. LastEvent = "none" /\ Results = 0 /\ Closing = 0
      <3>1. Marks(stream, "result") = {} /\ Marks(stream, "done") = {}
              /\ Marks(stream, "failed") = {}
        BY DEF Init, Marks
      <3> QED
        BY <3>1, FS_EmptySet DEF Init, LastEvent, Results, Closing, Count, Marks
    <2>3. AtRest
      BY <2>2 DEF Init, AtRest, Told, Parked, Sound, Stands, StatesAt, NewThread, Waiting
    <2>4. \A r \in Requests : LegTale(r)
      BY <2>1 DEF LegTale, InGraph
    <2> QED
      BY <2>1, <2>3, <2>4 DEF TaleInv
  <1>2. TypeOK /\ OneAtATime /\ GateInv /\ TaleInv /\ [Next]_vars => TaleInv'
    <2> SUFFICES ASSUME TypeOK, OneAtATime, GateInv, TaleInv, [Next]_vars
                 PROVE  TaleInv'
      OBVIOUS
    <2>1. CASE Next
      BY <2>1, TaleStep
    <2>2. CASE UNCHANGED vars
      <3>1. UNCHANGED <<fsm, kept, outcome, graph, stream, leg, mishaps>> /\ req' = req
        BY <2>2 DEF vars, sessionVars, handlerVars
      <3> QED
        BY <3>1, IdleTells
    <2> QED
      BY <2>1, <2>2
  <1>3. Spec => []GateInv
    BY GateInvariant DEF InTurn, StartsApart
  <1> QED
    BY <1>1, <1>2, <1>3, TypeCorrect, SerialInvariant, PTL DEF Spec

\* For a client that answers in turn the stream tells the state: whenever nothing
\* is under way its last event says what the stored fsm_state expects, a session
\* that failed on the wall clock included, and a done session has delivered
\* exactly one result.  A wall clock before the first record leaves a stream that
\* ends with failed and no session.  Up to the first fault, crash or shutdown.
THEOREM StreamTells == InTurn => (Spec => []StreamTellsState)
  <1>1. TaleInv => StreamTellsState
    <2> SUFFICES ASSUME TaleInv, Unbroken, Settled PROVE Told
      BY DEF StreamTellsState, Told, LastEvent, Results, Waiting
    <2> QED
      BY DEF TaleInv, Settled, AtRest
  <1> QED
    BY <1>1, TaleInvariant, PTL
=============================================================================
