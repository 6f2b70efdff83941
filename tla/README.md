# A TLA+ model of the Shoot-Craft session agent

The program turns a photo and a brief into an edited photo. A client ingests a
face, starts a session, answers at most one question, approves a plan, and
watches the session's event stream while the agent runs a chain of paid image
generations under a dollar budget. This directory models the parts in which
that can go wrong: the money, the paid calls before and after the approval, the
generation chain, the lifecycle of a session whose requests, background runs,
timeouts, cancellations and crashes interleave over a shared Redis, the face
profile that sessions share without a lock, the event stream, and the pure rules
that decide on photos, budgets, plans, presets, slots and prompts.

Paths below are relative to `src/src/` unless they start with `docs/` or
`tests/`.

## 1. Inventory

| Component | State it keeps | Operations | Where | Module |
|---|---|---|---|---|
| Dollar budget | one counter per session in Redis | reserve, settle, cancel (two Lua scripts) | `services/budget.py`, `utils/lua.py` | `Budget` |
| Generation loop | the session record (iterations, step results, best, costs), an idempotency record; in memory the step, attempt, step best, working image, lock ledger | run: write prompt, reserve, generate, record, face check, keep best, complete step, finish | `services/generation_loop.py`, `services/facecheck.py`, `connectors/openrouter_prompt_writer.py`, `connectors/openrouter_generator.py` | `GenerationLoop`, `LockItems`, `FaceProfile` |
| Session graph | LangGraph checkpoint (channels, next node), `fsm_state` | ten nodes, two of which pause on `interrupt()` | `graph/builder.py`, `graph/nodes.py` | `SessionRunner`, `Preparation`, `FaceProfile` |
| Session runner | run lock, table of background tasks | start, resume, cancel, run, release, narrate, wall clock, shutdown | `api/deps.py` | `SessionRunner` |
| HTTP API | none | ingest, start, input, approve, cancel, snapshot, presets, events | `api/routes.py` | `SessionRunner`, `FaceProfile` (ingest), `PresetLibrary` (presets), `EventStream` (events) |
| Idempotency | responses and outcomes by key | run_once | `services/idempotency.py` | `SessionRunner`, `GenerationLoop` |
| Session state machine | `fsm_state` | - | `schemas/enums.py`, `docs/fsm.md` | `SessionFsm` (abstract) |
| State store | face, session, lock, idempotency and budget keys with TTLs | get, put, set-if-absent, scripts | `connectors/redis_store.py` | as the variables of the modules above |
| Event bus, SSE relay | one capped Redis stream per session | publish, tail, replay from an id | `connectors/redis_event_bus.py`, `api/sse.py` | `EventStream` |
| Face ingest and profile | face record, photo and crop in object storage | ingest, lazy analysis, quality gate, inventory, statistics | `services/vision.py`, `services/quality_gate.py`, `graph/nodes.py` | `FaceProfile`, `QualityGate` |
| Auxiliary paid LLM calls | `llm_calls` of the session | parse brief, inventory, slot fill, plan | `connectors/openrouter_*.py` | `Preparation` |
| Pricing, cost forecast | price table | reservation sizes, affordable generations | `services/pricing.py`, `services/estimator.py`, `utils/money.py` | `Forecast` |
| Step planning | none | changes to ordered steps | `services/planner.py`, `connectors/openrouter_planner.py` | `StepPlanning` |
| Presets, slots | library | load, match, fill, apply composition | `services/preset_matcher.py`, `services/slot_filler.py`, `connectors/openrouter_slot_filler.py` | `PresetLibrary`, `Slots` |
| Prompt builder | none | lock items, guards, assembly | `services/prompt_builder.py` | `LockItems` |
| Transport | retry budget, semaphore | retry, throttle | `utils/retry.py`, `connectors/throttle.py` | not modelled |
| Storage, embedder, images, telemetry, config | files, weights, settings | - | | not modelled: I/O, pixel arithmetic, no effect on a session |

How they interact. A handler looks up its `idem_key`, reads the session, checks
its state and asks the runner for a run. The runner takes the session's lock and
starts a background task, which drives the graph until it pauses or ends. Nodes
read and write the whole session record; LangGraph writes its own checkpoint
after each node. The nodes before the approval make up to four paid LLM calls;
the `generate` node runs the generation loop. Both pay through the budget of
the session. The face profile belongs to the face, not to the session: ingests
and all sessions on a face read it and write it back whole, with nothing to
order them. Everything that outlives a process is in Redis or object storage;
there is no transaction across two keys.

What is hard: a state check made before the lock is taken and used after it;
two records (session and graph checkpoint) written one after the other; several
replicas of which only one knows the task; a wall clock and a cancel that write
the session from outside the lock; a run that is killed between paying and
recording; a budget shared by everything that costs money; a shared profile
written back from a copy read minutes earlier; a stream that trims and whose
connections break. `PROJECT.json` lists these hazards with their lines.

## 2. Plan

Done: `Budget`; `GenerationLoop` and its refinement of `Budget`; `SessionFsm` and
`SessionRunner`; `Preparation` and its refinement of `Budget`; `FaceProfile`;
`EventStream`; the six modules of pure rules in one run; and the proofs of section 5,
in `BudgetProofs`, `GenerationLoopProofs`, `ChainProofs`, `PreparationProofs`,
`SessionRunnerProofs`, `FaceProfileProofs`, `EventStreamProofs` and `RulesProofs`.

Every invariant and action property that a run checks is now also a theorem. What
could be added is `ImplementsFsm` with cancellations, under the histories that keep a
cancel standing. No module uses a RECURSIVE operator, so all of them can be proved
about.

Further modelling that could be added: the throttle's semaphore, and the TTLs of
counter and session against each other.

## 3. Modules and how they follow the code

### Budget

`used` is the counter of `utils/lua.py` in micro-USD, `hold[c]` the reservation a
caller has open. `Reserve` is `BUDGET_RESERVE` (test and add in one script),
`Settle`, `SettleUnreported` and `Cancel` are the `_Reservation` methods through
`BUDGET_ADJUST`, whose floor at zero is `Adjust`. `SettleUnreported` is a
`settle(None)`, which keeps the estimate. `Abandon` is a caller that dies with a
reservation open. `settled`, `overrun` and `stuck` are history. No bound is needed:
the histories grow only with the counter, and a full counter admits nothing.
`MCBudget` adds `Total`, the sum over the callers that `LedgerBalances` speaks of, and
with it the assumption that the callers are finitely many.

### GenerationLoop

One chain of one session. The variable `session` stands both for the record in
the store and for the run's copy, because each action ends at a checkpoint. `pc`
names the await at which the run stands:

| pc | in `_drive` / `_run_step` |
|---|---|
| next | head of the step loop; completed steps are passed over |
| write, writing, record | compose or revise: reserve, call, record the cost |
| reserve, generate, paid | reserve, provider call settled, iteration not yet recorded |
| check | the write-ahead checkpoint is made, the face check is running |
| stepEnd | the attempt loop is left |
| finish, publish, store | `_finish` checkpoint, terminal event, `run_once` record |

The last step is the enhance step `plan_steps` always appends; it has a fixed
prompt and skips the writer. A similarity is a small number, banded by
`FaceCheckService._banded`; no face is similarity 0. Costs are what a provider may
report, and an unreported cost settles as the estimate. Frames are identified by
their iteration number, and each iteration remembers the frame it edited (`on`).
Prompt texts, lock items, generation parameters, upscaling and the face profile's
statistics are abstracted away here; `LockItems` and `FaceProfile` have the lock items
and the statistics.

`Kill` is a run that ends at an await without its own cleanup: process death, the
wall clock, a cancelled task, or an exception that escapes `run()`. What it had
settled and not recorded goes into the history variable `lost`, its open
reservation into `stuck`. After it the chain may be entered again: the graph is
built so that a run can be resumed in another process ("the crash-recovery
property the whole design hangs on", `graph/builder.py`;
`tests/test_graph_e2e.py:270` resumes across processes). Through the API a chain
is entered a second time by an `/approve` that passed its state check before the
first run left AWAITING_APPROVAL and took the lock after that run was over.

`Ledger == INSTANCE Budget` is the refinement: the chain is a `Budget` with the
one caller `"run"`.

### SessionFsm and SessionRunner

`SessionFsm` says which moves of `fsm_state` a reader may see. It is the diagram of
`docs/fsm.md` plus one edge, NEED_INPUT to FAILED, which `resolve_constraints` takes
after `MAX_REASKS` rejected answers and the diagram does not draw.

`SessionRunner` has one session, a set of requests (each sent once, a retry being a
second request with the same key) and a set of processes. `req[r]` is how far r's
handler is, `leg[r]` the background task it spawned, `graph` the LangGraph
checkpoint, `task[p]` the entry in `SessionRunner._tasks`. Each node is one action
or one per await that matters: a node that writes the session leaves its
checkpoint `pending` until `Commit`, so a crash can fall between the two; nodes
that read the record, await an LLM and write it back keep the `fsm_state` they
read in `copy`. The loop is seen from outside: checkpoints, `_finish`, terminal
event, stored outcome.

LangGraph is external and modelled by how the code uses it: the checkpoint is
written after a node; a node that paused is run again from its start on resume;
the resume value is there for the first node the resumed leg runs and for no
later one, so `fresh` is cleared when that node is over. A start on an existing thread
enters the graph at its beginning and keeps the channels.

Mishaps are separate actions, each bounded by `MaxMishaps`: the wall clock
(`asyncio.timeout`), an exception escaping a node, a failing release, a graceful
shutdown (`aclose`), and SIGKILL. `Interrupt` is what `task.cancel()` does at each
place: before the first step the coroutine's body is never entered, inside the
graph the handler of `_run` releases the lock, in the release the delete has
reached Redis or not.

`LockExpires` may not take the lock from a run that is still driving: the TTL is the
wall clock plus a grace period (`api/deps.py`), so a run that long has been stopped
by its own timeout. This is a timing assumption of the code.

`FailSession` marks a session the wall clock struck, if there is a record to mark
(`api/deps.py:304`): before `analyze` has written the first one, only the event goes out.
`CancelSession` reads and writes the record in one step; what it writes does not depend
on the state it read. `BrokenOff` says of a history that some task was cut short: by a
mishap, or by a cancel that found its task.

### Preparation

What a session does and pays before its plan is approved: `parse_brief`,
`extract_inventory`, `ask`, `resolve_constraints`, `plan_steps`. `graph` is the LangGraph
checkpoint and `at` where the run stands within the node `graph.next`: before its
call (`todo`), with the reservation open (`open`), with the connector's result
(`have`), or with the session written and the position not yet (`commit`). The four
connectors share one control flow, so `Skip`, `Reserve`, `Degrade`, `Answer` and
`CallFails` take the node as a parameter; `Wanted` holds what differs. Each node is
the action that takes the result (`got`) and writes the session.

A user text is a member of `Texts`; `Unsafe` is what the guards of
`prompt_builder.py` reject. A preset is reduced to its question: none, from a
vocabulary, or free-form, and a slot to the free text in it. The profile may
expire at any time (`FaceExpires`). `Kill` is process death, the wall clock, a
cancelled task, or an exception that escapes: a store that fails in `settle()`
fails in the `cancel()` of the handler too. `ReEnter` is a later `/input` or
`/approve`, admitted only in the two waiting states.

`Ledger == INSTANCE Budget` is the same refinement as the loop's. The two modules
meet at the approval: both add to one counter, which each of them leaves equal to
what was settled plus what kills left open. `MoneyInv` is the conjunction of the type
invariant, `CallsAreClosed`, `LedgerBalances`, `NoOverdraft` and `SpendAccounted`.

### FaceProfile

One face. `photo` and `crop` are the two objects in storage, `profile` the record in
the store, and everything computed from a photo (embedding, metrics, verdict,
inventory) is represented by the photo it was computed from; `Grade` says what the
analysis finds. An ingest is `Store`, `PutFace`, `PutCrop`, or `IngestFails` in
between, since the timeout undoes nothing. A session reads and writes in the order
of `analyze`, `quality_gate`, `extract_inventory`, `generate` and the loop's
`_load` and `_drive`; `session[s].mine` is the copy it loaded, which `InventoryWrites`
and `FaceCheck` write back whole. Statistics are `_track_convergence`.

The interleavings do break things: a session whose ingest ran beside it can edit
one photo, send the crop of another and score against a third, and its
write-back can bring the old profile back. The code does not claim otherwise, so
the properties `ProfileAgrees` and `OneIdentity` say under which histories it cannot happen: `settledOn` is the
photo of an ingest that had the face to itself, `exposed` are the sessions and
requests that ran beside an ingest, `crowded` says that two sessions were in
flight at once. `ProfileInv` (types, `ScoresAreDefined`, `StatsAreMeasured`) needs no
such condition.

### EventStream

`published` are the types of all events ever published, an id is a position in it,
`gone` is how far trimming or expiry went. `Publish` is XADD with an approximate
MAXLEN, which may trim nothing and never goes below it; `Read` is XREAD after the
cursor; `Yield` is `session_event_stream`, which returns after a terminal event;
`wire` is what is yielded and not received, lost in a `Drop`. A client comes back with
the last id it received, which is what `Last-Event-ID` carries. `StreamInv` is the
conjunction of the type invariant, `NoGapsNoReplays` and `EndsWithTerminal`.

### QualityGate, Forecast, StepPlanning, PresetLibrary, Slots, LockItems, Selection

Pure operators, one module per service, without state. `MCRules` picks an input of
one rule in each step, and its invariants compare what the rule computes with a
reference definition or with what the rule is for. Metrics are small integers
around the thresholds; money is micro-USD with the price table of the code, its
half-even rounding and its padded, rounded-up reservations; a text is a set of
words, which is what the token matching of slots, presets and accessories works
on; an injection is a text with the word `Poison`. The loaded library is what
`load_library` lets through, and `Slots!WellFormed` is what the tests of the packaged
library demand of a preset. `ForecastHolds`, `PlanFollowsBrief`, `UseCasesResolve`,
`FillsFollowAnswer` and `LocksAreHeld` each join the two or three statements about one
rule that stand above them.

`Selection` has the list comprehension with a condition, which the planner and the
prompt builder use throughout: `Only(list, at)` are the elements of a list at the
positions `at`, in order. It and the ledger of completed steps (`Absorbed`) are loops,
written as recursive functions over the number of turns, so that the proofs can
follow them.

## 4. Runs

Every passing run explores its whole state space. The type invariants of `Budget`,
`GenerationLoop` and `SessionRunner` are proved and not checked again; those of the
other modules are part of the invariants named below.

| Run | Instance | Shows |
|---|---|---|
| budget | 3 callers, 2 estimates, costs from free to above the estimate, limit 9: three open reservations fill it exactly | the counter equals settled + held + abandoned money, and passes the limit only by under-estimated costs |
| loop_chain | 3 steps, 2 attempts, budget for about four generations, no kill, fair | every step keeps its best frame, all its frames, the discarded ones too, edit the result of the step before, and every run ends with a stored outcome |
| loop_kills | 2 steps, 2 attempts, costs above and below the estimate, one kill anywhere | ledger, accounting, what is kept and delivered, agreement of record, event and stored outcome, finality of completed steps, refinement of `Budget` |
| preparation | 2 texts (one unsafe), every kind of preset, an inventory there or not, budget for three or four of the calls, costs above the flat estimates, one re-ask, one kill anywhere, fair | every call is closed, the ledger balances, every settled dollar is on record but for kills and rejected fills, calls are repeated only for a reason, nothing unsafe is planned with, an answering user reaches the approval, refinement of `Budget` |
| face_profile | 2 ingests, 2 sessions, 5 photos of 4 grades, one check per session; requests and sessions are symmetric | photo, crop, profile and inventory agree after an undisturbed ingest; an undisturbed session works on one accepted photo; no score without an embedding; statistics are of measured frames; one inventory per profile |
| event_stream | MAXLEN 2, 4 events of each type, 2 breaks, fair | no gap but the trimmed events, no replay, a response ends with its terminal event, the newest event arrives, a relay ahead of a terminal event returns |
| rules | see below | the pure rules against what they are for |
| runner_races | start, input and its retry on another replica, approve, reject, all concurrent | `fsm_state` moves as `SessionFsm`, ends once, one closing event |
| runner_serial | a client that answers in turn, two answers and an approval; a wall clock, an exception and a SIGKILL anywhere; fair | the stream's last event tells what the stored state expects (after a wall clock before the first record: a closed stream and no record); a working session settles unless a fault or a death strands it; the lock is freed whatever happens |
| runner_mishaps | start, approve, bad approve, cancel on the other replica; an exception (or failing release) and a shutdown | one driver at a time; a waiting session is parked at its gate, or next to it once a run was cut short; a stored outcome stands |

Deadlock checking is off where the system may stop: a session that has ended or
waits (`SessionRunner`, `Preparation`, `FaceProfile`), a stream without a publisher, a
budget that is used up, and `rules`, which has one step. The loop never deadlocks
because `Replay` is always possible at the end.

Inputs of `rules`. Gate: every combination of 0 to 2 faces and of values below, at
and above each threshold. Forecast: five lengths of the frozen text around a token
boundary, two details, 2 to 5 steps, and budgets one micro-USD below, at and above
what 0 to 6 generations need, and near zero. Plan: briefs of up to two changes with
every answer of up to two steps over three regions and a blank target, with and
without inventory, and briefs of up to four changes planned without a model.
Library: up to three files over three ids and three tokens. Slots: every
well-formed preset of two slots, every raw fill and answer over a vocabulary whose
options share a word. Locks: chains of two steps over every choice of targets,
instruction and applied phrase, poisoned ones included, every inventory, with clean
and with poisoned fields, and a clean, a poisoned and a blank entry to preserve.

Bounds. Two attempts per step distinguish "best" from "first" and "last"; three
similarity bands, with two values in the soft band in `loop_chain`, so that a tie,
an improvement and a regression all occur. One kill is enough for each property of
one restart; `AttemptsBounded`, `CallsBounded` and `OutcomeAgrees` are stated with `kills`
so that they scale. Two replicas suffice because a request is served by one
process and the only questions are "the same" or "another". Four to five requests
are the smallest sets in which two of them pass the same state check while a third
ends the session. Two ingests and two sessions are the smallest sets in which each
kind of writer can overwrite its own and the other kind. A stream of twice its
MAXLEN loses events to a client that is away, and two breaks let it be away twice.

Fairness. `FairSpec` of the loop asks only that a running chain takes its next step:
each await is an HTTP or Redis call with a timeout, inside the run's wall clock.
`FairSpec` of the runner asks that live handlers and tasks go on and that Redis
expires keys; no client has to send a request. `FairSpec` of the preparation lets
nodes go on and the user answer, since the question is whether answering leads
anywhere. `FairSpec` of the stream lets relays and connections make progress and a
client that was cut off come back, as an EventSource does; nobody has to publish.
In all of them no mishap has to happen or to stay away, and which outcome a
provider returns is free.

### Runs that show a disagreement

Each checks one sentence of a doc, a comment or a test and finds it violated.

| Run | Sentence | What happens |
|---|---|---|
| runner_cancel_stale | "Cancelled is terminal: the parked interrupt can never be resumed" (`tests/test_api_e2e.py:273`) | an answer checked before the cancel takes the lock after it and drives the graph on |
| prep_rejected_text | "the poisoned text never survives in state or in the session record" (`graph/nodes.py:336`) | `parse_brief` has already stored the brief as the instruction of a change; the session is planned from it after the guards rejected it as an answer (in the loop the guard of the edit prompt drops the instruction, `generation_loop.py:682`, but `_slots_for_step` has also put it into a free-form slot: a prompt body filled from that slot carries it, and the assembly raises) |

### What else the models show

Some properties need slack, or a condition, that describes a behaviour of the
code worth knowing:

- `SpendAccounted` needs `lost` (a kill between `settle()` and the checkpoint drops a
  cost from `cost_spent`) and `dropped` (`resolve_constraints` returns before it records
  the fill of a rejected answer, `graph/nodes.py:356`).
- `AttemptsBounded` and `CallsBounded` need `kills`: a step or node entered again pays
  again. `OutcomeAgrees` needs `1 + kills` terminal events: the event is published
  before the record is stored.
- `ChainsOnPredecessor` is checked without kills: a chain entered again starts with
  `working = reference` (`generation_loop.py:248`), so its first pending step edits the
  original photo.
- `OneTerminalEvent` is checked without mishaps: a wall clock after `_finish` writes
  FAILED over DONE (`api/deps.py:304`), and an approve with an unknown composition
  publishes `failed` while the session still waits (`api/deps.py:278`).
- `FsmSpec` and `OneTerminalEvent` hold in `runner_races` although a request and its retry
  under one `idem_key` may both run (`services/idempotency.py:40` has no claim before the
  run); the second copy of an answer is then read by the approval gate, where any
  text but four words is a rejection.
- `LockIsFreed` needs `LockExpires`: a task cancelled before its first step, like one
  that was killed, leaves the lock to its TTL. `WorkingSettles` needs `Unbroken`: after
  a fault or a death in FACE_CHECK, PLANNING or GENERATING no endpoint but cancel
  admits a request.
- `RelayReturns` is about a relay that is ahead of the terminal event. One that is
  opened after it (a client that reconnects once more) waits until it is closed.
- `AffordableIsCeiling` is stated from one enhance reservation upwards: below it the
  forecast still announces the enhance generation (`services/estimator.py:84`).
- `OfferedTokensMatch` says which preset a token leads to: the first in file order that
  claims it or the wildcard, so a wildcard preset in an earlier file answers in place of
  the one the token is listed with. The docstring at `services/preset_matcher.py:191` has
  the fallback claim "exactly that token"; `_check_reserved_token` only asks that it
  claims it, and a further token of the fallback leads to it by falling through.
- `PlanCoversBrief` does not say that every step has a target: a model's step with
  no target passes the validation, with or without an inventory.
- `VocabularyIsChosen`: when the model's fill parses, its option stands in a slot with a
  vocabulary whatever the user answered; only the fallback filler matches the answer.
  `FreeFormIsVerbatim` therefore speaks of free-form locks, and `_slots_for_step` writes the instruction
  into the first free-form slot, a locked one included.
- `RegionsStayHeld` excepts a step whose applied phrase reads as an injection: the
  phrase is dropped and the region is then neither locked as it was nor as edited.
  A field of the inventory that reads as an injection is dropped from the locks the
  same way. The lighting is used once more, in the texture block of the edit prompt
  (`prompt_builder.py:74`), and there nothing guards it: a poisoned lighting is in the
  prompt, and the lighting of the original photo is in it even after a step that
  edited it. `PromptKeepsLocks` speaks of the body, the change and the lock items.
- `GateMatchesState` is exact only until a run is cut short. After a fault or a kill
  behind the approval the session still says AWAITING_APPROVAL while the graph stands at
  `generate`: a reject sent then is admitted, no node reads it, and the paid
  generation runs, where `docs/fsm.md` draws `approved=false` to FAILED.
- `StreamTellsState` allows, after a wall clock before the first record, a stream closed
  with `failed` and no session (the case of `tests/test_api_e2e.py:311`); a start may
  then follow on the closed stream. It speaks of a client that waits until the run is
  over: a request that takes the lock between the release and what the run before it
  still has to write or publish (`api/deps.py:269`, `:287`) may be overtaken by that.
- The forecast sets aside one flat slot-fill estimate for all LLM calls, so a plan
  called sufficient can run out when the writer is called in every step.

## 5. Proofs

Every theorem is for all values of the constants that satisfy the assumptions
named in the modules:

| Assumption | Says |
|---|---|
| `BudgetAssumption`, `CallersAssumption` | costs and limit are natural numbers, estimates positive ones; the callers are finitely many |
| `LoopAssumption` | the same of money; at least one step and one attempt; floor <= target |
| `RunnerAssumption` | every request has a kind and a process; re-asks and mishap bounds are natural numbers |
| `PreparationAssumption` | costs, limit and bounds are natural numbers, each call's estimate a positive one |
| `FaceProfileAssumption` | every photo has a grade; a measured similarity is positive; requests and sessions are different things |
| `EventStreamAssumption` | MAXLEN is positive, the bounds are natural numbers |
| `TargetsAssumption`, `RegionsAssumption` | the two vocabularies are of targets, blank is none; the fields are a list, and editable fields are among them |
| `GateThresholdsAssumption`, `PricingAssumption`, `LibraryAssumption` | a threshold's hard limit is not within its soft one; prices are natural numbers, the safety margin does not shrink them, and an image is worth a micro-USD at least; the fallback has an id, and the reserved token and the wildcard are tokens |

### BudgetProofs

`TypeCorrect`, then `Overdraft`: with the type invariant, `NoOverdraft` is inductive. A
reservation fits when it is made, and a settlement raises the counter beyond its
own reservation only by what it adds to `overrun`.

`LedgerBalance` says for any finite set of callers that the counter is settled +
held + abandoned money. The sum is a fold, about which the prover knows
nothing: the lemmas show that the fold is defined on every subset, that changing
one hold shifts the total by the difference, and that a hold is at most the total.
The last is why the floor at zero in `BUDGET_ADJUST` never bites, which is where the
balance could be lost.

### GenerationLoopProofs

- `TypeCorrect`, with lemmas on the record updates.
- `MoneyInvariant`: `MoneyInv` = `CallsAreClosed` /\ `LedgerBalances` /\ `NoOverdraft` /\ `SpendAccounted`
  is inductive on top of `TypeOK`; `CallsAreClosed` carries the others, because
  a settlement keeps the ledger only if the call it closes is the one that is
  open, and a recorded cost is counted once only if nothing else was waiting.
  `ReserveKeepsLedger`, `SettleKeepsLedger`, `CancelKeepsLedger` are the three
  things a step can do to the counter; every other action is a `QuietStep`.
- `ImplementsBudget`: each action is a `Budget` action of caller "run" or leaves the
  ledger alone; `MoneyInv` supplies that a call is open when it is closed.
- `KeptFrames`: `KeptFramesDeliverable` is not inductive alone. `KeptInv` adds that the
  frame under check is the last one, has no similarity yet, and is kept nowhere:
  otherwise the face check could overwrite the similarity of a kept frame.

### ChainProofs

The chain as a whole, for any number of steps, attempts and kills. `ChainInv` is
its shape: steps are completed in order, the step being run is the first that is
not, and nothing runs once an outcome is stored. On it rest
- `FinalSteps` (the action property `CompletedStepsAreFinal`);
- `OutcomeAgreement`, from `OutcomeInv`, which says what is already true when the event
  is published and the record is not: a kill there costs one more terminal event;
- `DeliversLast`, from `BestInv`, which names the last completed step without CHOOSE, and
  from `KeptInv`: the frames that were compared keep their similarity;
- `BoundedAttempts`, from `AttemptInv`: each kill wastes at most one step's attempts, and
  `Here(s)` is how many the run at hand can have made;
- `KeepsBest` and `ChainsOn`, for chains that were not killed (`kills = 0`), from
  `UnkilledInv` and, for every frame ever paid for, `EditInv`: an iteration edits the
  working image, which is the result of the last completed step. The condition is the
  code's: `stepBest` and `working` live in memory, so a run that enters the chain again
  neither compares the killed run's frames nor edits its last result (section 4).

### PreparationProofs

- `TypeCorrect`, `MoneyInvariant` and `ImplementsBudget` along the lines of
  `GenerationLoopProofs`. `PayInv` adds to `MoneyInv` that a fallback costs nothing: a node
  that raises leaves nothing to be paid for.
- `CleanSlots`, from `CleanInv`: what was accepted is clean in the session, in the
  checkpoint and in the checkpoint LangGraph has not written yet, so a kill between
  the two writes cannot bring a rejected text back.
- `BoundedCalls`, from `BoundInv`: where the session may be re-entered, how many re-asks
  are behind it, and per node how many calls the run at hand can have made. The first
  two nodes run in a state that admits no request, so a kill there does not repeat
  their calls.

### FaceProfileProofs

Any number of ingests and sessions, every read and write interleaved, no lock.
- `ProfileInvariant`, from `DataInv`: a session's own copy carries what its later
  writes need, and a busy session or ingest implies that there is a photo.
- `Agreement` and `SingleIdentity`, from `AgreeInv`: an ingest nobody ran beside has seen
  nothing but its own writes, and from then on every running session holds the
  settled photo and nothing else, which is what makes its write-back harmless.
- `Catalogued`, from `OnceInv`: without overlap, an extraction is counted only while the
  inventory is in the profile and in the copy the loop will write back.

### EventStreamProofs

`StreamIsFollowed`, for any set of clients, any MAXLEN and any number of breaks. What
was received and what is on the wire say too little: `FollowInv` says where the relay
stands. Ids rise and the wire goes on where the client stopped (`Ordered`); what is
not held was trimmed, up to the relay's cursor (`Delivered`); the batch is what comes
after the cursor (`Pending`); nothing follows a terminal event in a response
(`Ending`).

### SessionRunnerProofs

- `TypeCorrect`.
- `MutualExclusion` and `FinalOutcome` from `RunnerInv` = `TypeOK` /\ `DriverHoldsLock` /\
  `LoopIsOpen`, where `LoopIsOpen` says that whoever is inside the loop found no
  outcome and there still is none. It holds because of the lock: only the one
  driver can store an outcome. `NodeEffect` sums up what a node may do to lock and
  legs, so that the induction has one case for all nodes.
- `GateMatches`: if no two starts race (`StartsApart`), a waiting session is parked at the
  gate of its state, or, once a run was cut short, next to it. `GateInv` relates record,
  checkpoint and leg between the two writes and gives the nodes next to the gate;
  `ExactInv` says that, unless a run was cut short, away from the gate some leg is in the
  graph, and hence holds the lock: a leg leaves the graph of its own accord in four ways
  (`WaysOut`), each at a gate or past both. Starts do not race if there is one start
  request, or if the client sends one request at a time: then at most one request
  is in its handler or has a leg (`OneAtATime`), and a second start finds a session
  that is no longer new. With two racing starts it fails: the second enters the graph at its
  beginning while the session waits.
- `ImplementsFsm`: a session that is `Calm` (no racing starts, cancels or mishaps) implements
  `SessionFsm`, for any number of duplicated, late and competing answers and
  approvals on any number of processes. `CourseInv` says which states and which
  number of closing events go with the node the graph is at, in the checkpoint and
  in what the leg has written beyond it. Each part of `Calm` is needed: a leg that
  read the record before a cancel writes its state over CANCELLED, and a fault leaves
  the checkpoint behind the record, so that a node is run again from a later state.
- `SingleEnd`: such a session has at most one closing event if no approval picks an
  unknown composition (`GoodPicks`), since that publishes `failed` while the session
  still waits.
- `StreamTells`: for a client that answers in turn, does not cancel and picks
  compositions it was offered (`InTurn`), the last event tells the stored state whenever
  nothing runs, wall clocks included. The invariant is `TaleInv`: between two legs the
  stream has told everything and the graph is parked where the next leg goes on;
  inside a leg the course of `ImplementsFsm` is kept, the result is out as soon as it
  is announced, and a closing event is the last one; a leg on its way out has told
  what it wrote or is about to (`narrate`, `obituary`). A leg the wall clock has struck is
  `Struck`: if there is no record, the session is as before its start. Its `failed` is then
  on a stream that is used again, so the closing events are counted (`Counted`) only
  where no wall clock can strike. Each condition is needed: an
  unknown composition publishes `failed` while the session waits, `StreamTellsState` does
  not speak of a cancelled session, and a fault or a death strands a session in a
  working state, which is why `StreamTellsState` speaks of `Unbroken` histories.

The hypotheses are satisfied by `runner_races` (`Calm`, `GoodPicks`) and `runner_serial`
(`InTurn`), which TLC explores completely.

### RulesProofs

The rules for every input of the type the code gives them, not only those TLC
enumerates:
- `GateVerdict`: every photo, every table of thresholds.
- `UseCasesAlwaysResolve`: every library of files that loads.
- `ForecastAlwaysHolds`: every price table, frozen text, detail and budget, and every
  plan of at least two steps, which is what `plan_steps` makes (one and the enhance step).
- `FillsAreValid` and `FillsAnswer`: every preset that is well formed, with distinct slot
  names, every raw fill, and an answer whenever the preset asks (`SlotInput`).
- `PlanAlwaysFollowsBrief`: every brief, with or without inventory, and every answer of
  the model, valid or not (`PlanInput`). `SortedFacts` gives the permutation that makes
  the plan without a model a stable sort.
- `LocksAlwaysHeld`: every chain of approved steps, every inventory or none, every
  preserve list, every table of regions (`ChainInput`). `LedgerBeforeFacts` shows that
  the ledger before a step is the same however many of the steps before it a run found
  completed; `EditLockFacts` says what `edit_lock_items` makes of any ledger.
- `PromptsKeepLocks`: the prompts of every such chain.

What a fold computes is proved by induction without an operator as parameter:
`NatSetInduction` takes a set of numbers and follows from the fact that a non-empty
set of naturals has a minimal element; the lemmas apply it to the set of lengths for
which their claim holds. Loops are followed the same way (`LoopInduction`, `LoopExists`);
`OnlyFacts` and `PrefixKept` say what a comprehension returns.

### Only model-checked

- The liveness properties (`RunReachesOutcome`, `LockIsFreed`, `WorkingSettles`,
  `ReachesApproval`, `NewestArrives`, `RelayReturns`): fairness is beyond the prover.
- The two runs that show a disagreement.

## 6. Not modelled

- `utils/retry.py` and `connectors/throttle.py`: one call each into tenacity and
  `asyncio.Semaphore`. What the program sees of them is a paid call that answers or
  raises after some time, which is how the calls are modelled. Whether a provider
  charges for a request that timed out is outside the repository.
- TTL expiry of session, idempotency and budget keys (lock, face and stream expire).
- Pixels: decoding, blur and brightness measurements, detection, embedding, crops,
  upscaling. `VisionService._measure` raises on a bounding box outside the frame
  before `_crop` would treat it as "never a crash"; no model reaches that far.
- Wording: prompts, questions, injection patterns, YAML and JSON schemas. They are
  represented by the verdict the code draws from them.
- Telemetry, logging, configuration, the wiring of the container, and the fakes.

## 7. Mutants

Next to a definition that a property guards stands an operator marked `Mutant`: the
same code with a plausible slip (a guard dropped, a refund forgotten, one attempt
too many, a state not written). No specification uses them; each one, put in the
place of its neighbour, makes TLC report the property it is paired with in
`PROJECT.json`.
