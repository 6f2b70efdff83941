------------------------------- MODULE MCRules ------------------------------
(***************************************************************************)
(* The pure rules of the session: each step picks one input of one rule,   *)
(* and the invariants compare what the rule computes with what it is for.  *)
(***************************************************************************)
EXTENDS QualityGate, Forecast, StepPlanning, PresetLibrary, Slots, LockItems,
        FiniteSetsExt, TLC

VARIABLE input

Nothing == [rule |-> "none"]
Init == input = Nothing

-----------------------------------------------------------------------------
(* The constants.                                                          *)

Gate == [minSide |-> 2, maxSecond |-> 1, floorFaceSide |-> 1, minFaceSide |-> 2,
         floorBlur |-> 1, minBlur |-> 2, floorMinBright |-> 1, minBright |-> 2,
         maxBright |-> 4, floorMaxBright |-> 5, riskMaxYaw |-> 1]

\* The table of pricing.py.
RateTable == [input |-> 50, text |-> 300, image |-> 6000]
InputTable == [high |-> 1120, low |-> 280, auto |-> 1120]
OutputTable == ("1K" :> 1120) @@ ("4K" :> 2520)

FieldOrder == <<"pose", "clothing", "lighting">>
RegionTable == [clothing |-> {"shirt"}, lighting |-> {"light", "tone"}]

-----------------------------------------------------------------------------
(* The inputs.                                                             *)

PickPhoto ==
    /\ input = Nothing
    /\ \E faces \in 0..2, second \in {0, 2}, width \in {1, 2}, height \in {1, 2},
          faceSide \in 0..2, blur \in 0..2, bright \in 0..6, yaw \in {-2, 0, 1} :
        input' = [rule |-> "gate",
                  m |-> [faces |-> faces, second |-> second, width |-> width,
                         height |-> height, faceSide |-> faceSide, blur |-> blur,
                         bright |-> bright, yaw |-> yaw]]

\* Budgets at and around what a number of generations needs.
PickBudget ==
    /\ input = Nothing
    /\ \E frozen \in {0, 1, 4, 5, 900}, detail \in {"high", "low"}, steps \in 2..5,
          generations \in 0..6, slack \in {-1, 0, 1}, none \in BOOLEAN :
        LET chars == NominalPromptChars(frozen)
        IN  input' = [rule |-> "forecast", frozen |-> frozen, detail |-> detail,
                      steps |-> steps,
                      limit |-> IF none THEN generations
                                ELSE SlotFill + GenerationReserve(chars, "4K", detail) + slack
                                     + generations * GenerationReserve(chars, "1K", detail)]

PickBrief ==
    /\ input = Nothing
    /\ \E changes \in SeqOf(Targets, 2), inventory, preserve \in BOOLEAN,
          answer \in SeqOf([targets : SeqOf(Targets \cup {Blank}, 2), worded : BOOLEAN], 2) :
        input' = [rule |-> "plan", changes |-> changes, inventory |-> inventory,
                  preserve |-> preserve, answer |-> answer]

\* Longer briefs, planned without a model.
PickLongBrief ==
    /\ input = Nothing
    /\ \E changes \in SeqOf(Targets, 4) :
        input' = [rule |-> "plan", changes |-> changes, inventory |-> FALSE,
                  preserve |-> FALSE, answer |-> <<>>]

PickLibrary ==
    /\ input = Nothing
    /\ \E files \in SeqOf([id : Ids, uses : SUBSET Tokens \ {{}}], 3),
          origin \in {<<"path", 0>>, <<"package", Unparsed>>, <<"package", 0>>,
                      <<"package", 1>>} :
        input' = [rule |-> "library", files |-> files, source |-> origin[1],
                  version |-> origin[2]]

Vocabulary == << {"cv", "photo"}, {"white", "photo"} >>
Wordings == {{}, {"cv", "photo"}, {"white", "photo"}, {"white"}}
SlotShapes(name) ==
    [name : {name}, enum : {<<>>, Vocabulary}, ask : BOOLEAN, locked : BOOLEAN,
     default : {NoValue, {"cv", "photo"}, {"white"}}]
Presets ==
    {p \in [slots : {<<a, b>> : a \in SlotShapes("purpose"), b \in SlotShapes("background")},
            placeholders : SUBSET {"purpose", "background"},
            overrides : {<<>>, [background |-> {"white", "photo"}]}] :
        WellFormed(p)}

\* ask leaves no answer only when the preset has no question.
Answers(preset) ==
    IF \E i \in DOMAIN preset.slots : preset.slots[i].ask
    THEN SUBSET {"cv", "photo", "white", "the"} ELSE {NoValue}

PickFill ==
    /\ input = Nothing
    /\ \E preset \in Presets, purpose, background \in Wordings, partial \in BOOLEAN,
          instruction \in {{}, {"cv"}} :
       \E answer \in Answers(preset) :
        input' = [rule |-> "slots", preset |-> preset, answer |-> answer,
                  instruction |-> instruction,
                  raw |-> IF partial THEN [purpose |-> purpose]
                          ELSE [purpose |-> purpose, background |-> background]]

StepShapes(n) ==
    [n : {n}, targets : {{}, {"shirt"}, {"tone"}, {"shirt", "tone"}},
     words : {{}, {"white", "shirt"}, {"earbud"}, {Poison}},
     applied : {{}, {"new"}, {Poison}}, status : {"pending"}]

PickChain ==
    /\ input = Nothing
    /\ \E first \in StepShapes(1), second \in StepShapes(2),
          visible \in SUBSET ToSet(Fields), none, worn, foul \in BOOLEAN :
        input' = [rule |-> "locks", steps |-> <<first, second>>,
                  preserve |-> << {"smile"}, {Poison}, {} >>,
                  inventory |->
                    IF none THEN NoInventory
                    ELSE [fields |-> [f \in ToSet(Fields) |->
                                        IF f \notin visible THEN {}
                                        ELSE IF foul THEN {f, Poison} ELSE {f}],
                          accessories |-> IF worn THEN << {"white", "earbud"}, {"ring"} >>
                                          ELSE <<>>]]

Next == PickPhoto \/ PickBudget \/ PickBrief \/ PickLongBrief \/ PickLibrary
            \/ PickFill \/ PickChain

Spec == Init /\ [][Next]_input

-----------------------------------------------------------------------------
(* The quality gate.                                                       *)

Bands == <<"passed", "soft", "below_floor">>
\* The band each single measurement deserves, most fundamental first.
Rating(m) ==
    << <<"no_face", IF m.faces = 0 THEN 3 ELSE 1>>,
       <<"multiple_faces", IF m.faces > 1 /\ m.second > T.maxSecond THEN 3 ELSE 1>>,
       <<"low_resolution", IF m.width < T.minSide \/ m.height < T.minSide THEN 3 ELSE 1>>,
       <<"face_too_small", IF m.faceSide < T.floorFaceSide THEN 3
                           ELSE IF m.faceSide < T.minFaceSide THEN 2 ELSE 1>>,
       <<"blurry", IF m.blur < T.floorBlur THEN 3
                   ELSE IF m.blur < T.minBlur THEN 2 ELSE 1>>,
       <<"poor_lighting", IF m.bright < T.floorMinBright \/ m.bright > T.floorMaxBright THEN 3
                          ELSE IF m.bright < T.minBright \/ m.bright > T.maxBright THEN 2
                          ELSE 1>>,
       <<"extreme_pose", IF Abs(m.yaw) > T.riskMaxYaw THEN 2 ELSE 1>> >>

\* quality_gate.py: the verdict is the worst band of any single measurement and
\* the reason its most fundamental one, so a pose alone never rejects a photo.
GateIsWorstBand ==
    input.rule = "gate" =>
        LET rating == Rating(input.m)
            worst == Max({rating[i][2] : i \in DOMAIN rating})
            first == Min({i \in DOMAIN rating : rating[i][2] = worst})
        IN  Evaluate(input.m) =
                [verdict |-> Bands[worst],
                 reason |-> IF worst = 1 THEN OK ELSE rating[first][1]]

-----------------------------------------------------------------------------
(* The forecast.                                                           *)

Forecasted == EstimateCost(input.limit, input.frozen, input.detail, input.steps, 1)

\* The ledger after each generation, on a budget that has paid the overhead.
Spent(n, cost) ==
    LET spent[i \in 0..n] == IF i = 0 THEN SlotFill ELSE spent[i - 1] + cost[i]
    IN  spent

\* The greedy chain of the loop, one generation per step and the last at 4K, on a
\* budget that has paid the forecast overhead: no reservation is refused when
\* generation i settles at its reservation for i in full, at its forecast otherwise.
ChainFunded(full) ==
    LET n == input.steps
        chars == NominalPromptChars(input.frozen)
        size(i) == IF i = n THEN "4K" ELSE "1K"
        reserve(i) == GenerationReserve(chars, size(i), input.detail)
        cost == [i \in 1..n |->
                    IF i \in full THEN reserve(i)
                    ELSE PredictGenerationCost(chars, size(i), input.detail)]
    IN  \A i \in 1..n : Spent(n, cost)[i - 1] + reserve(i) <= input.limit

\* "sufficient" in the plan means that the chain is funded to its last step
\* whatever the generations cost within their reservations, and a warning that
\* it is not when they cost as much as was reserved (estimator.py).
SufficientIsFunded ==
    input.rule = "forecast" =>
        IF Forecasted.sufficient
        THEN /\ \A full \in SUBSET (1..input.steps) : ChainFunded(full)
             /\ Forecasted.minimum <= input.limit
        ELSE ~ChainFunded(1..input.steps)

\* The announced ceiling is exact: so many generations, the enhance one among
\* them, and not one more.  (Below one enhance reservation the code announces an
\* enhance generation that the budget does not cover.)
AffordableIsCeiling ==
    input.rule = "forecast" =>
        LET chars == NominalPromptChars(input.frozen)
            left == input.limit - SlotFill - GenerationReserve(chars, "4K", input.detail)
            step == GenerationReserve(chars, "1K", input.detail)
            more == Forecasted.affordable - 1
        IN  left >= 0 => more * step <= left /\ left < (more + 1) * step

\* A reservation covers its forecast and does not shrink as the prompt grows.
ReserveCoversForecast ==
    input.rule = "forecast" =>
        \A size \in DOMAIN OutputTokens :
            LET chars == NominalPromptChars(input.frozen)
                reserve == GenerationReserve(chars, size, input.detail)
            IN  /\ reserve >= PredictGenerationCost(chars, size, input.detail)
                /\ \A more \in 1..CharsPerToken :
                      reserve <= GenerationReserve(chars + more, size, input.detail)

\* The forecast that goes with the plan holds for the chain that follows.
ForecastHolds == SufficientIsFunded /\ AffordableIsCeiling /\ ReserveCoversForecast

-----------------------------------------------------------------------------
(* The plan.                                                               *)

Plan == Proposed(input.answer, input.changes, input.inventory, input.preserve)
Covered == UNION {ToSet(Plan[i].targets) : i \in DOMAIN Plan}

\* Whatever the model answers, the approved plan edits everything the brief
\* names, nothing that neither the brief nor an inventory suggested, and is
\* numbered 1..n with at least one edit before the single, last enhance step.
PlanCoversBrief ==
    input.rule = "plan" =>
        /\ Explicit(input.changes) \subseteq Covered
        /\ ~input.inventory => Covered \subseteq Explicit(input.changes)
        /\ \A i \in DOMAIN Plan : Plan[i].n = i /\ (Plan[i].enhance <=> i = Len(Plan))
        /\ Len(Plan) >= 2

\* Planned without a model, the steps are the changes of the brief, each once, no
\* riskier region before a safer one and otherwise in the brief's order.
SafestFirst ==
    input.rule = "plan" /\ input.answer = <<>> /\ input.changes # <<>> =>
        LET n == Len(input.changes)
            step(i) == Plan[i].targets[1]
        IN  /\ Len(Plan) = n + 1
            /\ \E order \in [1..n -> 1..n] :
                /\ \A i, j \in 1..n : i # j => order[i] # order[j]
                /\ \A i \in 1..n : step(i) = input.changes[order[i]]
                /\ \A i, j \in 1..n : i < j =>
                    \/ Rank(step(i)) < Rank(step(j))
                    \/ Rank(step(i)) = Rank(step(j)) /\ order[i] < order[j]

\* The plan the user approves is one the brief asked for, in the promised order.
PlanFollowsBrief == PlanCoversBrief /\ SafestFirst

-----------------------------------------------------------------------------
(* The preset library.                                                     *)

Loaded == Loads(input.files, input.source, input.version, 1)

\* The fallback is reached by falling through and in no other way: no use case
\* matches it, and a packaged library resolves every use case.
FallbackIsLast ==
    input.rule = "library" /\ Loaded =>
        \A use \in Tokens \cup {"unheard of"} :
            /\ Match(input.files, use) # FallbackId
            /\ Resolve(input.files, use) = FallbackId => Match(input.files, use) = NoPreset
            /\ input.source = "package" => Resolve(input.files, use) # NoPreset

\* Who answers for a token of the vocabulary (load_library does not insist that
\* the fallback claims its own token only).
Claims(file, use) == {use, Wildcard} \cap file.uses # {}

\* A token listed with a preset of the catalogue that is not the fallback leads to
\* the first such preset, in file order, that claims it or the wildcard: to the
\* one it is listed with unless an earlier file answers.  A token offered to the
\* classifier leads to a preset that claims it or the wildcard, if only to a
\* fallback that claims more than its own token.
OfferedTokensMatch ==
    input.rule = "library" /\ Loaded =>
        LET files == input.files
            listed == {i \in DOMAIN files : ~Catalogue(files)[i].fallback}
        IN  /\ \A i \in listed : \A use \in Catalogue(files)[i].tokens :
                  \E k \in listed :
                      /\ k <= i /\ Claims(files[k], use)
                      /\ \A j \in listed : j < k => ~Claims(files[j], use)
                      /\ Match(files, use) = files[k].id
            /\ \A use \in UseCaseTokens(files) :
                  \E k \in DOMAIN files :
                      Claims(files[k], use) /\ Resolve(files, use) = files[k].id

\* What the library offers leads to a preset that claims it, in file order, and
\* the fallback is reached by falling through only.
UseCasesResolve == FallbackIsLast /\ OfferedTokensMatch

-----------------------------------------------------------------------------
(* The slots.                                                              *)

Filled == Fill(input.preset, input.raw, input.answer)

\* What either filler returns passes the validation of resolve_constraints, and
\* what passes there still does when the composition is laid over it and when a
\* step puts its instruction in, so the loop never raises on a slot.
FillsStayValid ==
    input.rule = "slots" =>
        LET p == input.preset
            overlaid == ApplyComposition(p, Filled)
        IN  /\ Validates(p, Filled) /\ Validates(p, overlaid)
            /\ Validates(p, SlotsForStep(p, Filled, input.instruction))
            /\ Validates(p, SlotsForStep(p, overlaid, input.instruction))

\* A model never words a free-form slot: it holds the user's answer if it is the
\* question, and else the preset's value.  So free-form locks (passport white) are
\* fixed, whatever the user, the model or a step asks for.
FreeFormIsVerbatim ==
    input.rule = "slots" =>
        \A name \in Names(input.preset) :
            LET slot == Named(input.preset, name)
            IN  FreeForm(slot) =>
                  /\ Filled[name] \in {input.answer, slot.default}
                  /\ slot.locked /\ ~slot.ask =>
                        LockedValues(input.preset, Filled)[name] = slot.default

\* A slot with a vocabulary takes what the model chose whenever its whole fill
\* parses, whatever the user answered.  Otherwise the slot of the question takes
\* the option that shares most words with the answer, the first of its equals,
\* and every other slot, or the question's if nothing is shared, its default.
VocabularyIsChosen ==
    input.rule = "slots" =>
        \A name \in Names(input.preset) :
            LET slot == Named(input.preset, name)
                options == slot.enum
                score(i) == Overlap(options[i], input.answer)
                asked == slot.ask /\ input.answer # NoValue
            IN  ~FreeForm(slot) =>
                  IF Parses(input.preset, input.raw) THEN Filled[name] = input.raw[name]
                  ELSE \/ /\ asked
                          /\ \E i \in DOMAIN options :
                              /\ Filled[name] = options[i] /\ score(i) > 0
                              /\ \A j \in DOMAIN options :
                                  score(j) <= score(i) /\ (j < i => score(j) < score(i))
                       \/ /\ Filled[name] = slot.default
                          /\ asked => \A i \in DOMAIN options : score(i) = 0

\* What the user said stands verbatim where the text is free.  Where it is not, the
\* model may choose among the options, and without a usable choice of its own the
\* option closest to the answer is taken.
FillsFollowAnswer == FreeFormIsVerbatim /\ VocabularyIsChosen

-----------------------------------------------------------------------------
(* The locks.                                                              *)

Items(done, k) == StepLockItems(input.inventory, input.preserve, input.steps, done, k)
Holds(items, what, name) == \E i \in DOMAIN items : items[i].what = what /\ items[i].name = name

\* In every step of a chain the person comes first, and each visible field of the
\* photo is either locked as it was, or being edited, or locked at the value an
\* earlier step gave it, unless that very phrase reads as an injection.
\* Nothing that was edited is locked as it was.
RegionsStayHeld ==
    input.rule = "locks" /\ input.inventory # NoInventory =>
        \A k \in DOMAIN input.steps :
            LET items == Items(0, k)
                editing(j) == EditedRegions(input.steps[j].targets)
                poisoned(j) == IsInjection(IF input.steps[j].applied = {}
                                           THEN input.steps[j].words
                                           ELSE input.steps[j].applied)
            IN  /\ Head(items) = PersonLock
                /\ \A f \in ToSet(Fields) : input.inventory.fields[f] # {} =>
                    IF \E j \in 1..k : f \in editing(j)
                    THEN /\ ~Holds(items, "field", f)
                         /\ \A j \in 1..(k - 1) : f \in editing(j) =>
                               Holds(items, "applied", j) \/ poisoned(j)
                    ELSE \/ Holds(items, "field", f)
                         \/ IsInjection(input.inventory.fields[f])

\* A chain that is entered again after any number of completed steps locks what
\* the uninterrupted chain would, in every step and in the enhance step.
ResumeKeepsLocks ==
    input.rule = "locks" =>
        /\ \A k \in DOMAIN input.steps : \A done \in 0..(k - 1) : Items(done, k) = Items(0, k)
        /\ \A done \in 0..Len(input.steps) :
              EnhanceLockItems(input.steps, done) = EnhanceLockItems(input.steps, 0)

\* However often the chain is entered, its steps lock the same things: everything
\* they must leave alone.
LocksAreHeld == RegionsStayHeld /\ ResumeKeepsLocks

\* Whichever way a step's prompt is assembled, a poisoned body, change or lock item
\* is not in it, and the preset's locks are.  (The lighting of the inventory is not
\* guarded, and is in the texture block of the edit prompt as it was extracted.)
PromptKeepsLocks ==
    input.rule = "locks" =>
        \A k \in DOMAIN input.steps : \A body \in {{"scene"}, {"scene", Poison}} :
            LET prompt == Assemble(input.steps[k], body, Items(0, k), {"white"},
                                   LightingOf(input.inventory))
            IN  /\ prompt = Raised <=> IsInjection(body)
                /\ prompt # Raised => prompt.locks = {"white"}
                /\ prompt # Raised /\ prompt.mode = "edit" =>
                      /\ ~IsInjection(input.steps[k].words)
                      /\ Head(prompt.items) = PersonLock
                      /\ \A i \in DOMAIN prompt.items : ~IsInjection(prompt.items[i].text)
=============================================================================
