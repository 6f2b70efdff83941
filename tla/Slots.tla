------------------------------- MODULE Slots --------------------------------
(***************************************************************************)
(* Slot values from the preset to the prompt: services/slot_filler.py (the *)
(* free filler and the composition overlay), _parse_fill and               *)
(* _verbatim_freeform of connectors/openrouter_slot_filler.py,             *)
(* _validate_slots of prompt_builder.py and _slots_for_step of the loop.   *)
(*                                                                         *)
(* A preset has slots, a sequence in the order of its file, each           *)
(* [name, enum, default, ask, locked]; enum is a sequence of options,      *)
(* empty for a free-form slot (enum: null; a declared empty vocabulary is  *)
(* not well-formed).  A value or an answer is a set of words.              *)
(***************************************************************************)
EXTENDS Integers, Sequences, FiniteSets, SequencesExt

CONSTANTS
    Stop,       \* the words of _STOPWORDS
    NoValue     \* None

Named(preset, name) == preset.slots[CHOOSE i \in DOMAIN preset.slots :
                                        preset.slots[i].name = name]
Names(preset) == {preset.slots[i].name : i \in DOMAIN preset.slots}
FreeForm(slot) == slot.enum = <<>>

\* The presets of the library: a placeholder for each slot that is not locked, one
\* question at most and overrides of declared slots, as its tests demand, and
\* defaults and overrides in the vocabulary and a default unless the slot is the
\* free-form question, as its files have it (nothing checks that at load).
WellFormed(preset) ==
    /\ Cardinality({i \in DOMAIN preset.slots : preset.slots[i].ask}) <= 1
    /\ preset.placeholders = {name \in Names(preset) : ~Named(preset, name).locked}
    /\ \A i \in DOMAIN preset.slots :
        LET slot == preset.slots[i]
        IN  /\ ~FreeForm(slot) => slot.default \in ToSet(slot.enum)
            /\ slot.default = NoValue => slot.ask /\ FreeForm(slot)
    /\ \A name \in DOMAIN preset.overrides :
        /\ name \in Names(preset)
        /\ FreeForm(Named(preset, name)) \/
              preset.overrides[name] \in ToSet(Named(preset, name).enum)

-----------------------------------------------------------------------------
Overlap(option, answer) == Cardinality((option \ Stop) \cap (answer \ Stop))

\* One turn of the loop of _match_option.
Better(best, option, answer) ==
    IF Overlap(option, answer) > (IF best = NoValue THEN 0 ELSE Overlap(best, answer))
    THEN option ELSE best

MatchOption(answer, options) ==
    FoldLeft(LAMBDA best, option : Better(best, option, answer), NoValue, options)

\* DefaultSlotFiller, one slot; NoValue makes it raise.
DefaultValue(slot, answer) ==
    CASE ~(slot.ask /\ answer # NoValue) -> slot.default
      [] slot.ask /\ answer # NoValue /\ FreeForm(slot) -> answer
      [] OTHER -> IF MatchOption(answer, slot.enum) = NoValue THEN slot.default
                  ELSE MatchOption(answer, slot.enum)

DefaultFill(preset, answer) ==
    [name \in Names(preset) |-> DefaultValue(Named(preset, name), answer)]

\* _parse_fill accepts what the model returned.
Parses(preset, raw) ==
    /\ DOMAIN raw = Names(preset)
    /\ \A name \in DOMAIN raw :
        /\ raw[name] # {}
        /\ FreeForm(Named(preset, name)) \/ raw[name] \in ToSet(Named(preset, name).enum)

\* Mutant: the model's wording of a free-form slot stands.
ParaphrasedFreeform(preset, raw, answer) == raw

VerbatimFreeform(preset, raw, answer) ==
    [name \in DOMAIN raw |->
        LET slot == Named(preset, name)
        IN  CASE ~FreeForm(slot) -> raw[name]
              [] FreeForm(slot) /\ slot.ask /\ answer # NoValue -> answer
              [] OTHER -> IF slot.default # NoValue THEN slot.default ELSE raw[name]]

\* OpenRouterSlotFiller.fill, once the model was asked.
Fill(preset, raw, answer) ==
    IF Parses(preset, raw) THEN VerbatimFreeform(preset, raw, answer)
    ELSE DefaultFill(preset, answer)

\* apply_composition, for the composition with these overrides.
ApplyComposition(preset, slots) ==
    [name \in DOMAIN slots \cup DOMAIN preset.overrides |->
        IF name \in DOMAIN preset.overrides THEN preset.overrides[name]
        ELSE slots[name]]

\* Mutant: the first slot takes the instruction, with or without a vocabulary.
StepInFirstSlot(preset, slots, instruction) ==
    [slots EXCEPT ![preset.slots[1].name] = instruction]

\* _slots_for_step: the first free-form slot takes the step's instruction.
SlotsForStep(preset, slots, instruction) ==
    LET free == SelectInSeq(preset.slots, LAMBDA slot : FreeForm(slot))
    IN  IF instruction = {} \/ free = 0 THEN slots
        ELSE [slots EXCEPT ![preset.slots[free].name] = instruction]

\* The locks of the loop are taken from the session, before the step's merge.
LockedValues(preset, slots) ==
    [name \in {n \in DOMAIN slots : Named(preset, n).locked} |-> slots[name]]

\* _validate_slots does not raise.
Validates(preset, slots) ==
    /\ DOMAIN slots \subseteq Names(preset)
    /\ preset.placeholders \subseteq DOMAIN slots
    /\ \A name \in DOMAIN slots :
        FreeForm(Named(preset, name)) \/ slots[name] \in ToSet(Named(preset, name).enum)
=============================================================================
