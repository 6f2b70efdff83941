----------------------------- MODULE LockItems ------------------------------
(***************************************************************************)
(* What an edit step must leave alone: edit_lock_items and the assembly of *)
(* services/prompt_builder.py, and the ledger of completed steps that the  *)
(* generation loop keeps for it (absorb, _assemble).                       *)
(*                                                                         *)
(* A text is a set of words; an item is [what, name, text].  A step is     *)
(* [targets, words, applied, status], words being those of its             *)
(* instruction.  Poison is a word that makes a text match the injection    *)
(* patterns.                                                               *)
(***************************************************************************)
EXTENDS Integers, Sequences, SequencesExt, Selection

CONSTANTS
    Fields,    \* _FIELD_LABELS: the inventory's fields in render order
    Regions,   \* _FIELD_REGIONS: editable field -> the targets that name it
    Lighting,  \* the field that also anchors the texture block
    Filler,    \* _ACCESSORY_STOPWORDS
    Poison,
    NoInventory

ASSUME RegionsAssumption ==
    /\ Fields \in Seq(ToSet(Fields))
    /\ DOMAIN Regions \subseteq ToSet(Fields)
    /\ Lighting \in ToSet(Fields)

Item(what, name, text) == [what |-> what, name |-> name, text |-> text]
PersonLock == Item("person", "person", {})

IsInjection(text) == Poison \in text
ContentTokens(text) == text \ Filler
EditedRegions(targets) == {f \in DOMAIN Regions : Regions[f] \cap targets # {}}

\* The inventory's visible fields and its accessories, without what was or is
\* being edited.
LockedFields(inventory, targets) ==
    Only(Fields, {i \in DOMAIN Fields : /\ Fields[i] \notin EditedRegions(targets)
                                        /\ inventory.fields[Fields[i]] # {}})

LockedAccessories(inventory, targets, words) ==
    LET unlock == ContentTokens(words) \cup ContentTokens(targets)
    IN  Only(inventory.accessories,
             {i \in DOMAIN inventory.accessories :
                ContentTokens(inventory.accessories[i]) \cap unlock = {}})

InventoryItems(inventory, targets, words) ==
    IF inventory = NoInventory THEN <<>>
    ELSE LET fields == LockedFields(inventory, targets)
             kept == LockedAccessories(inventory, targets, words)
         IN  [i \in DOMAIN fields |-> Item("field", fields[i], inventory.fields[fields[i]])]
             \o [i \in DOMAIN kept |-> Item("accessory", "accessory", kept[i])]

\* Blank preserve entries are skipped; the phrase of a step is never blank.
EditLockItems(inventory, preserve, applied, targets, words) ==
    LET asked == Only(preserve, {i \in DOMAIN preserve : preserve[i] # {}})
        items == <<PersonLock>>
                 \o InventoryItems(inventory, targets, words)
                 \o [i \in DOMAIN asked |-> Item("preserve", "preserve", asked[i])]
                 \o [i \in DOMAIN applied |-> Item("applied", applied[i].n, applied[i].text)]
    IN  Only(items, {i \in DOMAIN items : ~IsInjection(items[i].text)})

-----------------------------------------------------------------------------
(* The ledger of the loop.                                                 *)

NoLedger == [applied |-> <<>>, targets |-> {}, words |-> {}]

\* absorb(): without a phrase of the planner the instruction stands for it.
Absorb(ledger, step) ==
    [applied |-> Append(ledger.applied,
                        [n |-> step.n, text |-> IF step.applied = {} THEN step.words
                                                ELSE step.applied]),
     targets |-> ledger.targets \cup step.targets,
     words |-> ledger.words \cup step.words]

\* Every step of a list, absorbed one after the other.
Absorbed(ledger, steps) ==
    LET after[i \in 0..Len(steps)] ==
            IF i = 0 THEN ledger ELSE Absorb(after[i - 1], steps[i])
    IN  after[Len(steps)]

\* Mutant: a resumed chain starts with an empty ledger.
LedgerAfresh(steps) == NoLedger

\* What a run starts with: its completed steps.
LedgerAtStart(steps) ==
    Absorbed(NoLedger, Only(steps, {i \in DOMAIN steps : steps[i].status = "completed"}))

\* The ledger before step k, in a run that found the first done steps completed.
LedgerBefore(steps, done, k) ==
    LET record == [i \in DOMAIN steps |->
                      [steps[i] EXCEPT !.status = IF i <= done THEN "completed" ELSE @]]
    IN  Absorbed(LedgerAtStart(record), SubSeq(steps, done + 1, k - 1))

\* The lock items of step k of such a run.
StepLockItems(inventory, preserve, steps, done, k) ==
    LET ledger == LedgerBefore(steps, done, k)
    IN  EditLockItems(inventory, preserve, ledger.applied,
                      ledger.targets \cup steps[k].targets,
                      ledger.words \cup steps[k].words)

\* The enhance step locks the person and what the steps before it applied.
EnhanceLockItems(steps, done) ==
    EditLockItems(NoInventory, <<>>, LedgerBefore(steps, done, Len(steps) + 1).applied,
                  {}, {})

-----------------------------------------------------------------------------
(* Assembly.  A prompt is its parts; Raised is FreeFormRejectedError.      *)

Raised == [mode |-> "raised"]

AssemblePrompt(body, locks) ==
    IF IsInjection(body) THEN Raised
    ELSE [mode |-> "plain", items |-> <<>>, body |-> body, locks |-> locks]

\* The lighting of the photo, that the texture block asks a change to match.
\* The guards do not see it.
LightingOf(inventory) ==
    IF inventory = NoInventory THEN {} ELSE inventory.fields[Lighting]

AssembleEditPrompt(body, change, items, locks, lighting) ==
    IF IsInjection(change) \/ IsInjection(body) THEN Raised
    ELSE [mode |-> "edit", items |-> IF items = <<>> THEN <<PersonLock>> ELSE items,
          body |-> body, texture |-> lighting, locks |-> locks]

\* Mutant: the plain prompt is used without the preset's locks.
AssembleUnlocked(step, body, items, locks, lighting) ==
    LET edit == AssembleEditPrompt(body, step.words, items, locks, lighting)
    IN  IF step.words # {} /\ edit # Raised THEN edit ELSE AssemblePrompt(body, {})

\* _assemble: an instruction the guards reject degrades to the plain prompt.
Assemble(step, body, items, locks, lighting) ==
    LET edit == AssembleEditPrompt(body, step.words, items, locks, lighting)
    IN  IF step.words # {} /\ edit # Raised THEN edit ELSE AssemblePrompt(body, locks)
=============================================================================
