--------------------------- MODULE PresetLibrary ----------------------------
(***************************************************************************)
(* services/preset_matcher.py: loading the preset files, matching a use    *)
(* case, and the catalogue the API lists (api/routes.py).                  *)
(*                                                                         *)
(* A file is [id, uses]; a library is the sequence of files in the order   *)
(* of their names, which is the order of the loaded index.                 *)
(***************************************************************************)
EXTENDS Integers, Sequences, SequencesExt

CONSTANTS Ids, Tokens, FallbackId, Reserved, Wildcard, NoPreset

ASSUME LibraryAssumption ==
    /\ FallbackId \in Ids /\ NoPreset \notin Ids
    /\ {Reserved, Wildcard} \subseteq Tokens

\* _check_reserved_token passes.
ReservedTokenOk(file) == (Reserved \in file.uses) <=> (file.id = FallbackId)

\* _check_min_version: a version that does not parse is let through.
Unparsed == -1
VersionOk(version, minimum) == version = Unparsed \/ version >= minimum

\* load_library returns; otherwise it raises at startup.
Loads(files, source, version, minimum) ==
    /\ \A i, j \in DOMAIN files : i # j => files[i].id # files[j].id
    /\ \A i \in DOMAIN files : ReservedTokenOk(files[i])
    /\ files # <<>>
    /\ source = "package" =>
        /\ VersionOk(version, minimum)
        /\ \E i \in DOMAIN files : files[i].id = FallbackId

-----------------------------------------------------------------------------
\* Mutant: the wildcard lets the fallback in.
AdmitsFallback(preset, use) == use \in preset.uses \/ Wildcard \in preset.uses

Admits(preset, use) ==
    /\ Reserved \notin preset.uses
    /\ use \in preset.uses \/ Wildcard \in preset.uses

\* The first that admits the use case.
Match(library, use) ==
    LET first == SelectInSeq(library, LAMBDA preset : Admits(preset, use))
    IN  IF first = 0 THEN NoPreset ELSE library[first].id

Fallback(library) ==
    IF \E i \in DOMAIN library : library[i].id = FallbackId
    THEN FallbackId ELSE NoPreset

Resolve(library, use) ==
    IF Match(library, use) # NoPreset THEN Match(library, use)
    ELSE Fallback(library)

\* The vocabulary the classifier maps a brief to.
UseCaseTokens(library) ==
    (UNION {library[i].uses : i \in DOMAIN library}) \ {Reserved}

\* GET /v1/presets
Catalogue(library) ==
    [i \in DOMAIN library |-> [id |-> library[i].id, tokens |-> library[i].uses,
                               fallback |-> library[i].id = FallbackId]]
=============================================================================
