----------------------------- MODULE FaceProfile ----------------------------
(***************************************************************************)
(* One face_key: the photo and the face crop in object storage, and the    *)
(* face profile in the state store, shared by every ingest request         *)
(* (api/routes.py) and every session (graph/nodes.py analyze,              *)
(* extract_inventory and generate, and the generation loop) on that face.  *)
(*                                                                         *)
(* Nothing locks a face.  Each action below is what happens between two    *)
(* awaits: a request or a session reads one object, or writes one, and any *)
(* other request or session may run in between.  The profile is always     *)
(* written back whole, from the copy its writer loaded earlier.            *)
(*                                                                         *)
(* A photo stands for its bytes; what is computed from it (embedding,      *)
(* metrics, verdict, crop, inventory) is represented by the photo it was   *)
(* computed from.                                                          *)
(***************************************************************************)
EXTENDS Integers

CONSTANTS
    Ingests,     \* ingest requests
    Sessions,    \* sessions on this face
    Photos,      \* what a request may upload
    Grade,       \* photo -> "good", "poor", "faceless" or "junk"
    NoPhoto,
    Sims,        \* similarities a face check may measure
    MaxChecks    \* bound: face checks of one session

Grades == {"good", "poor", "faceless", "junk"}

ASSUME FaceProfileAssumption ==
    /\ NoPhoto \notin Photos
    /\ Grade \in [Photos -> Grades]
    /\ Sims \subseteq Nat \ {0}
    /\ MaxChecks \in Nat
    /\ Ingests \cap Sessions = {}

VARIABLES
    photo,      \* object storage: photos/{face_key}
    crop,       \* object storage: faces/{face_key}/crop
    profile,    \* state store: the face profile
    ingest,     \* ingest request -> what it does and with which photo
    session,    \* session -> what it does and what it has loaded
    \* history
    settledOn,  \* the photo of an undisturbed ingest, until the next ingest
    exposed,    \* requests and sessions that ran beside an ingest
    crowded,    \* two sessions have run at the same time
    extracted,  \* inventories extracted since the profile was last created
    seen        \* photo -> similarities measured against it

history == <<settledOn, exposed, crowded, extracted, seen>>
vars == <<photo, crop, profile, ingest, session, history>>

-----------------------------------------------------------------------------
MaybePhoto == Photos \cup {NoPhoto}

\* convergence: best and last are 0 before the first face check.
Profile == [of : Photos, inventory : MaybePhoto, attempts : Nat,
            best : Nat, last : Nat, improved : BOOLEAN]
NoProfile == [of |-> NoPhoto]

\* VisionService.ingest: a profile fresh from the analysis of p.
Fresh(p) == [of |-> p, inventory |-> NoPhoto, attempts |-> 0,
             best |-> 0, last |-> 0, improved |-> FALSE]

\* decode_rgb raises on junk; a face was detected; the photo can anchor an
\* identity (gate_verdict is not BELOW_FLOOR, and there is an embedding).
Decodes(p) == Grade[p] # "junk"
HasFace(p) == Grade[p] \in {"good", "poor"}
Accepted(p) == Grade[p] = "good"

IngestPlaces == {"idle", "stored", "written", "done", "failed"}
SessionPlaces == {"idle", "analyze", "lazy", "lazyWritten", "gate", "inventory",
                  "cataloguing", "catalogued", "generate", "load", "reference",
                  "checking", "done", "failed"}

\* What a session holds: the profile it loaded, and the photo and the crop.
Held == [at : SessionPlaces, mine : Profile \cup {NoProfile},
         ref : MaybePhoto, crop : MaybePhoto, checks : 0..MaxChecks]

Holding(place) == [at |-> place, mine |-> NoProfile, ref |-> NoPhoto,
                   crop |-> NoPhoto, checks |-> 0]

BusyIngests == {i \in Ingests : ingest[i].at \in {"stored", "written"}}
BusySessions == {s \in Sessions : session[s].at \notin {"idle", "done", "failed"}}

Init ==
    /\ photo = NoPhoto /\ crop = NoPhoto /\ profile = NoProfile
    /\ ingest = [i \in Ingests |-> [at |-> "idle", of |-> NoPhoto]]
    /\ session = [s \in Sessions |-> Holding("idle")]
    /\ settledOn = NoPhoto /\ exposed = {} /\ crowded = FALSE
    /\ extracted = 0
    /\ seen = [p \in Photos |-> {}]

-----------------------------------------------------------------------------
(* POST /v1/faces/{face_key}                                               *)

\* The photo is stored before anything is known about it.  A retry after an
\* error (errors are not kept under the idem_key) is another request like this.
Store(i) ==
    /\ ingest[i].at = "idle"
    /\ \E p \in Photos :
        /\ photo' = p
        /\ ingest' = [ingest EXCEPT ![i] = [at |-> "stored", of |-> p]]
    /\ settledOn' = NoPhoto
    /\ LET busy == BusyIngests \cup BusySessions
       IN  exposed' = exposed \cup busy \cup (IF busy = {} THEN {} ELSE {i})
    /\ UNCHANGED <<crop, profile, session, crowded, extracted, seen>>

Answer(i, place) ==
    ingest' = [ingest EXCEPT ![i] = [at |-> place, of |-> NoPhoto]]

\* The undisturbed request has the face to itself from beginning to end.
Settle(i) == settledOn' = IF i \in exposed THEN NoPhoto ELSE ingest[i].of

\* Analysis, then put_face with a fresh profile.
PutFace(i) ==
    /\ ingest[i].at = "stored"
    /\ Decodes(ingest[i].of)
    /\ profile' = Fresh(ingest[i].of)
    /\ extracted' = 0
    /\ ingest' = [ingest EXCEPT ![i].at = "written"]
    /\ UNCHANGED <<photo, crop, session, settledOn, exposed, crowded, seen>>

\* Mutant: the crop is only stored once.
PutCropOnce(i) ==
    /\ ingest[i].at = "written"
    /\ crop' = IF crop = NoPhoto /\ HasFace(ingest[i].of) THEN ingest[i].of
               ELSE crop
    /\ Answer(i, "done")
    /\ Settle(i)
    /\ UNCHANGED <<photo, profile, session, exposed, crowded, extracted, seen>>

\* No face, no crop: an older one stays.
PutCrop(i) ==
    /\ ingest[i].at = "written"
    /\ crop' = IF HasFace(ingest[i].of) THEN ingest[i].of ELSE crop
    /\ Answer(i, "done")
    /\ Settle(i)
    /\ UNCHANGED <<photo, profile, session, exposed, crowded, extracted, seen>>

\* 400 for a photo that does not decode, or 504: the timeout covers all the
\* writes and undoes none of them.
IngestFails(i) ==
    /\ ingest[i].at \in {"stored", "written"}
    /\ Answer(i, "failed")
    /\ UNCHANGED <<photo, crop, profile, session, history>>

-----------------------------------------------------------------------------
(* Sessions.                                                               *)

\* The session moves on and keeps nothing of what it loaded.
Moves(s, place) == session' = [session EXCEPT ![s] = Holding(place)]

\* start_session: a profile that cannot anchor is refused up front; without a
\* profile it is enough that there is a photo.
Start(s) ==
    /\ session[s].at = "idle"
    /\ IF profile = NoProfile THEN photo # NoPhoto ELSE Accepted(profile.of)
    /\ Moves(s, "analyze")
    /\ exposed' = exposed \cup BusyIngests
                     \cup (IF settledOn = NoPhoto THEN {s} ELSE {})
    /\ crowded' = (crowded \/ BusySessions # {})
    /\ UNCHANGED <<photo, crop, profile, ingest, settledOn, extracted, seen>>

\* analyze: reuse the stored profile,
AnalyzeReuses(s) ==
    /\ session[s].at = "analyze"
    /\ profile # NoProfile
    /\ session' = [session EXCEPT ![s].at = "gate", ![s].mine = profile]
    /\ UNCHANGED <<photo, crop, profile, ingest, history>>

\* ... or read the photo and ingest it here.
AnalyzeReads(s) ==
    /\ session[s].at = "analyze"
    /\ profile = NoProfile
    /\ session' = [session EXCEPT ![s].at = "lazy", ![s].ref = photo]
    /\ UNCHANGED <<photo, crop, profile, ingest, history>>

AnalyzeStores(s) ==
    /\ session[s].at = "lazy"
    /\ Decodes(session[s].ref)
    /\ profile' = Fresh(session[s].ref)
    /\ extracted' = 0
    /\ session' = [session EXCEPT ![s].at = "lazyWritten", ![s].mine = profile']
    /\ UNCHANGED <<photo, crop, ingest, settledOn, exposed, crowded, seen>>

AnalyzeCrops(s) ==
    /\ session[s].at = "lazyWritten"
    /\ crop' = IF HasFace(session[s].ref) THEN session[s].ref ELSE crop
    /\ session' = [session EXCEPT ![s].at = "gate", ![s].ref = NoPhoto]
    /\ UNCHANGED <<photo, profile, ingest, history>>

\* The photo does not decode: the exception ends the run.
AnalyzeRaises(s) ==
    /\ session[s].at = "lazy"
    /\ ~Decodes(session[s].ref)
    /\ Moves(s, "failed")
    /\ UNCHANGED <<photo, crop, profile, ingest, history>>

\* Mutant: the gate lets everything with an embedding pass.
QualityGateLenient(s) ==
    /\ session[s].at = "gate"
    /\ Moves(s, IF HasFace(session[s].mine.of) THEN "inventory" ELSE "failed")
    /\ UNCHANGED <<photo, crop, profile, ingest, history>>

\* quality_gate decides on what analyze returned.
QualityGate(s) ==
    /\ session[s].at = "gate"
    /\ Moves(s, IF Accepted(session[s].mine.of) THEN "inventory" ELSE "failed")
    /\ UNCHANGED <<photo, crop, profile, ingest, history>>

\* Mutant: an inventory that is there is extracted again.
InventoryReadsAlways(s) ==
    /\ session[s].at = "inventory"
    /\ IF profile = NoProfile
       THEN Moves(s, "generate")
       ELSE session' = [session EXCEPT ![s].at = "cataloguing",
                                       ![s].mine = profile]
    /\ UNCHANGED <<photo, crop, profile, ingest, history>>

\* extract_inventory loads the profile and has nothing to do if it is gone or
\* already carries an inventory.
InventoryReads(s) ==
    /\ session[s].at = "inventory"
    /\ IF profile = NoProfile \/ profile.inventory # NoPhoto
       THEN Moves(s, "generate")
       ELSE session' = [session EXCEPT ![s].at = "cataloguing",
                                       ![s].mine = profile]
    /\ UNCHANGED <<photo, crop, profile, ingest, history>>

\* The photo is read and shown to the model (it was stored before any profile,
\* and nothing deletes it).
Catalogue(s) ==
    /\ session[s].at = "cataloguing"
    /\ session' = [session EXCEPT ![s].at = "catalogued", ![s].ref = photo]
    /\ UNCHANGED <<photo, crop, profile, ingest, history>>

\* The profile loaded before the call is written back with the inventory.
InventoryWrites(s) ==
    /\ session[s].at = "catalogued"
    /\ profile' = [session[s].mine EXCEPT !.inventory = session[s].ref]
    /\ extracted' = extracted + 1
    /\ Moves(s, "generate")
    /\ UNCHANGED <<photo, crop, ingest, settledOn, exposed, crowded, seen>>

\* No budget, a failed call or an empty catalogue: nothing is stored.
InventoryEmpty(s) ==
    /\ session[s].at = "catalogued"
    /\ Moves(s, "generate")
    /\ UNCHANGED <<photo, crop, profile, ingest, history>>

\* generate reads the crop ...
ReadCrop(s) ==
    /\ session[s].at = "generate"
    /\ session' = [session EXCEPT ![s].at = "load", ![s].crop = crop]
    /\ UNCHANGED <<photo, crop, profile, ingest, history>>

\* Mutant: the loop goes on with a profile without an embedding.
LoadAny(s) ==
    /\ session[s].at = "load"
    /\ IF profile # NoProfile
       THEN session' = [session EXCEPT ![s].at = "reference",
                                       ![s].mine = profile]
       ELSE Moves(s, "failed")
    /\ UNCHANGED <<photo, crop, profile, ingest, history>>

\* ... the loop loads the profile, and raises if it is gone or has no embedding,
Load(s) ==
    /\ session[s].at = "load"
    /\ IF profile # NoProfile /\ HasFace(profile.of)
       THEN session' = [session EXCEPT ![s].at = "reference",
                                       ![s].mine = profile]
       ELSE Moves(s, "failed")
    /\ UNCHANGED <<photo, crop, profile, ingest, history>>

\* ... and then the photo it will edit.
LoadReference(s) ==
    /\ session[s].at = "reference"
    /\ session' = [session EXCEPT ![s].at = "checking", ![s].ref = photo]
    /\ UNCHANGED <<photo, crop, profile, ingest, history>>

\* _track_convergence
Track(p, sim) ==
    [p EXCEPT !.attempts = @ + 1, !.last = sim, !.improved = sim > p.best,
              !.best = IF sim > @ THEN sim ELSE @]

\* A frame is measured; the loop's own copy of the profile is written back.
FaceCheck(s) ==
    /\ session[s].at = "checking"
    /\ session[s].checks < MaxChecks
    /\ \E sim \in Sims :
        LET mine == Track(session[s].mine, sim)
        IN  /\ profile' = mine
            /\ session' = [session EXCEPT ![s].mine = mine,
                                          ![s].checks = @ + 1]
            /\ seen' = [seen EXCEPT ![mine.of] = @ \cup {sim}]
    /\ UNCHANGED <<photo, crop, ingest, settledOn, exposed, crowded, extracted>>

\* The session ends, or dies, wherever it is.
End(s) ==
    /\ s \in BusySessions
    /\ Moves(s, "done")
    /\ UNCHANGED <<photo, crop, profile, ingest, history>>

\* The profile's TTL runs out.
Expire ==
    /\ profile # NoProfile
    /\ profile' = NoProfile
    /\ extracted' = 0
    /\ UNCHANGED <<photo, crop, ingest, session, settledOn, exposed, crowded,
                   seen>>

-----------------------------------------------------------------------------
Next ==
    \/ \E i \in Ingests : Store(i) \/ PutFace(i) \/ PutCrop(i) \/ IngestFails(i)
    \/ \E s \in Sessions :
        \/ Start(s) \/ AnalyzeReuses(s) \/ AnalyzeReads(s) \/ AnalyzeStores(s)
        \/ AnalyzeCrops(s) \/ AnalyzeRaises(s) \/ QualityGate(s)
        \/ InventoryReads(s) \/ Catalogue(s) \/ InventoryWrites(s)
        \/ InventoryEmpty(s) \/ ReadCrop(s) \/ Load(s) \/ LoadReference(s)
        \/ FaceCheck(s) \/ End(s)
    \/ Expire

Spec == Init /\ [][Next]_vars

-----------------------------------------------------------------------------
TypeOK ==
    /\ photo \in MaybePhoto /\ crop \in MaybePhoto
    /\ profile \in Profile \cup {NoProfile}
    /\ ingest \in [Ingests -> [at : IngestPlaces, of : MaybePhoto]]
    /\ session \in [Sessions -> Held]
    /\ settledOn \in MaybePhoto
    /\ exposed \subseteq Ingests \cup Sessions
    /\ crowded \in BOOLEAN
    /\ extracted \in Nat
    /\ seen \in [Photos -> SUBSET Sims]

\* After an ingest that nothing disturbed, and until the next one begins, the
\* photo, the profile, its inventory and the crop are of one and the same photo,
\* however many sessions read and write back the profile, let it expire or
\* build it again.
ProfileAgrees ==
    settledOn # NoPhoto =>
        /\ photo = settledOn
        /\ HasFace(settledOn) => crop = settledOn
        /\ profile # NoProfile => /\ profile.of = settledOn
                                  /\ profile.inventory \in {NoPhoto, settledOn}

\* A session that no ingest ran beside, on a face that was ingested undisturbed,
\* edits the photo, sends the crop and scores against the embedding of one
\* accepted photo.  (The loop itself re-checks the embedding only.)
OneIdentity ==
    \A s \in Sessions \ exposed :
        session[s].at = "checking" =>
            /\ session[s].ref = settledOn /\ session[s].crop = settledOn
            /\ session[s].mine.of = settledOn
            /\ Accepted(settledOn)

\* Whatever ran beside it, no frame is scored without an embedding, and there
\* is a reference to edit.
ScoresAreDefined ==
    \A s \in Sessions :
        session[s].at = "checking" => /\ HasFace(session[s].mine.of)
                                      /\ session[s].ref # NoPhoto

\* The convergence statistics of a profile, with whatever updates concurrent
\* sessions lose, are those of frames that were measured against its photo.
StatsAreMeasured ==
    profile # NoProfile =>
        /\ {profile.best, profile.last} \subseteq seen[profile.of] \cup {0}
        /\ profile.last <= profile.best
        /\ profile.improved => profile.last = profile.best
        /\ (profile.attempts = 0) <=> (profile.best = 0)

\* What holds of the profile and its users whatever ran beside them.
ProfileInv == TypeOK /\ ScoresAreDefined /\ StatsAreMeasured

\* "Once per photo": an inventory is extracted again only for a new profile or
\* when two sessions were in flight at once.
CataloguedOnce == crowded \/ extracted <= 1
=============================================================================
