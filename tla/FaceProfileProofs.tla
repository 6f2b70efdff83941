-------------------------- MODULE FaceProfileProofs -------------------------
(***************************************************************************)
(* For any number of ingest requests and sessions on one face, any photos  *)
(* and any number of face checks, with no lock between them:               *)
(*   - the state is well typed, no frame is scored without an embedding,   *)
(*     and the convergence statistics are those of measured frames;        *)
(*   - after an undisturbed ingest the photo, crop and profile agree, and  *)
(*     a session nobody ran beside works on one identity;                  *)
(*   - an inventory is extracted once per profile unless sessions overlap. *)
(***************************************************************************)
EXTENDS FaceProfile, TLAPS

Idle == {"idle", "done", "failed"}

\* The convergence statistics of p, given the similarities `measured'.
Stats(p, measured) ==
    /\ {p.best, p.last} \subseteq measured[p.of] \cup {0}
    /\ p.last <= p.best
    /\ p.improved => p.last = p.best
    /\ (p.attempts = 0) <=> (p.best = 0)

\* What a session holds wherever it is: a photo and a profile where the next
\* step uses them, and never statistics that were not measured.
SessionHolds(h, measured) ==
    /\ h.at \in {"lazy", "lazyWritten", "catalogued", "checking"} =>
          h.ref # NoPhoto
    /\ h.at \in {"lazyWritten", "gate", "cataloguing", "catalogued", "reference",
                 "checking"} => h.mine # NoProfile
    /\ h.at \in {"reference", "checking"} => HasFace(h.mine.of)
    /\ h.mine # NoProfile => Stats(h.mine, measured)

\* Whoever may read the photo finds one: it is stored before anything else and
\* nothing deletes it.
PhotoIsThere ==
    /\ \A i \in BusyIngests : ingest[i].of \in Photos
    /\ photo = NoPhoto => /\ profile = NoProfile
                          /\ BusyIngests = {} /\ BusySessions = {}

DataInv ==
    /\ TypeOK
    /\ PhotoIsThere
    /\ \A s \in Sessions : SessionHolds(session[s], seen)
    /\ StatsAreMeasured

\* The places behind the quality gate.
PastGate == {"inventory", "cataloguing", "catalogued", "generate", "load",
             "reference", "checking"}

\* All a running session holds is of the photo p.
SessionAgrees(h, p) ==
    h.at \notin Idle =>
        /\ h.mine # NoProfile => /\ h.mine.of = p
                                 /\ h.mine.inventory \in {NoPhoto, p}
        /\ h.ref \in {NoPhoto, p}
        /\ h.at \in {"load", "reference", "checking"} /\ HasFace(p) => h.crop = p
        /\ h.at \in PastGate => Accepted(p)

\* A request nobody has run beside has the face to itself.
Undisturbed(i) ==
    /\ BusyIngests = {i} /\ BusySessions = {}
    /\ photo = ingest[i].of
    /\ ingest[i].at = "written" => profile \in {NoProfile, Fresh(ingest[i].of)}
    /\ settledOn = NoPhoto

AgreeInv ==
    /\ ProfileAgrees
    /\ settledOn # NoPhoto =>
          /\ BusyIngests = {}
          /\ \A s \in Sessions : SessionAgrees(session[s], settledOn)
    /\ \A i \in BusyIngests \ exposed : Undisturbed(i)
    /\ BusySessions \ exposed # {} => settledOn # NoPhoto

\* While sessions never overlapped: an extraction is counted only while its
\* inventory is in the profile, and in the copy the loop writes back.
OnceInv ==
    crowded \/ /\ \A s, t \in BusySessions : s = t
               /\ extracted \in {0, 1}
               /\ extracted = 1 => /\ profile # NoProfile
                                   /\ profile.inventory # NoPhoto
               /\ \A s \in Sessions :
                    /\ session[s].at \in {"cataloguing", "catalogued"} =>
                          extracted = 0
                    /\ session[s].at \in {"reference", "checking"} =>
                          extracted = 0 \/ session[s].mine.inventory # NoPhoto

-----------------------------------------------------------------------------
\* A profile is distinguishable from none, and has a photo with a grade.
LEMMA ProfileFacts ==
  ASSUME NEW p \in Profile
  PROVE  p # NoProfile /\ p.of \in Photos /\ p.inventory \in MaybePhoto
  BY FaceProfileAssumption DEF Profile, NoProfile

\* A profile fresh from an analysis is a profile, with statistics of no frame.
LEMMA FreshFacts ==
  ASSUME NEW p \in Photos, NEW measured \in [Photos -> SUBSET Sims]
  PROVE  /\ Fresh(p) \in Profile /\ Fresh(p) # NoProfile
         /\ Fresh(p).of = p /\ Fresh(p).inventory = NoPhoto
         /\ Stats(Fresh(p), measured)
  BY FaceProfileAssumption DEF Fresh, Profile, NoProfile, MaybePhoto, Stats

\* Measuring more frames keeps statistics measured.
LEMMA StatsMonotone ==
  ASSUME NEW m \in [Photos -> SUBSET Sims], NEW n \in [Photos -> SUBSET Sims],
         \A q \in Photos : m[q] \subseteq n[q],
         NEW p \in Profile, Stats(p, m)
  PROVE  Stats(p, n)
  BY ProfileFacts DEF Stats

\* The statistics after one more frame, with the profile otherwise as it was.
LEMMA TrackFacts ==
  ASSUME NEW p \in Profile, NEW sim \in Sims,
         NEW m \in [Photos -> SUBSET Sims], Stats(p, m)
  PROVE  /\ Track(p, sim) \in Profile
         /\ Track(p, sim).of = p.of /\ Track(p, sim).inventory = p.inventory
         /\ Stats(Track(p, sim), [m EXCEPT ![p.of] = @ \cup {sim}])
<1>1. sim \in Nat \ {0}
  BY FaceProfileAssumption
<1>2. /\ p.of \in Photos /\ p.attempts \in Nat /\ p.best \in Nat /\ p.last \in Nat
      /\ p.inventory \in MaybePhoto
  BY DEF Profile
<1> DEFINE p1 == [p EXCEPT !.attempts = @ + 1]
           p2 == [p1 EXCEPT !.last = sim]
           better == sim > p.best
           p3 == [p2 EXCEPT !.improved = better]
           best == IF sim > p.best THEN sim ELSE p.best
           M == [m EXCEPT ![p.of] = @ \cup {sim}]
<1>3. /\ p1 \in Profile /\ p1.of = p.of /\ p1.inventory = p.inventory
      /\ p1.attempts = p.attempts + 1 /\ p1.best = p.best
  BY <1>2 DEF Profile
<1>4. /\ p2 \in Profile /\ p2.of = p.of /\ p2.inventory = p.inventory
      /\ p2.attempts = p.attempts + 1 /\ p2.best = p.best /\ p2.last = sim
  <2> HIDE DEF p1
  <2> QED
    BY <1>1, <1>3 DEF Profile
<1>5. /\ p3 \in Profile /\ p3.of = p.of /\ p3.inventory = p.inventory
      /\ p3.attempts = p.attempts + 1 /\ p3.best = p.best /\ p3.last = sim
  <2>1. better \in BOOLEAN
    OBVIOUS
  <2> HIDE DEF p1, p2, better
  <2> QED
    BY <1>4, <2>1 DEF Profile
<1>6. p3.improved = better
  <2> HIDE DEF p1, p2, better
  <2> QED
    BY <1>4 DEF Profile
<1>7. Track(p, sim) = [p3 EXCEPT !.best = best]
  BY <1>3, <1>4, <1>5 DEF Track
<1>8. best \in Nat
  BY <1>1, <1>2
<1>9. /\ Track(p, sim) \in Profile
      /\ Track(p, sim).of = p.of /\ Track(p, sim).inventory = p.inventory
      /\ Track(p, sim).attempts = p.attempts + 1 /\ Track(p, sim).last = sim
      /\ Track(p, sim).best = best
      /\ Track(p, sim).improved = better
  <2> HIDE DEF p3, best, better
  <2> QED
    BY <1>5, <1>6, <1>7, <1>8 DEF Profile
<1>10. M[Track(p, sim).of] = m[p.of] \cup {sim}
  BY <1>2, <1>9
<1>11. CASE sim > p.best
  <2>1. best = sim /\ best # 0 /\ p.attempts + 1 # 0
    BY <1>1, <1>2, <1>11
  <2> HIDE DEF M, best
  <2>2. Stats(Track(p, sim), M)
    BY <1>1, <1>9, <1>10, <2>1 DEF Stats
  <2> QED
    BY <1>9, <2>2 DEF M
<1>12. CASE ~(sim > p.best)
  <2>1. best = p.best /\ sim <= best /\ best # 0 /\ p.attempts + 1 # 0
    BY <1>1, <1>2, <1>12
  <2>2. best \in m[p.of]
    BY <2>1 DEF Stats
  <2> HIDE DEF M, best
  <2>3. Stats(Track(p, sim), M)
    BY <1>9, <1>10, <1>12, <2>1, <2>2 DEF Stats
  <2> QED
    BY <1>9, <2>3 DEF M
<1> QED
  BY <1>11, <1>12

\* A session that moves on and keeps nothing holds nothing it could misuse.
LEMMA HoldingFacts ==
  ASSUME NEW place \in {"idle", "analyze", "inventory", "generate", "done", "failed"},
         NEW m
  PROVE  /\ Holding(place) \in Held
         /\ Holding(place).at = place
         /\ Holding(place).mine = NoProfile
         /\ Holding(place).ref = NoPhoto
         /\ SessionHolds(Holding(place), m)
  BY FaceProfileAssumption
     DEF Holding, Held, SessionPlaces, MaybePhoto, SessionHolds

\* The code's partial updates of a session, as the actions write them.
WithProfile(s, place, mine) == [session EXCEPT ![s].at = place, ![s].mine = mine]
WithPhoto(s, place, ref) == [session EXCEPT ![s].at = place, ![s].ref = ref]
WithCrop(s, place, c) == [session EXCEPT ![s].at = place, ![s].crop = c]
WithMeasure(s, mine) == [session EXCEPT ![s].mine = mine, ![s].checks = @ + 1]

\* What they come to: the session moves to a place
\* with another profile, ...
LEMMA TakesProfile ==
  ASSUME TypeOK, NEW s \in Sessions, NEW place \in SessionPlaces,
         NEW mine \in Profile \cup {NoProfile}
  PROVE  \E h \in Held :
            /\ WithProfile(s, place, mine) = [session EXCEPT ![s] = h]
            /\ h.at = place /\ h.mine = mine
            /\ h.ref = session[s].ref /\ h.crop = session[s].crop
<1> DEFINE g == [session[s] EXCEPT !.at = place]
           h == [g EXCEPT !.mine = mine]
<1>1. session[s] \in Held
  BY DEF TypeOK
<1>2. g \in Held /\ g.at = place /\ g.ref = session[s].ref /\ g.crop = session[s].crop
  BY <1>1 DEF Held
<1>3. /\ h \in Held /\ h.at = place /\ h.mine = mine
      /\ h.ref = session[s].ref /\ h.crop = session[s].crop
  <2> HIDE DEF g
  <2> QED
    BY <1>2 DEF Held
<1>4. [session EXCEPT ![s].at = place] = [session EXCEPT ![s] = g]
  OBVIOUS
<1>5. [session EXCEPT ![s].at = place, ![s].mine = mine]
         = [[session EXCEPT ![s] = g] EXCEPT ![s].mine = mine]
  BY <1>4
<1>6. [[session EXCEPT ![s] = g] EXCEPT ![s].mine = mine]
         = [session EXCEPT ![s] = h]
  <2> HIDE DEF g
  <2> QED
    BY DEF TypeOK
<1> QED
  BY <1>3, <1>5, <1>6 DEF WithProfile

\* ... with another photo, ...
LEMMA TakesPhoto ==
  ASSUME TypeOK, NEW s \in Sessions, NEW place \in SessionPlaces,
         NEW ref \in MaybePhoto
  PROVE  \E h \in Held :
            /\ WithPhoto(s, place, ref) = [session EXCEPT ![s] = h]
            /\ h.at = place /\ h.mine = session[s].mine
            /\ h.ref = ref /\ h.crop = session[s].crop
<1> DEFINE g == [session[s] EXCEPT !.at = place]
           h == [g EXCEPT !.ref = ref]
<1>1. session[s] \in Held
  BY DEF TypeOK
<1>2. g \in Held /\ g.at = place /\ g.mine = session[s].mine /\ g.crop = session[s].crop
  BY <1>1 DEF Held
<1>3. /\ h \in Held /\ h.at = place /\ h.mine = session[s].mine
      /\ h.ref = ref /\ h.crop = session[s].crop
  <2> HIDE DEF g
  <2> QED
    BY <1>2 DEF Held
<1>4. [session EXCEPT ![s].at = place] = [session EXCEPT ![s] = g]
  OBVIOUS
<1>5. [session EXCEPT ![s].at = place, ![s].ref = ref]
         = [[session EXCEPT ![s] = g] EXCEPT ![s].ref = ref]
  BY <1>4
<1>6. [[session EXCEPT ![s] = g] EXCEPT ![s].ref = ref]
         = [session EXCEPT ![s] = h]
  <2> HIDE DEF g
  <2> QED
    BY DEF TypeOK
<1> QED
  BY <1>3, <1>5, <1>6 DEF WithPhoto

\* ... or with a crop.
LEMMA TakesCrop ==
  ASSUME TypeOK, NEW s \in Sessions, NEW place \in SessionPlaces,
         NEW c \in MaybePhoto
  PROVE  \E h \in Held :
            /\ WithCrop(s, place, c) = [session EXCEPT ![s] = h]
            /\ h.at = place /\ h.mine = session[s].mine
            /\ h.ref = session[s].ref /\ h.crop = c
<1> DEFINE g == [session[s] EXCEPT !.at = place]
           h == [g EXCEPT !.crop = c]
<1>1. session[s] \in Held
  BY DEF TypeOK
<1>2. g \in Held /\ g.at = place /\ g.mine = session[s].mine /\ g.ref = session[s].ref
  BY <1>1 DEF Held
<1>3. /\ h \in Held /\ h.at = place /\ h.mine = session[s].mine
      /\ h.ref = session[s].ref /\ h.crop = c
  <2> HIDE DEF g
  <2> QED
    BY <1>2 DEF Held
<1>4. [session EXCEPT ![s].at = place] = [session EXCEPT ![s] = g]
  OBVIOUS
<1>5. [session EXCEPT ![s].at = place, ![s].crop = c]
         = [[session EXCEPT ![s] = g] EXCEPT ![s].crop = c]
  BY <1>4
<1>6. [[session EXCEPT ![s] = g] EXCEPT ![s].crop = c]
         = [session EXCEPT ![s] = h]
  <2> HIDE DEF g
  <2> QED
    BY DEF TypeOK
<1> QED
  BY <1>3, <1>5, <1>6 DEF WithCrop

\* A face check counts itself and writes the statistics into the session's own
\* copy of the profile.
LEMMA TakesMeasure ==
  ASSUME TypeOK, NEW s \in Sessions, session[s].checks < MaxChecks,
         NEW mine \in Profile \cup {NoProfile}
  PROVE  \E h \in Held :
            /\ WithMeasure(s, mine) = [session EXCEPT ![s] = h]
            /\ h.at = session[s].at /\ h.mine = mine
            /\ h.ref = session[s].ref /\ h.crop = session[s].crop
<1> DEFINE g == [session[s] EXCEPT !.mine = mine]
           h == [g EXCEPT !.checks = @ + 1]
<1>1. session[s] \in Held
  BY DEF TypeOK
<1>2. /\ g \in Held /\ g.at = session[s].at /\ g.mine = mine
      /\ g.ref = session[s].ref /\ g.crop = session[s].crop
      /\ g.checks = session[s].checks
  BY <1>1 DEF Held
<1>3. g.checks + 1 \in 0..MaxChecks
  BY <1>1, <1>2, FaceProfileAssumption DEF Held
<1>4. /\ h \in Held /\ h.at = session[s].at /\ h.mine = mine
      /\ h.ref = session[s].ref /\ h.crop = session[s].crop
  <2> HIDE DEF g
  <2> QED
    BY <1>2, <1>3 DEF Held
<1>5. [session EXCEPT ![s].mine = mine] = [session EXCEPT ![s] = g]
  OBVIOUS
<1>6. [session EXCEPT ![s].mine = mine, ![s].checks = @ + 1]
         = [[session EXCEPT ![s] = g] EXCEPT ![s].checks = @ + 1]
  BY <1>5
<1>7. [[session EXCEPT ![s] = g] EXCEPT ![s].checks = @ + 1]
         = [session EXCEPT ![s] = h]
  <2> HIDE DEF g
  <2> QED
    BY DEF TypeOK
<1> QED
  BY <1>4, <1>6, <1>7 DEF WithMeasure

\* A session that is somewhere else than in Idle is busy.
LEMMA BusyFacts ==
  ASSUME NEW s \in Sessions
  PROVE  s \in BusySessions <=> session[s].at \notin Idle
  BY DEF BusySessions, Idle

\* One session takes a step that keeps the photo and the ingests.
LEMMA SessionStep ==
  ASSUME DataInv, NEW s \in Sessions, NEW h \in Held,
         session' = [session EXCEPT ![s] = h],
         SessionHolds(h, seen'),
         photo # NoPhoto,
         UNCHANGED <<photo, ingest>>,
         crop' \in MaybePhoto, profile' \in Profile \cup {NoProfile},
         settledOn' \in MaybePhoto, exposed' \subseteq Ingests \cup Sessions,
         crowded' \in BOOLEAN, extracted' \in Nat,
         seen' \in [Photos -> SUBSET Sims],
         \A q \in Photos : seen[q] \subseteq seen'[q],
         profile' # NoProfile => Stats(profile', seen')
  PROVE  DataInv'
<1>1. session' \in [Sessions -> Held] /\ session'[s] = h
      /\ \A t \in Sessions : t # s => session'[t] = session[t]
  BY DEF DataInv, TypeOK
<1>2. TypeOK'
  BY <1>1 DEF DataInv, TypeOK
<1>3. PhotoIsThere'
  BY DEF DataInv, PhotoIsThere, BusyIngests
<1>4. ASSUME NEW t \in Sessions PROVE SessionHolds(session'[t], seen')
  <2>1. CASE t = s
    BY <1>1, <2>1
  <2>2. CASE t # s
    <3>1. SessionHolds(session[t], seen) /\ session[t] \in Held
          /\ seen \in [Photos -> SUBSET Sims]
      BY DEF DataInv, TypeOK
    <3>2. session[t].mine # NoProfile => Stats(session[t].mine, seen')
      BY <3>1, StatsMonotone DEF SessionHolds, Held
    <3> QED
      BY <1>1, <2>2, <3>1, <3>2 DEF SessionHolds
  <2> QED
    BY <2>1, <2>2
<1>5. StatsAreMeasured'
  BY DEF StatsAreMeasured, Stats
<1> QED
  BY <1>2, <1>3, <1>4, <1>5 DEF DataInv

\* The same for a step that changes nothing but the session.
LEMMA LocalStep ==
  ASSUME DataInv, NEW s \in Sessions, NEW h \in Held,
         session' = [session EXCEPT ![s] = h],
         SessionHolds(h, seen),
         s \in BusySessions,
         UNCHANGED <<photo, crop, profile, ingest, history>>
  PROVE  DataInv'
<1>1. photo # NoPhoto
  BY DEF DataInv, PhotoIsThere
<1>2. profile # NoProfile => Stats(profile, seen)
  BY DEF DataInv, StatsAreMeasured, Stats
<1>3. /\ crop' \in MaybePhoto /\ profile' \in Profile \cup {NoProfile}
      /\ settledOn' \in MaybePhoto /\ exposed' \subseteq Ingests \cup Sessions
      /\ crowded' \in BOOLEAN /\ extracted' \in Nat
      /\ seen' \in [Photos -> SUBSET Sims] /\ seen' = seen
      /\ profile' = profile /\ photo' = photo /\ ingest' = ingest
  BY DEF DataInv, TypeOK, history
<1> QED
  BY <1>1, <1>2, <1>3, SessionStep

-----------------------------------------------------------------------------
\* The invariant is kept by the steps of an ingest request, ...
LEMMA IngestKeepsData ==
  ASSUME DataInv, NEW i \in Ingests,
         Store(i) \/ PutFace(i) \/ PutCrop(i) \/ IngestFails(i)
  PROVE  DataInv'
<1> USE FaceProfileAssumption
<1>t. TypeOK /\ seen \in [Photos -> SUBSET Sims]
      /\ \A s \in Sessions : session[s] \in Held
  BY DEF DataInv, TypeOK
<1>1. CASE Store(i)
  <2>1. PICK p \in Photos :
          /\ photo' = p
          /\ ingest' = [ingest EXCEPT ![i] = [at |-> "stored", of |-> p]]
    BY <1>1 DEF Store
  <2>2. exposed' \subseteq Ingests \cup Sessions
    BY <1>1, <1>t DEF Store, TypeOK, BusyIngests, BusySessions
  <2>3. ingest' \in [Ingests -> [at : IngestPlaces, of : MaybePhoto]]
    BY <2>1, <1>t DEF TypeOK, IngestPlaces, MaybePhoto
  <2>4. TypeOK'
    BY <1>1, <1>t, <2>1, <2>2, <2>3 DEF Store, TypeOK, MaybePhoto
  <2>5. PhotoIsThere'
    BY <1>t, <2>1 DEF DataInv, PhotoIsThere, BusyIngests, TypeOK
  <2> QED
    BY <1>1, <2>4, <2>5 DEF Store, DataInv, StatsAreMeasured
<1>2. CASE PutFace(i)
  <2>1. ingest[i].of \in Photos /\ photo # NoPhoto
    BY <1>2 DEF PutFace, DataInv, PhotoIsThere, BusyIngests
  <2>2. /\ profile' \in Profile /\ profile' # NoProfile
        /\ Stats(profile', seen)
    BY <1>2, <1>t, <2>1, FreshFacts DEF PutFace
  <2>3. /\ ingest' \in [Ingests -> [at : IngestPlaces, of : MaybePhoto]]
        /\ ingest'[i].of = ingest[i].of
        /\ \A j \in Ingests : j # i => ingest'[j] = ingest[j]
    BY <1>2, <1>t DEF PutFace, TypeOK, IngestPlaces
  <2>4. TypeOK'
    BY <1>2, <1>t, <2>2, <2>3 DEF PutFace, TypeOK
  <2>5. PhotoIsThere'
    BY <1>2, <2>1, <2>3 DEF PutFace, DataInv, PhotoIsThere, BusyIngests
  <2>6. StatsAreMeasured'
    BY <1>2, <2>2 DEF PutFace, StatsAreMeasured, Stats
  <2> QED
    BY <1>2, <2>4, <2>5, <2>6 DEF PutFace, DataInv
<1>3. CASE PutCrop(i)
  <2>1. ingest[i].of \in Photos
    BY <1>3 DEF PutCrop, DataInv, PhotoIsThere, BusyIngests
  <2>2. crop' \in MaybePhoto /\ settledOn' \in MaybePhoto
    BY <1>3, <1>t, <2>1 DEF PutCrop, Settle, TypeOK, MaybePhoto
  <2>3. ingest' = [ingest EXCEPT ![i] = [at |-> "done", of |-> NoPhoto]]
    BY <1>3 DEF PutCrop, Answer
  <2>4. TypeOK'
    BY <1>3, <1>t, <2>2, <2>3 DEF PutCrop, TypeOK, IngestPlaces, MaybePhoto
  <2>5. PhotoIsThere'
    BY <1>3, <1>t, <2>3 DEF PutCrop, DataInv, PhotoIsThere, BusyIngests, BusySessions,
       TypeOK
  <2> QED
    BY <1>3, <2>4, <2>5 DEF PutCrop, DataInv, StatsAreMeasured
<1>4. CASE IngestFails(i)
  <2>1. ingest' = [ingest EXCEPT ![i] = [at |-> "failed", of |-> NoPhoto]]
    BY <1>4 DEF IngestFails, Answer
  <2>2. TypeOK'
    BY <1>4, <1>t, <2>1 DEF IngestFails, TypeOK, IngestPlaces, MaybePhoto, history
  <2>3. PhotoIsThere'
    BY <1>4, <1>t, <2>1 DEF IngestFails, DataInv, PhotoIsThere, BusyIngests, BusySessions,
       TypeOK
  <2> QED
    BY <1>4, <2>2, <2>3 DEF IngestFails, DataInv, StatsAreMeasured, history
<1> QED
  BY <1>1, <1>2, <1>3, <1>4

\* ... of a session, ...
LEMMA SessionKeepsData ==
  ASSUME DataInv, NEW s \in Sessions,
         \/ Start(s) \/ AnalyzeReuses(s) \/ AnalyzeReads(s) \/ AnalyzeStores(s)
         \/ AnalyzeCrops(s) \/ AnalyzeRaises(s) \/ QualityGate(s)
         \/ InventoryReads(s) \/ Catalogue(s) \/ InventoryWrites(s)
         \/ InventoryEmpty(s) \/ ReadCrop(s) \/ Load(s) \/ LoadReference(s)
         \/ FaceCheck(s) \/ End(s)
  PROVE  DataInv'
<1> USE FaceProfileAssumption
<1>t. /\ TypeOK /\ seen \in [Photos -> SUBSET Sims]
      /\ photo \in MaybePhoto /\ crop \in MaybePhoto
      /\ profile \in Profile \cup {NoProfile} /\ extracted \in Nat
      /\ session[s] \in Held
      /\ SessionHolds(session[s], seen)
  BY DEF DataInv, TypeOK
<1>m. /\ session[s].mine \in Profile \cup {NoProfile}
      /\ session[s].ref \in MaybePhoto
  BY <1>t DEF Held
<1>b. s \in BusySessions => photo # NoPhoto
  BY DEF DataInv, PhotoIsThere
<1>p. profile # NoProfile => photo # NoPhoto /\ Stats(profile, seen)
  BY DEF DataInv, PhotoIsThere, StatsAreMeasured, Stats
<1>i. s \in BusySessions <=> session[s].at \notin Idle
  BY BusyFacts
<1>1. CASE Start(s)
  <2>1. photo # NoPhoto
    BY <1>1, <1>p DEF Start
  <2>2. session' = [session EXCEPT ![s] = Holding("analyze")]
    BY <1>1 DEF Start, Moves
  <2>3. Holding("analyze") \in Held /\ SessionHolds(Holding("analyze"), seen)
    BY HoldingFacts
  <2>4. exposed' \subseteq Ingests \cup Sessions /\ crowded' \in BOOLEAN
    BY <1>1, <1>t DEF Start, TypeOK, BusyIngests
  <2>5. settledOn' \in MaybePhoto
        /\ UNCHANGED <<photo, crop, profile, ingest, extracted, seen>>
    BY <1>1, <1>t DEF Start, TypeOK
  <2> QED
    BY <1>t, <1>p, <2>1, <2>2, <2>3, <2>4, <2>5, SessionStep
<1>2. CASE AnalyzeReuses(s)
  <2>1a. session' = WithProfile(s, "gate", profile)
    BY <1>2 DEF AnalyzeReuses, WithProfile
  <2>1. PICK h \in Held :
          /\ session' = [session EXCEPT ![s] = h]
          /\ h.at = "gate" /\ h.mine = profile
    BY <1>t, <2>1a, TakesProfile DEF SessionPlaces
  <2>2. SessionHolds(h, seen)
    BY <1>2, <1>p, <2>1 DEF AnalyzeReuses, SessionHolds
  <2> QED
    BY <1>2, <1>i, <2>1, <2>2, LocalStep DEF AnalyzeReuses, Idle
<1>3. CASE AnalyzeReads(s)
  <2>1a. session' = WithPhoto(s, "lazy", photo)
    BY <1>3 DEF AnalyzeReads, WithPhoto
  <2>1. PICK h \in Held :
          /\ session' = [session EXCEPT ![s] = h]
          /\ h.at = "lazy" /\ h.ref = photo /\ h.mine = session[s].mine
    BY <1>t, <2>1a, TakesPhoto DEF SessionPlaces
  <2>2. photo # NoPhoto
    BY <1>3, <1>i, <1>b DEF AnalyzeReads, Idle
  <2>3. SessionHolds(h, seen)
    BY <1>t, <2>1, <2>2 DEF SessionHolds
  <2> QED
    BY <1>3, <1>i, <2>1, <2>3, LocalStep DEF AnalyzeReads, Idle
<1>4. CASE AnalyzeStores(s)
  <2>1. session[s].ref \in Photos /\ photo # NoPhoto
    BY <1>4, <1>t, <1>m, <1>i, <1>b
       DEF AnalyzeStores, SessionHolds, MaybePhoto, Idle
  <2>2. /\ profile' \in Profile /\ profile' # NoProfile
        /\ Stats(profile', seen)
    BY <1>4, <1>t, <2>1, FreshFacts DEF AnalyzeStores
  <2>3a. session' = WithProfile(s, "lazyWritten", profile')
    BY <1>4, <2>2 DEF AnalyzeStores, WithProfile
  <2>3. PICK h \in Held :
          /\ session' = [session EXCEPT ![s] = h]
          /\ h.at = "lazyWritten" /\ h.mine = profile' /\ h.ref = session[s].ref
    BY <1>t, <2>2, <2>3a, TakesProfile DEF SessionPlaces
  <2>4. SessionHolds(h, seen)
    BY <2>1, <2>2, <2>3 DEF SessionHolds
  <2>5. /\ settledOn' \in MaybePhoto /\ exposed' \subseteq Ingests \cup Sessions
        /\ crowded' \in BOOLEAN /\ extracted' \in Nat
        /\ UNCHANGED <<photo, crop, ingest, seen>>
    BY <1>4, <1>t DEF AnalyzeStores, TypeOK
  <2> QED
    BY <1>t, <2>1, <2>2, <2>3, <2>4, <2>5, SessionStep
<1>5. CASE AnalyzeCrops(s)
  <2>1a. session' = WithPhoto(s, "gate", NoPhoto)
    BY <1>5 DEF AnalyzeCrops, WithPhoto
  <2>1. PICK h \in Held :
          /\ session' = [session EXCEPT ![s] = h]
          /\ h.at = "gate" /\ h.ref = NoPhoto /\ h.mine = session[s].mine
    BY <1>t, <2>1a, TakesPhoto DEF SessionPlaces, MaybePhoto
  <2>2. SessionHolds(h, seen)
    BY <1>5, <1>t, <2>1 DEF AnalyzeCrops, SessionHolds
  <2>3. photo # NoPhoto
    BY <1>5, <1>i, <1>b DEF AnalyzeCrops, Idle
  <2>4. /\ crop' \in MaybePhoto
        /\ settledOn' \in MaybePhoto /\ exposed' \subseteq Ingests \cup Sessions
        /\ crowded' \in BOOLEAN /\ extracted' \in Nat
        /\ UNCHANGED <<photo, profile, ingest, seen>>
    BY <1>5, <1>t, <1>m DEF AnalyzeCrops, TypeOK, history
  <2> QED
    BY <1>t, <1>p, <2>1, <2>2, <2>3, <2>4, SessionStep
<1>6. CASE AnalyzeRaises(s) \/ QualityGate(s) \/ InventoryEmpty(s) \/ End(s)
  <2>1. PICK place \in {"failed", "inventory", "generate", "done"} :
          session' = [session EXCEPT ![s] = Holding(place)]
    BY <1>6 DEF AnalyzeRaises, QualityGate, InventoryEmpty, End, Moves
  <2>2. Holding(place) \in Held /\ SessionHolds(Holding(place), seen)
    BY HoldingFacts
  <2>3. s \in BusySessions
    BY <1>6, <1>i DEF AnalyzeRaises, QualityGate, InventoryEmpty, End, Idle
  <2>4. UNCHANGED <<photo, crop, profile, ingest, history>>
    BY <1>6 DEF AnalyzeRaises, QualityGate, InventoryEmpty, End
  <2> QED
    BY <2>1, <2>2, <2>3, <2>4, LocalStep
<1>7. CASE InventoryReads(s)
  <2>1. s \in BusySessions /\ UNCHANGED <<photo, crop, profile, ingest, history>>
    BY <1>7, <1>i DEF InventoryReads, Idle
  <2>2. CASE profile = NoProfile \/ profile.inventory # NoPhoto
    <3>1. session' = [session EXCEPT ![s] = Holding("generate")]
      BY <1>7, <2>2 DEF InventoryReads, Moves
    <3> QED
      BY <2>1, <3>1, HoldingFacts, LocalStep
  <2>3. CASE ~(profile = NoProfile \/ profile.inventory # NoPhoto)
    <3>1a. session' = WithProfile(s, "cataloguing", profile)
      BY <1>7, <2>3 DEF InventoryReads, WithProfile
    <3>1. PICK h \in Held :
            /\ session' = [session EXCEPT ![s] = h]
            /\ h.at = "cataloguing" /\ h.mine = profile  
    BY <1>t, <3>1a, TakesProfile DEF SessionPlaces
    <3>2. SessionHolds(h, seen)
      BY <1>p, <2>3, <3>1 DEF SessionHolds
    <3> QED
      BY <2>1, <3>1, <3>2, LocalStep
  <2> QED
    BY <2>2, <2>3
<1>8. CASE Catalogue(s)
  <2>1a. session' = WithPhoto(s, "catalogued", photo)
    BY <1>8 DEF Catalogue, WithPhoto
  <2>1. PICK h \in Held :
          /\ session' = [session EXCEPT ![s] = h]
          /\ h.at = "catalogued" /\ h.ref = photo /\ h.mine = session[s].mine
    BY <1>t, <2>1a, TakesPhoto DEF SessionPlaces
  <2>2. photo # NoPhoto
    BY <1>8, <1>i, <1>b DEF Catalogue, Idle
  <2>3. SessionHolds(h, seen)
    BY <1>8, <1>t, <2>1, <2>2 DEF Catalogue, SessionHolds
  <2> QED
    BY <1>8, <1>i, <2>1, <2>3, LocalStep DEF Catalogue, Idle
<1>9. CASE InventoryWrites(s)
  <2>1. photo # NoPhoto /\ session[s].mine \in Profile
    BY <1>9, <1>t, <1>m, <1>i, <1>b DEF InventoryWrites, SessionHolds, Idle
  <2>2. /\ profile' \in Profile
        /\ profile'.of = session[s].mine.of /\ profile'.best = session[s].mine.best
        /\ profile'.last = session[s].mine.last
        /\ profile'.improved = session[s].mine.improved
        /\ profile'.attempts = session[s].mine.attempts
    BY <1>9, <1>m, <2>1 DEF InventoryWrites, Profile
  <2>3. Stats(session[s].mine, seen)
    BY <1>t, <2>1, ProfileFacts DEF SessionHolds
  <2>4. Stats(profile', seen)
    BY <2>2, <2>3 DEF Stats
  <2>5. session' = [session EXCEPT ![s] = Holding("generate")]
    BY <1>9 DEF InventoryWrites, Moves
  <2>6. /\ settledOn' \in MaybePhoto /\ exposed' \subseteq Ingests \cup Sessions
        /\ crowded' \in BOOLEAN /\ extracted' \in Nat
        /\ UNCHANGED <<photo, crop, ingest, seen>>
    BY <1>9, <1>t DEF InventoryWrites, TypeOK
  <2>7. Holding("generate") \in Held /\ SessionHolds(Holding("generate"), seen')
    BY HoldingFacts
  <2> QED
    BY <1>t, <2>1, <2>2, <2>4, <2>5, <2>6, <2>7, SessionStep
<1>10. CASE ReadCrop(s)
  <2>1a. session' = WithCrop(s, "load", crop)
    BY <1>10 DEF ReadCrop, WithCrop
  <2>1. PICK h \in Held :
          /\ session' = [session EXCEPT ![s] = h]
          /\ h.at = "load" /\ h.mine = session[s].mine
    BY <1>t, <2>1a, TakesCrop DEF SessionPlaces
  <2>2. SessionHolds(h, seen)
    BY <1>t, <2>1 DEF SessionHolds
  <2> QED
    BY <1>10, <1>i, <2>1, <2>2, LocalStep DEF ReadCrop, Idle
<1>11. CASE Load(s)
  <2>1. s \in BusySessions /\ UNCHANGED <<photo, crop, profile, ingest, history>>
    BY <1>11, <1>i DEF Load, Idle
  <2>2. CASE profile # NoProfile /\ HasFace(profile.of)
    <3>1a. session' = WithProfile(s, "reference", profile)
      BY <1>11, <2>2 DEF Load, WithProfile
    <3>1. PICK h \in Held :
            /\ session' = [session EXCEPT ![s] = h]
            /\ h.at = "reference" /\ h.mine = profile  
    BY <1>t, <2>2, <3>1a, TakesProfile DEF SessionPlaces
    <3>2. SessionHolds(h, seen)
      BY <1>p, <2>2, <3>1 DEF SessionHolds
    <3> QED
      BY <2>1, <3>1, <3>2, LocalStep
  <2>3. CASE ~(profile # NoProfile /\ HasFace(profile.of))
    <3>1. session' = [session EXCEPT ![s] = Holding("failed")]
      BY <1>11, <2>3 DEF Load, Moves
    <3> QED
      BY <2>1, <3>1, HoldingFacts, LocalStep
  <2> QED
    BY <2>2, <2>3
<1>12. CASE LoadReference(s)
  <2>1a. session' = WithPhoto(s, "checking", photo)
    BY <1>12 DEF LoadReference, WithPhoto
  <2>1. PICK h \in Held :
          /\ session' = [session EXCEPT ![s] = h]
          /\ h.at = "checking" /\ h.ref = photo /\ h.mine = session[s].mine
    BY <1>t, <2>1a, TakesPhoto DEF SessionPlaces
  <2>2. photo # NoPhoto
    BY <1>12, <1>i, <1>b DEF LoadReference, Idle
  <2>3. SessionHolds(h, seen)
    BY <1>12, <1>t, <2>1, <2>2 DEF LoadReference, SessionHolds
  <2> QED
    BY <1>12, <1>i, <2>1, <2>3, LocalStep DEF LoadReference, Idle
<1>13. CASE FaceCheck(s)
  <2> DEFINE mine(sim) == Track(session[s].mine, sim)
  <2>1. PICK sim \in Sims :
          /\ profile' = mine(sim)
          /\ session' = [session EXCEPT ![s].mine = mine(sim), ![s].checks = @ + 1]
          /\ seen' = [seen EXCEPT ![mine(sim).of] = @ \cup {sim}]
    BY <1>13 DEF FaceCheck
  <2>2. /\ session[s].at = "checking" /\ session[s].checks < MaxChecks
        /\ session[s].mine \in Profile /\ session[s].mine # NoProfile
        /\ HasFace(session[s].mine.of) /\ session[s].ref # NoPhoto
        /\ Stats(session[s].mine, seen)
    BY <1>13, <1>t, <1>m DEF FaceCheck, SessionHolds
  <2>3. photo # NoPhoto
    BY <1>i, <1>b, <2>2 DEF Idle
  <2>4. /\ mine(sim) \in Profile /\ mine(sim).of = session[s].mine.of
        /\ Stats(mine(sim), [seen EXCEPT ![session[s].mine.of] = @ \cup {sim}])
    BY <1>t, <2>2, TrackFacts
  <2>5. Stats(mine(sim), seen') /\ mine(sim) # NoProfile
    BY <2>1, <2>4, ProfileFacts
  <2>6. /\ seen' \in [Photos -> SUBSET Sims]
        /\ \A q \in Photos : seen[q] \subseteq seen'[q]
    BY <1>t, <2>1
  <2> HIDE DEF mine
  <2>7a. session' = WithMeasure(s, mine(sim))
    BY <2>1 DEF WithMeasure
  <2>7. PICK h \in Held :
          /\ session' = [session EXCEPT ![s] = h]
          /\ h.at = "checking" /\ h.mine = mine(sim) /\ h.ref = session[s].ref
    BY <1>t, <2>2, <2>4, <2>7a, TakesMeasure
  <2>8. SessionHolds(h, seen')
    BY <2>2, <2>4, <2>5, <2>7 DEF SessionHolds
  <2>9. /\ settledOn' \in MaybePhoto /\ exposed' \subseteq Ingests \cup Sessions
        /\ crowded' \in BOOLEAN /\ extracted' \in Nat
        /\ UNCHANGED <<photo, crop, ingest>>
    BY <1>13, <1>t DEF FaceCheck, TypeOK
  <2>10. profile' \in Profile \cup {NoProfile} /\ Stats(profile', seen')
    BY <2>1, <2>4, <2>5
  <2> QED
    BY <1>t, <2>3, <2>6, <2>7, <2>8, <2>9, <2>10, SessionStep
<1> QED
  BY <1>1, <1>2, <1>3, <1>4, <1>5, <1>6, <1>7, <1>8, <1>9, <1>10, <1>11, <1>12,
     <1>13

\* ... and when the profile expires, so always.
LEMMA DataInvariant == Spec => []DataInv
<1>1. Init => DataInv
  <2> SUFFICES ASSUME Init PROVE DataInv
    OBVIOUS
  <2>1. \A s \in Sessions : session[s] \in Held /\ SessionHolds(session[s], seen)
    BY HoldingFacts DEF Init
  <2>2. session \in [Sessions -> Held]
    BY <2>1 DEF Init
  <2>3. TypeOK
    BY <2>2 DEF Init, TypeOK, MaybePhoto, IngestPlaces
  <2>4. PhotoIsThere
    BY DEF Init, PhotoIsThere, BusyIngests, BusySessions, Holding
  <2> QED
    BY <2>1, <2>3, <2>4 DEF Init, DataInv, StatsAreMeasured
<1>2. DataInv /\ [Next]_vars => DataInv'
  <2> SUFFICES ASSUME DataInv, [Next]_vars PROVE DataInv'
    OBVIOUS
  <2>1. ASSUME NEW i \in Ingests,
               Store(i) \/ PutFace(i) \/ PutCrop(i) \/ IngestFails(i)
        PROVE  DataInv'
    BY <2>1, IngestKeepsData
  <2>2. ASSUME NEW s \in Sessions,
               \/ Start(s) \/ AnalyzeReuses(s) \/ AnalyzeReads(s) \/ AnalyzeStores(s)
               \/ AnalyzeCrops(s) \/ AnalyzeRaises(s) \/ QualityGate(s)
               \/ InventoryReads(s) \/ Catalogue(s) \/ InventoryWrites(s)
               \/ InventoryEmpty(s) \/ ReadCrop(s) \/ Load(s) \/ LoadReference(s)
               \/ FaceCheck(s) \/ End(s)
        PROVE  DataInv'
    BY <2>2, SessionKeepsData
  <2>3. CASE Expire
    BY <2>3 DEF Expire, DataInv, TypeOK, PhotoIsThere, StatsAreMeasured,
       BusyIngests, BusySessions
  <2>4. CASE UNCHANGED vars
    BY <2>4 DEF vars, history, DataInv, TypeOK, PhotoIsThere, StatsAreMeasured,
       BusyIngests, BusySessions
  <2> QED
    BY <2>1, <2>2, <2>3, <2>4 DEF Next
<1> QED
  BY <1>1, <1>2, PTL DEF Spec

\* Whatever runs beside a session, the state is well typed, no frame is scored
\* without an embedding or without a photo to edit, and lost updates never leave
\* statistics in the profile that were not measured against its photo.
THEOREM ProfileInvariant == Spec => []ProfileInv
<1>1. DataInv => ProfileInv
  BY DEF DataInv, ProfileInv, SessionHolds, ScoresAreDefined
<1> QED
  BY <1>1, DataInvariant, PTL

-----------------------------------------------------------------------------
\* Who is busy after one session has moved.
LEMMA BusyUpdate ==
  ASSUME TypeOK, NEW s \in Sessions, NEW h \in Held,
         session' = [session EXCEPT ![s] = h]
  PROVE  /\ session'[s] = h
         /\ \A t \in Sessions : t # s => session'[t] = session[t]
         /\ BusySessions' \subseteq BusySessions \cup {s}
         /\ h.at \in Idle => BusySessions' \subseteq BusySessions
  BY DEF TypeOK, BusySessions, Idle

\* A running session takes a step that keeps what it holds and what is stored on
\* the settled photo.
LEMMA AgreeingStep ==
  ASSUME TypeOK, AgreeInv, NEW s \in BusySessions, NEW h \in Held,
         session' = [session EXCEPT ![s] = h],
         UNCHANGED <<photo, ingest, settledOn, exposed>>,
         settledOn # NoPhoto =>
            /\ SessionAgrees(h, settledOn)
            /\ HasFace(settledOn) => crop' = settledOn
            /\ profile' # NoProfile => /\ profile'.of = settledOn
                                       /\ profile'.inventory \in {NoPhoto, settledOn}
  PROVE  AgreeInv'
<1>s. s \in Sessions
  BY DEF BusySessions
<1>1. /\ session'[s] = h
      /\ \A t \in Sessions : t # s => session'[t] = session[t]
      /\ BusySessions' \subseteq BusySessions
  BY <1>s, BusyUpdate
<1>2. BusyIngests' = BusyIngests /\ BusyIngests \ exposed = {}
  BY DEF AgreeInv, Undisturbed, BusyIngests
<1>3. ProfileAgrees'
  BY DEF AgreeInv, ProfileAgrees
<1>4. settledOn' # NoPhoto => \A t \in Sessions : SessionAgrees(session'[t], settledOn')
  BY <1>1 DEF AgreeInv
<1> QED
  BY <1>1, <1>2, <1>3, <1>4 DEF AgreeInv

\* The steps of an ingest keep the agreement: it begins when an undisturbed one
\* ends, and ends when the next one begins.
LEMMA IngestKeepsAgreement ==
  ASSUME DataInv, AgreeInv, NEW i \in Ingests,
         Store(i) \/ PutFace(i) \/ PutCrop(i) \/ IngestFails(i)
  PROVE  AgreeInv'
<1> USE FaceProfileAssumption
<1>t. /\ TypeOK
      /\ ingest \in [Ingests -> [at : IngestPlaces, of : MaybePhoto]]
  BY DEF DataInv, TypeOK
<1>b. i \in BusyIngests => settledOn = NoPhoto
  BY DEF AgreeInv
<1>o. i \in BusyIngests => \A j \in BusyIngests \ exposed : j = i /\ Undisturbed(i)
  BY DEF AgreeInv, Undisturbed
<1>1. CASE Store(i)
  <2>1. PICK p \in Photos :
          /\ photo' = p
          /\ ingest' = [ingest EXCEPT ![i] = [at |-> "stored", of |-> p]]
    BY <1>1 DEF Store
  <2>2. /\ BusyIngests' = BusyIngests \cup {i} /\ BusySessions' = BusySessions
        /\ ingest'[i] = [at |-> "stored", of |-> p]
    BY <1>1, <1>t, <2>1 DEF Store, BusyIngests, BusySessions
  <2>3. settledOn' = NoPhoto
    BY <1>1 DEF Store
  <2>4. CASE BusyIngests \cup BusySessions = {}
    <3>1. BusyIngests' = {i} /\ BusySessions' = {}
      BY <2>2, <2>4
    <3>2. Undisturbed(i)'
      BY <2>1, <2>2, <2>3, <3>1 DEF Undisturbed
    <3> QED
      BY <2>3, <3>1, <3>2 DEF AgreeInv, ProfileAgrees
  <2>5. CASE BusyIngests \cup BusySessions # {}
    <3>1. exposed' = exposed \cup (BusyIngests \cup BusySessions) \cup {i}
      BY <1>1, <2>5 DEF Store
    <3>2. BusyIngests' \ exposed' = {} /\ BusySessions' \ exposed' = {}
      BY <2>2, <3>1
    <3> QED
      BY <2>3, <3>2 DEF AgreeInv, ProfileAgrees
  <2> QED
    BY <2>4, <2>5
<1>2. CASE PutFace(i)
  <2>1. /\ i \in BusyIngests /\ BusyIngests' = BusyIngests
        /\ BusySessions' = BusySessions
        /\ ingest'[i].of = ingest[i].of
        /\ settledOn' = settledOn /\ exposed' = exposed /\ photo' = photo
        /\ profile' = Fresh(ingest[i].of)
    BY <1>2, <1>t DEF PutFace, BusyIngests, BusySessions
  <2>2. settledOn' = NoPhoto /\ settledOn = NoPhoto
    BY <1>b, <2>1
  <2>3. ASSUME NEW j \in BusyIngests' \ exposed' PROVE Undisturbed(j)'
    BY <1>o, <2>1 DEF Undisturbed
  <2> QED
    BY <2>1, <2>2, <2>3 DEF AgreeInv, ProfileAgrees
<1>3. CASE PutCrop(i)
  <2>1. /\ i \in BusyIngests /\ BusyIngests' = BusyIngests \ {i}
        /\ BusySessions' = BusySessions
        /\ UNCHANGED <<photo, profile, session, exposed>>
        /\ ingest[i].at = "written"
        /\ crop' = (IF HasFace(ingest[i].of) THEN ingest[i].of ELSE crop)
        /\ settledOn' = (IF i \in exposed THEN NoPhoto ELSE ingest[i].of)
    BY <1>3, <1>t DEF PutCrop, Answer, Settle, BusyIngests, BusySessions
  <2>2. settledOn = NoPhoto /\ BusySessions \ exposed = {}
    BY <1>b, <2>1 DEF AgreeInv
  <2>3. BusyIngests' \ exposed' = {}
    BY <1>o, <2>1
  <2>4. CASE i \in exposed
    BY <2>1, <2>2, <2>3, <2>4 DEF AgreeInv, ProfileAgrees
  <2>5. CASE i \notin exposed
    <3> DEFINE q == ingest[i].of
    <3>1. Undisturbed(i)
      BY <2>1, <2>5 DEF AgreeInv
    <3>2. q \in Photos /\ settledOn' = q
      BY <2>1, <2>5 DEF DataInv, PhotoIsThere
    <3>3. Fresh(q).of = q /\ Fresh(q).inventory = NoPhoto
      BY DEF Fresh
    <3>4. /\ profile' \in {NoProfile, Fresh(q)} /\ photo' = q
          /\ HasFace(q) => crop' = q
      BY <2>1, <3>1 DEF Undisturbed
    <3>5. ProfileAgrees'
      <4>1. profile' # NoProfile => profile'.of = q /\ profile'.inventory = NoPhoto
        BY <3>3, <3>4
      <4>2. photo' = q /\ (HasFace(q) => crop' = q) /\ settledOn' = q
        BY <3>2, <3>4
      <4> HIDE DEF q
      <4> QED
        BY <4>1, <4>2 DEF ProfileAgrees, HasFace
    <3>6. BusyIngests' = {} /\ BusySessions' = {}
      BY <2>1, <3>1 DEF Undisturbed
    <3>7. \A t \in Sessions : SessionAgrees(session'[t], settledOn')
      BY <3>6 DEF BusySessions, SessionAgrees, Idle
    <3> QED
      BY <3>5, <3>6, <3>7 DEF AgreeInv
  <2> QED
    BY <2>4, <2>5
<1>4. CASE IngestFails(i)
  <2>1. /\ i \in BusyIngests /\ BusyIngests' = BusyIngests \ {i}
        /\ BusySessions' = BusySessions
        /\ exposed' = exposed /\ settledOn' = settledOn
    BY <1>4, <1>t DEF IngestFails, Answer, BusyIngests, BusySessions, history
  <2>2. settledOn' = NoPhoto /\ BusySessions' \ exposed' = {}
    BY <1>b, <2>1 DEF AgreeInv
  <2>3. BusyIngests' \ exposed' = {}
    BY <1>o, <2>1
  <2> QED
    BY <2>2, <2>3 DEF AgreeInv, ProfileAgrees
<1> QED
  BY <1>1, <1>2, <1>3, <1>4

\* So do the steps of a session: whatever it loads is of the settled photo, and
\* whatever it writes back was loaded since.
LEMMA SessionKeepsAgreement ==
  ASSUME DataInv, AgreeInv, NEW s \in Sessions,
         \/ Start(s) \/ AnalyzeReuses(s) \/ AnalyzeReads(s) \/ AnalyzeStores(s)
         \/ AnalyzeCrops(s) \/ AnalyzeRaises(s) \/ QualityGate(s)
         \/ InventoryReads(s) \/ Catalogue(s) \/ InventoryWrites(s)
         \/ InventoryEmpty(s) \/ ReadCrop(s) \/ Load(s) \/ LoadReference(s)
         \/ FaceCheck(s) \/ End(s)
  PROVE  AgreeInv'
<1> USE FaceProfileAssumption
<1>t. /\ TypeOK /\ seen \in [Photos -> SUBSET Sims]
      /\ photo \in MaybePhoto /\ crop \in MaybePhoto
      /\ profile \in Profile \cup {NoProfile}
      /\ session[s] \in Held
      /\ SessionHolds(session[s], seen)
  BY DEF DataInv, TypeOK
<1>m. /\ session[s].mine \in Profile \cup {NoProfile}
      /\ session[s].ref \in MaybePhoto
  BY <1>t DEF Held
<1>i. s \in BusySessions <=> session[s].at \notin Idle
  BY BusyFacts
<1>l. /\ TypeOK /\ profile \in Profile \cup {NoProfile}
      /\ {"gate", "cataloguing", "reference"} \subseteq SessionPlaces
  BY <1>t DEF SessionPlaces
<1>a. settledOn # NoPhoto =>
        /\ SessionAgrees(session[s], settledOn)
        /\ photo = settledOn
        /\ HasFace(settledOn) => crop = settledOn
        /\ profile # NoProfile => /\ profile.of = settledOn
                                  /\ profile.inventory \in {NoPhoto, settledOn}
  BY DEF AgreeInv, ProfileAgrees
<1>1. CASE Start(s)
  <2>1. session' = [session EXCEPT ![s] = Holding("analyze")]
    BY <1>1 DEF Start, Moves
  <2>2. /\ Holding("analyze") \in Held /\ Holding("analyze").at = "analyze"
        /\ Holding("analyze").mine = NoProfile /\ Holding("analyze").ref = NoPhoto
    BY HoldingFacts
  <2>3. /\ session'[s] = Holding("analyze")
        /\ \A t \in Sessions : t # s => session'[t] = session[t]
        /\ BusySessions' \subseteq BusySessions \cup {s}
    BY <1>t, <2>1, <2>2, BusyUpdate
  <2>4. SessionAgrees(Holding("analyze"), settledOn)
    BY <2>2 DEF SessionAgrees, PastGate
  <2>5. /\ UNCHANGED <<photo, crop, profile, ingest, settledOn>>
        /\ BusyIngests' = BusyIngests
        /\ exposed' = exposed \cup BusyIngests
                        \cup (IF settledOn = NoPhoto THEN {s} ELSE {})
    BY <1>1 DEF Start, BusyIngests
  <2>6. ProfileAgrees'
    BY <2>5 DEF AgreeInv, ProfileAgrees
  <2>7. settledOn' # NoPhoto =>
          /\ BusyIngests' = {}
          /\ \A t \in Sessions : SessionAgrees(session'[t], settledOn')
    BY <2>3, <2>4, <2>5 DEF AgreeInv
  <2>8. BusyIngests' \ exposed' = {}
    BY <2>5
  <2>9. BusySessions' \ exposed' # {} => settledOn' # NoPhoto
    BY <2>3, <2>5 DEF AgreeInv
  <2> QED
    BY <2>6, <2>7, <2>8, <2>9 DEF AgreeInv
<1>2. CASE AnalyzeReuses(s)
  <2>1. session' = WithProfile(s, "gate", profile)
    BY <1>2 DEF AnalyzeReuses, WithProfile
  <2>2. PICK h \in Held :
          /\ session' = [session EXCEPT ![s] = h]
          /\ h.at = "gate" /\ h.mine = profile /\ h.ref = session[s].ref
    BY <1>l, <2>1, TakesProfile
  <2>3. /\ s \in BusySessions /\ session[s].at = "analyze"
        /\ UNCHANGED <<photo, crop, profile, ingest, settledOn, exposed>>
    BY <1>2, <1>i DEF AnalyzeReuses, Idle, history
  <2>4. settledOn # NoPhoto => SessionAgrees(h, settledOn)
    BY <1>a, <2>2, <2>3 DEF SessionAgrees, PastGate, Idle
  <2> QED
    BY <1>t, <1>a, <2>2, <2>3, <2>4, AgreeingStep
<1>3. CASE AnalyzeReads(s)
  <2>1. session' = WithPhoto(s, "lazy", photo)
    BY <1>3 DEF AnalyzeReads, WithPhoto
  <2>2. PICK h \in Held :
          /\ session' = [session EXCEPT ![s] = h]
          /\ h.at = "lazy" /\ h.ref = photo /\ h.mine = session[s].mine
    BY <1>t, <2>1, TakesPhoto DEF SessionPlaces
  <2>3. /\ s \in BusySessions /\ session[s].at = "analyze"
        /\ UNCHANGED <<photo, crop, profile, ingest, settledOn, exposed>>
    BY <1>3, <1>i DEF AnalyzeReads, Idle, history
  <2>4. settledOn # NoPhoto => SessionAgrees(h, settledOn)
    BY <1>a, <2>2, <2>3 DEF SessionAgrees, PastGate, Idle
  <2> QED
    BY <1>t, <1>a, <2>2, <2>3, <2>4, AgreeingStep
<1>4. CASE AnalyzeStores(s)
  <2>1. session[s].ref \in Photos
    BY <1>4, <1>t, <1>m DEF AnalyzeStores, SessionHolds, MaybePhoto
  <2>2. /\ profile' \in Profile /\ profile'.of = session[s].ref
        /\ profile'.inventory = NoPhoto
    BY <1>4, <1>t, <2>1, FreshFacts DEF AnalyzeStores
  <2>3. session' = WithProfile(s, "lazyWritten", profile')
    BY <1>4 DEF AnalyzeStores, WithProfile
  <2>4. PICK h \in Held :
          /\ session' = [session EXCEPT ![s] = h]
          /\ h.at = "lazyWritten" /\ h.mine = profile' /\ h.ref = session[s].ref
    BY <1>t, <2>2, <2>3, TakesProfile DEF SessionPlaces
  <2>5. /\ s \in BusySessions /\ session[s].at = "lazy"
        /\ UNCHANGED <<photo, crop, ingest, settledOn, exposed>>
    BY <1>4, <1>i DEF AnalyzeStores, Idle
  <2>6. settledOn # NoPhoto => session[s].ref = settledOn
    BY <1>a, <2>1, <2>5 DEF SessionAgrees, Idle
  <2>7. settledOn # NoPhoto => SessionAgrees(h, settledOn)
    BY <2>2, <2>4, <2>6 DEF SessionAgrees, PastGate
  <2> QED
    BY <1>t, <1>a, <2>2, <2>4, <2>5, <2>6, <2>7, AgreeingStep
<1>5. CASE AnalyzeCrops(s)
  <2>1. session' = WithPhoto(s, "gate", NoPhoto)
    BY <1>5 DEF AnalyzeCrops, WithPhoto
  <2>2. PICK h \in Held :
          /\ session' = [session EXCEPT ![s] = h]
          /\ h.at = "gate" /\ h.ref = NoPhoto /\ h.mine = session[s].mine
    BY <1>t, <2>1, TakesPhoto DEF SessionPlaces, MaybePhoto
  <2>3. /\ s \in BusySessions /\ session[s].at = "lazyWritten"
        /\ UNCHANGED <<photo, profile, ingest, settledOn, exposed>>
        /\ crop' = (IF HasFace(session[s].ref) THEN session[s].ref ELSE crop)
    BY <1>5, <1>i DEF AnalyzeCrops, Idle, history
  <2>4. settledOn # NoPhoto => session[s].ref = settledOn
    BY <1>t, <1>a, <2>3 DEF SessionAgrees, SessionHolds, Idle
  <2>5. settledOn # NoPhoto => SessionAgrees(h, settledOn)
    BY <1>a, <2>2, <2>3 DEF SessionAgrees, PastGate, Idle
  <2> QED
    BY <1>t, <1>a, <2>2, <2>3, <2>4, <2>5, AgreeingStep
<1>6. CASE AnalyzeRaises(s) \/ QualityGate(s) \/ InventoryEmpty(s) \/ End(s)
  <2>1. PICK place \in {"failed", "inventory", "generate", "done"} :
          /\ session' = [session EXCEPT ![s] = Holding(place)]
          /\ place = "inventory" => /\ session[s].at = "gate"
                                    /\ Accepted(session[s].mine.of)
          /\ place = "generate" => session[s].at = "catalogued"
    BY <1>6 DEF AnalyzeRaises, QualityGate, InventoryEmpty, End, Moves
  <2>2. /\ Holding(place) \in Held /\ Holding(place).at = place
        /\ Holding(place).mine = NoProfile /\ Holding(place).ref = NoPhoto
    BY HoldingFacts
  <2>3. /\ s \in BusySessions
        /\ UNCHANGED <<photo, crop, profile, ingest, settledOn, exposed>>
    BY <1>6, <1>i DEF AnalyzeRaises, QualityGate, InventoryEmpty, End, Idle, history
  <2>4. settledOn # NoPhoto /\ place \in PastGate => Accepted(settledOn)
    BY <1>t, <1>a, <1>i, <2>1, <2>3 DEF SessionAgrees, SessionHolds, PastGate
  <2>5. settledOn # NoPhoto => SessionAgrees(Holding(place), settledOn)
    BY <2>2, <2>4 DEF SessionAgrees
  <2> QED
    BY <1>t, <1>a, <2>1, <2>2, <2>3, <2>5, AgreeingStep
<1>7. CASE InventoryReads(s)
  <2>1. /\ s \in BusySessions /\ session[s].at = "inventory"
        /\ UNCHANGED <<photo, crop, profile, ingest, settledOn, exposed>>
    BY <1>7, <1>i DEF InventoryReads, Idle, history
  <2>2. settledOn # NoPhoto => Accepted(settledOn) /\ session[s].ref \in {NoPhoto, settledOn}
    BY <1>a, <2>1 DEF SessionAgrees, PastGate, Idle
  <2>3. CASE profile = NoProfile \/ profile.inventory # NoPhoto
    <3>1. session' = [session EXCEPT ![s] = Holding("generate")]
      BY <1>7, <2>3 DEF InventoryReads, Moves
    <3>2. /\ Holding("generate") \in Held /\ Holding("generate").at = "generate"
          /\ Holding("generate").mine = NoProfile /\ Holding("generate").ref = NoPhoto
      BY HoldingFacts
    <3>3. settledOn # NoPhoto => SessionAgrees(Holding("generate"), settledOn)
      BY <2>2, <3>2 DEF SessionAgrees
    <3> QED
      BY <1>t, <1>a, <2>1, <3>1, <3>2, <3>3, AgreeingStep
  <2>4. CASE ~(profile = NoProfile \/ profile.inventory # NoPhoto)
    <3>1. session' = WithProfile(s, "cataloguing", profile)
      BY <1>7, <2>4 DEF InventoryReads, WithProfile
    <3>2. PICK h \in Held :
            /\ session' = [session EXCEPT ![s] = h]
            /\ h.at = "cataloguing" /\ h.mine = profile /\ h.ref = session[s].ref
      BY <1>l, <3>1, TakesProfile
    <3>3. settledOn # NoPhoto => SessionAgrees(h, settledOn)
      BY <1>a, <2>2, <3>2 DEF SessionAgrees
    <3> QED
      BY <1>t, <1>a, <2>1, <3>2, <3>3, AgreeingStep
  <2> QED
    BY <2>3, <2>4
<1>8. CASE Catalogue(s)
  <2>1. session' = WithPhoto(s, "catalogued", photo)
    BY <1>8 DEF Catalogue, WithPhoto
  <2>2. PICK h \in Held :
          /\ session' = [session EXCEPT ![s] = h]
          /\ h.at = "catalogued" /\ h.ref = photo /\ h.mine = session[s].mine
    BY <1>t, <2>1, TakesPhoto DEF SessionPlaces
  <2>3. /\ s \in BusySessions /\ session[s].at = "cataloguing"
        /\ UNCHANGED <<photo, crop, profile, ingest, settledOn, exposed>>
    BY <1>8, <1>i DEF Catalogue, Idle, history
  <2>4. settledOn # NoPhoto => SessionAgrees(h, settledOn)
    BY <1>a, <2>2, <2>3 DEF SessionAgrees, PastGate, Idle
  <2> QED
    BY <1>t, <1>a, <2>2, <2>3, <2>4, AgreeingStep
<1>9. CASE InventoryWrites(s)
  <2>1. /\ s \in BusySessions /\ session[s].at = "catalogued"
        /\ UNCHANGED <<photo, crop, ingest, settledOn, exposed>>
        /\ session' = [session EXCEPT ![s] = Holding("generate")]
    BY <1>9, <1>i DEF InventoryWrites, Moves, Idle
  <2>2. session[s].mine \in Profile
    BY <1>t, <1>m, <2>1 DEF SessionHolds
  <2>3. /\ profile'.of = session[s].mine.of
        /\ profile'.inventory = session[s].ref
    BY <1>9, <2>2 DEF InventoryWrites, Profile
  <2>4. /\ Holding("generate") \in Held /\ Holding("generate").at = "generate"
        /\ Holding("generate").mine = NoProfile /\ Holding("generate").ref = NoPhoto
    BY HoldingFacts
  <2>5. settledOn # NoPhoto =>
          /\ profile'.of = settledOn
          /\ profile'.inventory \in {NoPhoto, settledOn}
          /\ SessionAgrees(Holding("generate"), settledOn)
    BY <1>a, <2>1, <2>2, <2>3, <2>4, ProfileFacts DEF SessionAgrees, PastGate, Idle
  <2> QED
    BY <1>t, <1>a, <2>1, <2>4, <2>5, AgreeingStep
<1>10. CASE ReadCrop(s)
  <2>1. session' = WithCrop(s, "load", crop)
    BY <1>10 DEF ReadCrop, WithCrop
  <2>2. PICK h \in Held :
          /\ session' = [session EXCEPT ![s] = h]
          /\ h.at = "load" /\ h.mine = session[s].mine
          /\ h.ref = session[s].ref /\ h.crop = crop
    BY <1>t, <2>1, TakesCrop DEF SessionPlaces
  <2>3. /\ s \in BusySessions /\ session[s].at = "generate"
        /\ UNCHANGED <<photo, crop, profile, ingest, settledOn, exposed>>
    BY <1>10, <1>i DEF ReadCrop, Idle, history
  <2>4. settledOn # NoPhoto => SessionAgrees(h, settledOn)
    BY <1>a, <2>2, <2>3 DEF SessionAgrees, PastGate, Idle
  <2> QED
    BY <1>t, <1>a, <2>2, <2>3, <2>4, AgreeingStep
<1>11. CASE Load(s)
  <2>1. /\ s \in BusySessions /\ session[s].at = "load"
        /\ UNCHANGED <<photo, crop, profile, ingest, settledOn, exposed>>
    BY <1>11, <1>i DEF Load, Idle, history
  <2>2. CASE profile # NoProfile /\ HasFace(profile.of)
    <3>1. session' = WithProfile(s, "reference", profile)
      BY <1>11, <2>2 DEF Load, WithProfile
    <3>2. PICK h \in Held :
            /\ session' = [session EXCEPT ![s] = h]
            /\ h.at = "reference" /\ h.mine = profile
            /\ h.ref = session[s].ref /\ h.crop = session[s].crop
      BY <1>l, <3>1, TakesProfile
    <3>3. settledOn # NoPhoto => SessionAgrees(h, settledOn)
      BY <1>a, <2>1, <3>2 DEF SessionAgrees, PastGate, Idle
    <3> QED
      BY <1>t, <1>a, <2>1, <3>2, <3>3, AgreeingStep
  <2>3. CASE ~(profile # NoProfile /\ HasFace(profile.of))
    <3>1. session' = [session EXCEPT ![s] = Holding("failed")]
      BY <1>11, <2>3 DEF Load, Moves
    <3>2. Holding("failed") \in Held /\ Holding("failed").at = "failed"
      BY HoldingFacts
    <3>3. SessionAgrees(Holding("failed"), settledOn)
      BY <3>2 DEF SessionAgrees, Idle
    <3> QED
      BY <1>t, <1>a, <2>1, <3>1, <3>2, <3>3, AgreeingStep
  <2> QED
    BY <2>2, <2>3
<1>12. CASE LoadReference(s)
  <2>1. session' = WithPhoto(s, "checking", photo)
    BY <1>12 DEF LoadReference, WithPhoto
  <2>2. PICK h \in Held :
          /\ session' = [session EXCEPT ![s] = h]
          /\ h.at = "checking" /\ h.ref = photo /\ h.mine = session[s].mine
          /\ h.crop = session[s].crop
    BY <1>t, <2>1, TakesPhoto DEF SessionPlaces
  <2>3. /\ s \in BusySessions /\ session[s].at = "reference"
        /\ UNCHANGED <<photo, crop, profile, ingest, settledOn, exposed>>
    BY <1>12, <1>i DEF LoadReference, Idle, history
  <2>4. settledOn # NoPhoto => SessionAgrees(h, settledOn)
    BY <1>a, <2>2, <2>3 DEF SessionAgrees, PastGate, Idle
  <2> QED
    BY <1>t, <1>a, <2>2, <2>3, <2>4, AgreeingStep
<1>13. CASE FaceCheck(s)
  <2> DEFINE mine(sim) == Track(session[s].mine, sim)
  <2>1. PICK sim \in Sims :
          /\ profile' = mine(sim)
          /\ session' = [session EXCEPT ![s].mine = mine(sim), ![s].checks = @ + 1]
    BY <1>13 DEF FaceCheck
  <2>2. /\ session[s].at = "checking" /\ session[s].checks < MaxChecks
        /\ s \in BusySessions
        /\ UNCHANGED <<photo, crop, ingest, settledOn, exposed>>
    BY <1>13, <1>i DEF FaceCheck, Idle
  <2>3. /\ session[s].mine \in Profile /\ session[s].mine # NoProfile
        /\ Stats(session[s].mine, seen)
    BY <1>t, <1>m, <2>2 DEF SessionHolds
  <2>4. /\ mine(sim) \in Profile /\ mine(sim).of = session[s].mine.of
        /\ mine(sim).inventory = session[s].mine.inventory
    BY <1>t, <2>3, TrackFacts
  <2> HIDE DEF mine
  <2>5. session' = WithMeasure(s, mine(sim))
    BY <2>1 DEF WithMeasure
  <2>6. PICK h \in Held :
          /\ session' = [session EXCEPT ![s] = h]
          /\ h.at = "checking" /\ h.mine = mine(sim)
          /\ h.ref = session[s].ref /\ h.crop = session[s].crop
    BY <1>t, <2>2, <2>4, <2>5, TakesMeasure
  <2>7. settledOn # NoPhoto =>
          /\ SessionAgrees(h, settledOn)
          /\ profile'.of = settledOn
          /\ profile'.inventory \in {NoPhoto, settledOn}
    BY <1>a, <2>1, <2>2, <2>3, <2>4, <2>6 DEF SessionAgrees, PastGate, Idle
  <2> QED
    BY <1>t, <1>a, <2>2, <2>6, <2>7, AgreeingStep
<1> QED
  BY <1>1, <1>2, <1>3, <1>4, <1>5, <1>6, <1>7, <1>8, <1>9, <1>10, <1>11, <1>12,
     <1>13

\* The agreement always holds.
LEMMA AgreeInvariant == Spec => []AgreeInv
<1>1. Init => AgreeInv
  BY DEF Init, AgreeInv, ProfileAgrees, BusyIngests, BusySessions, Holding
<1>2. DataInv /\ AgreeInv /\ [Next]_vars => AgreeInv'
  <2> SUFFICES ASSUME DataInv, AgreeInv, [Next]_vars PROVE AgreeInv'
    OBVIOUS
  <2>1. ASSUME NEW i \in Ingests,
               Store(i) \/ PutFace(i) \/ PutCrop(i) \/ IngestFails(i)
        PROVE  AgreeInv'
    BY <2>1, IngestKeepsAgreement
  <2>2. ASSUME NEW s \in Sessions,
               \/ Start(s) \/ AnalyzeReuses(s) \/ AnalyzeReads(s) \/ AnalyzeStores(s)
               \/ AnalyzeCrops(s) \/ AnalyzeRaises(s) \/ QualityGate(s)
               \/ InventoryReads(s) \/ Catalogue(s) \/ InventoryWrites(s)
               \/ InventoryEmpty(s) \/ ReadCrop(s) \/ Load(s) \/ LoadReference(s)
               \/ FaceCheck(s) \/ End(s)
        PROVE  AgreeInv'
    BY <2>2, SessionKeepsAgreement
  <2>3. CASE Expire
    BY <2>3 DEF Expire, AgreeInv, ProfileAgrees, Undisturbed, BusyIngests,
       BusySessions
  <2>4. CASE UNCHANGED vars
    BY <2>4 DEF vars, history, AgreeInv, ProfileAgrees, Undisturbed, BusyIngests,
       BusySessions
  <2> QED
    BY <2>1, <2>2, <2>3, <2>4 DEF Next
<1> QED
  BY <1>1, <1>2, DataInvariant, PTL DEF Spec

\* After an ingest that nothing disturbed, the photo, the crop, the profile and
\* its inventory are of one photo until the next ingest, for any number of
\* sessions that load the profile, write it back, let it expire or rebuild it.
THEOREM Agreement == Spec => []ProfileAgrees
<1>1. AgreeInv => ProfileAgrees
  BY DEF AgreeInv
<1> QED
  BY <1>1, AgreeInvariant, PTL

\* A session no ingest ran beside, on a face that was ingested undisturbed, edits
\* the photo, sends the crop and scores against the embedding of one accepted
\* photo.
THEOREM SingleIdentity == Spec => []OneIdentity
<1>1. DataInv /\ AgreeInv => OneIdentity
  <2> SUFFICES ASSUME DataInv, AgreeInv, NEW s \in Sessions \ exposed,
                      session[s].at = "checking"
               PROVE  /\ session[s].ref = settledOn /\ session[s].crop = settledOn
                      /\ session[s].mine.of = settledOn
                      /\ Accepted(settledOn)
    BY DEF OneIdentity
  <2>1. s \in BusySessions
    BY BusyFacts DEF Idle
  <2>2. settledOn # NoPhoto /\ SessionAgrees(session[s], settledOn)
    BY <2>1 DEF AgreeInv
  <2>3. session[s].ref # NoPhoto /\ session[s].mine # NoProfile
    BY DEF DataInv, SessionHolds
  <2>4. Accepted(settledOn) /\ HasFace(settledOn)
    BY <2>2 DEF SessionAgrees, PastGate, Idle, Accepted, HasFace
  <2> QED
    BY <2>2, <2>3, <2>4 DEF SessionAgrees, Idle
<1> QED
  BY <1>1, DataInvariant, AgreeInvariant, PTL

-----------------------------------------------------------------------------
\* What must hold of the moving session for extractions to stay single: it never
\* is about to extract, or to write back a profile without the inventory, after
\* one has been extracted.
NotTwice(h, count) ==
    /\ h.at \in {"cataloguing", "catalogued"} => count = 0
    /\ h.at \in {"reference", "checking"} => count = 0 \/ h.mine.inventory # NoPhoto

\* A running session moves.  Without overlap it is the only one.
LEMMA OnceStep ==
  ASSUME TypeOK, OnceInv, NEW s \in BusySessions, NEW h \in Held,
         session' = [session EXCEPT ![s] = h],
         crowded' = crowded,
         ~crowded => /\ extracted' \in {0, 1}
                     /\ extracted' = 1 => /\ profile' # NoProfile
                                          /\ profile'.inventory # NoPhoto
                     /\ NotTwice(h, extracted')
  PROVE  OnceInv'
<1> SUFFICES ASSUME ~crowded PROVE OnceInv'
  BY DEF OnceInv
<1>s. s \in Sessions
  BY DEF BusySessions
<1>1. /\ session'[s] = h
      /\ \A t \in Sessions : t # s => session'[t] = session[t]
      /\ BusySessions' \subseteq BusySessions
  BY <1>s, BusyUpdate
<1>2. \A t \in Sessions : t # s => session[t].at \in Idle
  BY BusyFacts DEF OnceInv
<1>3. ASSUME NEW t \in Sessions PROVE NotTwice(session'[t], extracted')
  BY <1>1, <1>2 DEF NotTwice, Idle
<1>4. \A t, u \in BusySessions' : t = u
  BY <1>1 DEF OnceInv
<1> QED
  BY <1>3, <1>4 DEF OnceInv, NotTwice

\* The same for a step that changes only the session.
LEMMA OnceLocalStep ==
  ASSUME TypeOK, OnceInv, NEW s \in BusySessions, NEW h \in Held,
         session' = [session EXCEPT ![s] = h],
         UNCHANGED <<profile, crowded, extracted>>,
         ~crowded => NotTwice(h, extracted)
  PROVE  OnceInv'
  BY OnceStep DEF OnceInv

\* An inventory is extracted again only for a new profile, or when two sessions
\* of the face were in flight at once ("once per photo"), whatever is ingested
\* and whatever expires in between.
THEOREM Catalogued == Spec => []CataloguedOnce
<1>1. Init => OnceInv
  BY DEF Init, OnceInv, BusySessions, Holding
<1>2. DataInv /\ OnceInv /\ [Next]_vars => OnceInv'
  <2> SUFFICES ASSUME DataInv, OnceInv, [Next]_vars PROVE OnceInv'
    OBVIOUS
  <2> USE FaceProfileAssumption
  <2>t. /\ TypeOK /\ extracted \in Nat
        /\ profile \in Profile \cup {NoProfile}
        /\ photo \in MaybePhoto /\ crop \in MaybePhoto
        /\ {"gate", "cataloguing", "reference", "lazy", "catalogued", "load",
            "checking", "lazyWritten"} \subseteq SessionPlaces
    BY DEF DataInv, TypeOK, SessionPlaces
  <2>1. ASSUME NEW i \in Ingests,
               Store(i) \/ PutFace(i) \/ PutCrop(i) \/ IngestFails(i)
        PROVE  OnceInv'
    <3>1. /\ session' = session /\ crowded' = crowded
          /\ extracted' = 0 \/ UNCHANGED <<extracted, profile>>
      BY <2>1 DEF Store, PutFace, PutCrop, IngestFails, history
    <3>2. BusySessions' = BusySessions
      BY <3>1 DEF BusySessions
    <3> QED
      BY <3>1, <3>2 DEF OnceInv
  <2>2. ASSUME NEW s \in Sessions, Start(s) PROVE OnceInv'
    <3> SUFFICES ASSUME ~crowded' PROVE OnceInv'
      BY DEF OnceInv
    <3>1. ~crowded /\ BusySessions = {} /\ UNCHANGED <<profile, extracted>>
      BY <2>2 DEF Start
    <3>2. session' = [session EXCEPT ![s] = Holding("analyze")]
      BY <2>2 DEF Start, Moves
    <3>3. Holding("analyze") \in Held /\ Holding("analyze").at = "analyze"
      BY HoldingFacts
    <3>4. /\ session'[s] = Holding("analyze")
          /\ \A t \in Sessions : t # s => session'[t] = session[t]
          /\ BusySessions' \subseteq {s}
      BY <2>t, <3>1, <3>2, <3>3, BusyUpdate
    <3>5. \A t \in Sessions : session[t].at \in Idle
      BY <3>1, BusyFacts
    <3>6. \A t \in Sessions : session'[t].at \notin
              {"cataloguing", "catalogued", "reference", "checking"}
      BY <3>3, <3>4, <3>5 DEF Idle
    <3> QED
      BY <3>1, <3>4, <3>6 DEF OnceInv
  <2>m. ASSUME NEW s \in Sessions
        PROVE  /\ session[s] \in Held /\ SessionHolds(session[s], seen)
               /\ session[s].mine \in Profile \cup {NoProfile}
               /\ session[s].ref \in MaybePhoto
               /\ s \in BusySessions <=> session[s].at \notin Idle
               /\ ~crowded => NotTwice(session[s], extracted)
    BY BusyFacts DEF DataInv, TypeOK, Held, OnceInv, NotTwice
  <2>3. ASSUME NEW s \in Sessions, AnalyzeReuses(s) PROVE OnceInv'
    <3>1. session' = WithProfile(s, "gate", profile)
      BY <2>3 DEF AnalyzeReuses, WithProfile
    <3>2. PICK h \in Held : session' = [session EXCEPT ![s] = h] /\ h.at = "gate"
      BY <2>t, <3>1, TakesProfile
    <3> QED
      BY <2>3, <2>t, <2>m, <3>2, OnceLocalStep
         DEF AnalyzeReuses, NotTwice, Idle, history
  <2>4. ASSUME NEW s \in Sessions, AnalyzeReads(s) PROVE OnceInv'
    <3>1. session' = WithPhoto(s, "lazy", photo)
      BY <2>4 DEF AnalyzeReads, WithPhoto
    <3>2. PICK h \in Held : session' = [session EXCEPT ![s] = h] /\ h.at = "lazy"
      BY <2>t, <3>1, TakesPhoto
    <3> QED
      BY <2>4, <2>t, <2>m, <3>2, OnceLocalStep
         DEF AnalyzeReads, NotTwice, Idle, history
  <2>5. ASSUME NEW s \in Sessions, AnalyzeStores(s) PROVE OnceInv'
    <3>1. session[s].ref \in Photos
      BY <2>5, <2>m DEF AnalyzeStores, SessionHolds, MaybePhoto
    <3>2. profile' \in Profile
      BY <2>5, <3>1, FreshFacts DEF AnalyzeStores, DataInv, TypeOK
    <3>3. session' = WithProfile(s, "lazyWritten", profile')
      BY <2>5 DEF AnalyzeStores, WithProfile
    <3>4. PICK h \in Held :
            session' = [session EXCEPT ![s] = h] /\ h.at = "lazyWritten"
      BY <2>t, <3>2, <3>3, TakesProfile
    <3>5. s \in BusySessions /\ crowded' = crowded /\ extracted' = 0
      BY <2>5, <2>m DEF AnalyzeStores, Idle
    <3>6. /\ NotTwice(h, extracted') /\ extracted' \in {0, 1}
          /\ extracted' = 1 => /\ profile' # NoProfile
                               /\ profile'.inventory # NoPhoto
      BY <3>4, <3>5 DEF NotTwice
    <3> QED
      BY <2>t, <3>4, <3>5, <3>6, OnceStep
  <2>6. ASSUME NEW s \in Sessions, AnalyzeCrops(s) PROVE OnceInv'
    <3>1. session' = WithPhoto(s, "gate", NoPhoto)
      BY <2>6 DEF AnalyzeCrops, WithPhoto
    <3>2. PICK h \in Held : session' = [session EXCEPT ![s] = h] /\ h.at = "gate"
      BY <2>t, <3>1, TakesPhoto DEF MaybePhoto
    <3> QED
      BY <2>6, <2>t, <2>m, <3>2, OnceLocalStep
         DEF AnalyzeCrops, NotTwice, Idle, history
  <2>7. ASSUME NEW s \in Sessions,
               AnalyzeRaises(s) \/ QualityGate(s) \/ InventoryEmpty(s) \/ End(s)
        PROVE  OnceInv'
    <3>1. PICK place \in {"failed", "inventory", "generate", "done"} :
            session' = [session EXCEPT ![s] = Holding(place)]
      BY <2>7 DEF AnalyzeRaises, QualityGate, InventoryEmpty, End, Moves
    <3>2. Holding(place) \in Held /\ NotTwice(Holding(place), extracted)
      BY HoldingFacts DEF NotTwice
    <3>3. s \in BusySessions /\ UNCHANGED <<profile, crowded, extracted>>
      BY <2>7, <2>m DEF AnalyzeRaises, QualityGate, InventoryEmpty, End, Idle,
         history
    <3> QED
      BY <2>t, <3>1, <3>2, <3>3, OnceLocalStep
  <2>8. ASSUME NEW s \in Sessions, InventoryReads(s) PROVE OnceInv'
    <3>1. s \in BusySessions /\ UNCHANGED <<profile, crowded, extracted>>
      BY <2>8, <2>m DEF InventoryReads, Idle, history
    <3>2. CASE profile = NoProfile \/ profile.inventory # NoPhoto
      <4>1. session' = [session EXCEPT ![s] = Holding("generate")]
        BY <2>8, <3>2 DEF InventoryReads, Moves
      <4>2. Holding("generate") \in Held /\ NotTwice(Holding("generate"), extracted)
        BY HoldingFacts DEF NotTwice
      <4> QED
        BY <2>t, <3>1, <4>1, <4>2, OnceLocalStep
    <3>3. CASE ~(profile = NoProfile \/ profile.inventory # NoPhoto)
      <4>1. session' = WithProfile(s, "cataloguing", profile)
        BY <2>8, <3>3 DEF InventoryReads, WithProfile
      <4>2. PICK h \in Held :
              session' = [session EXCEPT ![s] = h] /\ h.at = "cataloguing"
        BY <2>t, <4>1, TakesProfile
      <4>3. ~crowded => NotTwice(h, extracted)
        BY <2>t, <3>3, <4>2 DEF OnceInv, NotTwice
      <4> QED
        BY <2>t, <3>1, <4>2, <4>3, OnceLocalStep
    <3> QED
      BY <3>2, <3>3
  <2>9. ASSUME NEW s \in Sessions, Catalogue(s) PROVE OnceInv'
    <3>1. session' = WithPhoto(s, "catalogued", photo)
      BY <2>9 DEF Catalogue, WithPhoto
    <3>2. PICK h \in Held :
            session' = [session EXCEPT ![s] = h] /\ h.at = "catalogued"
      BY <2>t, <3>1, TakesPhoto
    <3> QED
      BY <2>9, <2>t, <2>m, <3>2, OnceLocalStep
         DEF Catalogue, NotTwice, Idle, history
  <2>10. ASSUME NEW s \in Sessions, InventoryWrites(s) PROVE OnceInv'
    <3>1. /\ s \in BusySessions /\ session[s].at = "catalogued"
          /\ session' = [session EXCEPT ![s] = Holding("generate")]
          /\ extracted' = extracted + 1 /\ crowded' = crowded
          /\ session[s].mine \in Profile /\ session[s].ref # NoPhoto
      BY <2>10, <2>m DEF InventoryWrites, Moves, SessionHolds, Idle
    <3>2. profile' \in Profile /\ profile'.inventory # NoPhoto
      BY <2>10, <2>m, <3>1 DEF InventoryWrites, Profile
    <3>3. /\ Holding("generate") \in Held
          /\ NotTwice(Holding("generate"), extracted')
      BY HoldingFacts DEF NotTwice
    <3>4. ~crowded => extracted' = 1
      BY <2>m, <3>1 DEF NotTwice
    <3> QED
      BY <2>t, <3>1, <3>2, <3>3, <3>4, ProfileFacts, OnceStep
  <2>11. ASSUME NEW s \in Sessions, ReadCrop(s) PROVE OnceInv'
    <3>1. session' = WithCrop(s, "load", crop)
      BY <2>11 DEF ReadCrop, WithCrop
    <3>2. PICK h \in Held : session' = [session EXCEPT ![s] = h] /\ h.at = "load"
      BY <2>t, <3>1, TakesCrop
    <3> QED
      BY <2>11, <2>t, <2>m, <3>2, OnceLocalStep
         DEF ReadCrop, NotTwice, Idle, history
  <2>12. ASSUME NEW s \in Sessions, Load(s) PROVE OnceInv'
    <3>1. s \in BusySessions /\ UNCHANGED <<profile, crowded, extracted>>
      BY <2>12, <2>m DEF Load, Idle, history
    <3>2. CASE profile # NoProfile /\ HasFace(profile.of)
      <4>1. session' = WithProfile(s, "reference", profile)
        BY <2>12, <3>2 DEF Load, WithProfile
      <4>2. PICK h \in Held :
              /\ session' = [session EXCEPT ![s] = h]
              /\ h.at = "reference" /\ h.mine = profile
        BY <2>t, <4>1, TakesProfile
      <4>3. ~crowded => NotTwice(h, extracted)
        BY <4>2 DEF OnceInv, NotTwice
      <4> QED
        BY <2>t, <3>1, <4>2, <4>3, OnceLocalStep
    <3>3. CASE ~(profile # NoProfile /\ HasFace(profile.of))
      <4>1. session' = [session EXCEPT ![s] = Holding("failed")]
        BY <2>12, <3>3 DEF Load, Moves
      <4>2. Holding("failed") \in Held /\ NotTwice(Holding("failed"), extracted)
        BY HoldingFacts DEF NotTwice
      <4> QED
        BY <2>t, <3>1, <4>1, <4>2, OnceLocalStep
    <3> QED
      BY <3>2, <3>3
  <2>13. ASSUME NEW s \in Sessions, LoadReference(s) PROVE OnceInv'
    <3>1. session' = WithPhoto(s, "checking", photo)
      BY <2>13 DEF LoadReference, WithPhoto
    <3>2. PICK h \in Held :
            /\ session' = [session EXCEPT ![s] = h]
            /\ h.at = "checking" /\ h.mine = session[s].mine
      BY <2>t, <3>1, TakesPhoto
    <3>3. /\ s \in BusySessions /\ session[s].at = "reference"
          /\ UNCHANGED <<profile, crowded, extracted>>
      BY <2>13, <2>m DEF LoadReference, Idle, history
    <3>4. ~crowded => NotTwice(h, extracted)
      BY <2>m, <3>2, <3>3 DEF NotTwice
    <3> QED
      BY <2>t, <3>2, <3>3, <3>4, OnceLocalStep
  <2>14. ASSUME NEW s \in Sessions, FaceCheck(s) PROVE OnceInv'
    <3> DEFINE mine(sim) == Track(session[s].mine, sim)
    <3>1. PICK sim \in Sims :
            /\ profile' = mine(sim)
            /\ session' = [session EXCEPT ![s].mine = mine(sim), ![s].checks = @ + 1]
      BY <2>14 DEF FaceCheck
    <3>2. /\ session[s].at = "checking" /\ session[s].checks < MaxChecks
          /\ s \in BusySessions /\ UNCHANGED <<crowded, extracted>>
          /\ session[s].mine \in Profile /\ Stats(session[s].mine, seen)
      BY <2>14, <2>m DEF FaceCheck, SessionHolds, Idle
    <3>3. /\ mine(sim) \in Profile
          /\ mine(sim).inventory = session[s].mine.inventory
      BY <3>2, TrackFacts DEF DataInv, TypeOK
    <3> HIDE DEF mine
    <3>4. session' = WithMeasure(s, mine(sim))
      BY <3>1 DEF WithMeasure
    <3>5. PICK h \in Held :
            /\ session' = [session EXCEPT ![s] = h]
            /\ h.at = "checking" /\ h.mine = mine(sim)
      BY <2>t, <3>2, <3>3, <3>4, TakesMeasure
    <3>6. ~crowded => /\ extracted' \in {0, 1}
                      /\ extracted' = 1 => profile'.inventory # NoPhoto
                      /\ NotTwice(h, extracted')
      BY <2>m, <3>1, <3>2, <3>3, <3>5 DEF OnceInv, NotTwice
    <3>7. profile' # NoProfile
      BY <3>1, <3>3, ProfileFacts
    <3> QED
      BY <2>t, <3>2, <3>5, <3>6, <3>7, OnceStep
  <2>15. CASE Expire
    <3>1. /\ session' = session /\ crowded' = crowded /\ extracted' = 0
          /\ BusySessions' = BusySessions
      BY <2>15 DEF Expire, BusySessions
    <3> QED
      BY <3>1 DEF OnceInv
  <2>16. CASE UNCHANGED vars
    BY <2>16 DEF vars, history, OnceInv, BusySessions
  <2> QED
    BY <2>1, <2>2, <2>3, <2>4, <2>5, <2>6, <2>7, <2>8, <2>9, <2>10, <2>11, <2>12,
       <2>13, <2>14, <2>15, <2>16 DEF Next
<1>3. OnceInv => CataloguedOnce
  BY DEF OnceInv, CataloguedOnce
<1> QED
  BY <1>1, <1>2, <1>3, DataInvariant, PTL DEF Spec

=============================================================================
