------------------------- MODULE DealReconcileProofs -------------------------
(* That whatever deals and venue events do to each other's locations, an    *)
(* invoice is put at a location of the right venue: each step lets a        *)
(* location's externalId only grow, and what a worker knows survives that.  *)
(* That NetSuite's refusal of a second externalId bounds the new locations. *)
(* That an invoice has the lines its deal maps to, and what those lines     *)
(* are, for a list of any length.                                           *)
EXTENDS DealReconcile, FiniteSetTheorems, TLAPS

Grows == \A l \in Loc : loc[l] # None =>
           loc'[l] # None /\ Grew(loc[l].ext, loc'[l].ext)

Others(k) == DOMAIN wk' = Key /\ \A j \in Key \ {k} : wk'[j] = wk[j]

-----------------------------------------------------------------------------
(* What no step of another worker can undo                                 *)

LEMMA CandidatesStay == ASSUME UNCHANGED world PROVE Candidates' = Candidates
BY DEF Candidates

LEMMA NoneIsApart == None \notin Key \cup Loc /\ None \notin Candidates
BY ReconcileAssumption DEF Candidates, Key

LEMMA SetSets ==
  ASSUME DOMAIN wk = Key, NEW k \in Key, NEW job, Set(k, job)
  PROVE  wk'[k] = job /\ Others(k)
BY DEF Set, Others

\* A location that was wanted, or a venue's own, stays so.
LEMMA WantedStays ==
  ASSUME Grows, UNCHANGED world, NEW l, Wanted(l) PROVE Wanted(l)'
BY CandidatesStay, NoneIsApart DEF Wanted, Grows, Grew

LEMMA MineStays ==
  ASSUME Grows, UNCHANGED world, NEW v \in Venue, NEW l, Mine(v, l)
  PROVE  Mine(v, l)'
BY CandidatesStay, NoneIsApart DEF Mine, Grows, Grew, Key

LEMMA DealPlaceStays ==
  ASSUME Grows, UNCHANGED world, NEW d \in Deal, wk'[d] = wk[d], DealPlace(d)
  PROVE  DealPlace(d)'
<1>1. Candidates' = Candidates
  BY CandidatesStay
<1>2. wk[d].pc \in {"map", "upsert", "relocate"} => Wanted(wk[d].at)'
  BY WantedStays DEF DealPlace
<1>3. wk[d].pc = "claim" => /\ loc'[wk[d].at] # None
                            /\ loc'[wk[d].at].ext \in Candidates \cup {None}
  BY NoneIsApart DEF DealPlace, Grows, Grew
<1> QED BY <1>1, <1>2, <1>3 DEF DealPlace, Wanted

LEMMA VenuePlaceStays ==
  ASSUME Grows, UNCHANGED world, NEW v \in Venue, wk'[v] = wk[v], VenuePlace(v)
  PROVE  VenuePlace(v)'
BY MineStays DEF VenuePlace, Mine

\* A step of one worker keeps the invariant if it keeps its own part of it.
LEMMA WorkerKeeps ==
  ASSUME PlaceInv, NEW k \in Key, Others(k), Grows, DataOK',
         k \in Deal => DealType(k)' /\ DealPlace(k)',
         k \in Venue => VenueType(k)' /\ VenuePlace(k)',
         \A d \in Deal : inv'[d] = inv[d] \/ Wanted(inv[d].at)',
         \A v \in Venue : backref'[v] = backref[v] \/ Mine(v, backref[v])',
         UNCHANGED <<world, seen>>
  PROVE  PlaceInv'
<1> USE DEF PlaceInv
<1>1. Candidates' = Candidates
  BY CandidatesStay
<1>2. \A d \in Deal : DealType(d)' /\ DealPlace(d)'
  <2>1. SUFFICES ASSUME NEW d \in Deal, d # k PROVE DealType(d)' /\ DealPlace(d)'
    OBVIOUS
  <2>2. wk'[d] = wk[d]
    BY <2>1 DEF Others, Key
  <2> QED BY <2>2, DealPlaceStays DEF TypeOK, DealType
<1>3. \A v \in Venue : VenueType(v)' /\ VenuePlace(v)'
  <2>1. SUFFICES ASSUME NEW v \in Venue, v # k PROVE VenueType(v)' /\ VenuePlace(v)'
    OBVIOUS
  <2>2. wk'[v] = wk[v]
    BY <2>1 DEF Others, Key
  <2> QED BY <2>2, VenuePlaceStays DEF TypeOK, VenueType
<1>4. IndexInv'
  BY <1>1, NoneIsApart DEF IndexInv, Grows, Grew
<1>5. (\A d \in Deal : inv[d] # None /\ inv[d].at # None => Wanted(inv[d].at))'
  <2>1. SUFFICES ASSUME NEW d \in Deal, (inv[d] # None /\ inv[d].at # None)',
                        inv'[d] = inv[d]
                 PROVE  Wanted(inv[d].at)'
    OBVIOUS
  <2>2. Wanted(inv[d].at)
    BY <2>1
  <2> QED BY <1>1, <2>1, <2>2, NoneIsApart DEF Wanted, Grows, Grew
<1>6. (\A v \in Venue : backref[v] # None => Mine(v, backref[v]))'
  <2>1. SUFFICES ASSUME NEW v \in Venue, (backref[v] # None)', backref'[v] = backref[v]
                 PROVE  Mine(v, backref[v])'
    OBVIOUS
  <2>2. Mine(v, backref[v])
    BY <2>1
  <2> QED BY <1>1, <2>1, <2>2, NoneIsApart DEF Mine, Grows, Grew, Key
<1>7. TypeOK'
  BY <1>2, <1>3 DEF TypeOK, Others
<1> QED BY <1>2, <1>3, <1>4, <1>5, <1>6, <1>7

LEMMA QuietKeeps ==
  ASSUME PlaceInv, NEW k \in Key, Others(k), Fault \/ Fine,
         k \in Deal => DealType(k)' /\ DealPlace(k)',
         k \in Venue => VenueType(k)' /\ VenuePlace(k)',
         UNCHANGED <<world, netsuite, hubspot>>
  PROVE  PlaceInv'
<1>1. Grows
  BY DEF Grows, Grew, netsuite
<1>2. DataOK'
  BY ReconcileAssumption DEF PlaceInv, TypeOK, DataOK, netsuite, hubspot, Fault, Fine
<1>3. UNCHANGED <<world, seen, inv, backref>>
  BY DEF netsuite, hubspot
<1> QED BY <1>1, <1>2, <1>3, WorkerKeeps

-----------------------------------------------------------------------------
(* Deals                                                                   *)

LEMMA KeyOf == Deal \subseteq Key /\ Venue \subseteq Key /\ Deal \cap Venue = {}
BY ReconcileAssumption DEF Key

\* The steps of a deal that write nothing outside the worker.
LEMMA DealQuiet ==
  ASSUME PlaceInv, NEW d \in Deal, NEW job, Set(d, job), Fault \/ Fine,
         UNCHANGED <<world, netsuite, hubspot>>,
         job.pc \in {"none", "queued", "acked"} \cup DealPC,
         job.pc = "stamp" => job.say \in Rejection \cup Synced,
         job.pc \in {"byName", "create", "claim", "byExt"} => job.venue \in Candidates,
         job.pc = "claim" => /\ job.at \in Loc /\ loc[job.at] # None
                             /\ loc[job.at].ext \in Candidates \cup {None},
         job.pc \in {"map", "upsert", "relocate"} => Wanted(job.at)
  PROVE  PlaceInv'
<1>1. DOMAIN wk = Key /\ d \in Key /\ d \notin Venue
  BY KeyOf DEF PlaceInv, TypeOK
<1>2. wk'[d] = job /\ Others(d)
  BY <1>1, SetSets
<1>3. Candidates' = Candidates /\ UNCHANGED loc
  BY CandidatesStay DEF netsuite
<1>4. DealType(d)'
  BY <1>2 DEF DealType, Wanted
<1>5. DealPlace(d)'
  BY <1>2, <1>3 DEF DealPlace, Wanted
<1> QED BY <1>1, <1>2, <1>4, <1>5, QuietKeeps

LEMMA SayQuiet ==
  ASSUME PlaceInv, NEW d \in Deal, NEW what \in Rejection \cup Synced,
         Say(d, what), Fault \/ Fine, UNCHANGED <<world, netsuite, hubspot>>
  PROVE  PlaceInv'
<1> DEFINE job == Job("stamp", wk[d].venue, wk[d].at, wk[d].lines, what)
<1>1. job.pc = "stamp" /\ job.say = what
  BY DEF Job
<1>2. Set(d, job)
  BY DEF Say
<1> HIDE DEF job
<1> QED BY <1>1, <1>2, DealQuiet DEF DealPC

LEMMA RaiseQuiet ==
  ASSUME PlaceInv, NEW k \in Key, Raise(k), Fault \/ Fine,
         UNCHANGED <<world, netsuite, hubspot>>
  PROVE  PlaceInv'
<1> DEFINE job == Idle("queued")
<1>1. job.pc = "queued"
  BY DEF Idle, Job
<1>2. wk'[k] = job /\ Others(k)
  BY SetSets DEF Raise, PlaceInv, TypeOK
<1> HIDE DEF job
<1>3. k \in Deal => DealType(k)' /\ DealPlace(k)'
  BY <1>1, <1>2 DEF DealType, DealPlace
<1>4. k \in Venue => VenueType(k)' /\ VenuePlace(k)'
  BY <1>1, <1>2 DEF VenueType, VenuePlace
<1> QED BY <1>2, <1>3, <1>4, QuietKeeps

\* Going on to pc with the location l.
LEMMA WithQuiet ==
  ASSUME PlaceInv, NEW d \in Deal, NEW pc \in DealPC, NEW l, With(d, pc, l),
         Fault \/ Fine, UNCHANGED <<world, netsuite, hubspot>>,
         pc # "stamp",
         pc \in {"byName", "create", "claim", "byExt"} => wk[d].venue \in Candidates,
         pc = "claim" => /\ l \in Loc /\ loc[l] # None
                         /\ loc[l].ext \in Candidates \cup {None},
         pc \in {"map", "upsert", "relocate"} => Wanted(l)
  PROVE  PlaceInv'
<1> DEFINE job == Job(pc, wk[d].venue, l, wk[d].lines, wk[d].say)
<1>1. job.pc = pc /\ job.at = l /\ job.venue = wk[d].venue
  BY DEF Job
<1>2. Set(d, job)
  BY DEF With
<1> HIDE DEF job
<1> QED BY <1>1, <1>2, DealQuiet

LEMMA StartKeeps == ASSUME PlaceInv, NEW d \in Deal, Start(d) PROVE PlaceInv'
<1>1. UNCHANGED <<world, netsuite, hubspot>> /\ Fine
  BY DEF Start, Fine
<1>2. ASSUME NEW n \in Failed(d), Say(d, EarlyChecks[n]) PROVE PlaceInv'
  <2>1. EarlyChecks[n] \in Rejection \cup Synced
    BY DEF Rejection, Flaw, Failed
  <2> QED BY <1>1, <1>2, <2>1, SayQuiet
<1>3. ASSUME NEW v \in Candidates, Set(d, Job("byName", v, None, <<>>, None))
      PROVE  PlaceInv'
  <2> DEFINE job == Job("byName", v, None, <<>>, None)
  <2>1. job.pc = "byName" /\ job.venue = v
    BY DEF Job
  <2>2. Set(d, job)
    BY <1>3
  <2> HIDE DEF job
  <2> QED BY <1>1, <2>1, <2>2, DealQuiet DEF DealPC
<1> QED BY <1>2, <1>3 DEF Start

LEMMA FindByNameKeeps ==
  ASSUME PlaceInv, NEW d \in Deal, FindByName(d) PROVE PlaceInv'
<1>1. UNCHANGED <<world, netsuite, hubspot>> /\ wk[d].venue \in Candidates
  BY DEF FindByName, PlaceInv, DealPlace
<1>2. CASE (Limited \/ Fine) /\ Goto(d, "create")
  BY <1>1, <1>2, WithQuiet DEF Goto, Limited, DealPC
<1>3. ASSUME NEW l \in ByName(world.want), Fine,
             CASE seen[l].ext = None        -> With(d, "claim", l)
               [] seen[l].ext = wk[d].venue -> With(d, "map", l)
               [] OTHER                     -> Raise(d)
      PROVE  PlaceInv'
  <2>1. l \in Loc /\ loc[l] # None /\ Grew(seen[l].ext, loc[l].ext)
    BY DEF ByName, PlaceInv, IndexInv
  <2>2. CASE seen[l].ext = None
    <3>1. With(d, "claim", l)
      BY <1>1, <1>3, <2>2, NoneIsApart
    <3>2. loc[l].ext \in Candidates \cup {None}
      BY <2>1, <2>2 DEF Grew
    <3> QED BY <1>1, <1>3, <2>1, <3>1, <3>2, WithQuiet DEF DealPC
  <2>3. CASE seen[l].ext = wk[d].venue
    <3>1. With(d, "map", l)
      BY <1>1, <1>3, <2>3, NoneIsApart
    <3>2. Wanted(l)
      BY <1>1, <2>1, <2>3 DEF Wanted, Grew
    <3> QED BY <1>1, <1>3, <3>1, <3>2, WithQuiet DEF DealPC
  <2>4. CASE seen[l].ext # None /\ seen[l].ext # wk[d].venue
    <3>1. Raise(d)
      BY <1>3, <2>4
    <3> QED BY <1>1, <1>3, <3>1, RaiseQuiet, KeyOf
  <2> QED BY <2>2, <2>3, <2>4
<1> QED BY <1>2, <1>3 DEF FindByName

LEMMA FindByExtKeeps ==
  ASSUME PlaceInv, NEW d \in Deal, FindByExt(d) PROVE PlaceInv'
<1>1. UNCHANGED <<world, netsuite, hubspot>> /\ wk[d].venue \in Candidates /\ Fine
  BY DEF FindByExt, PlaceInv, DealPlace
<1>2. CASE Raise(d)
  BY <1>1, <1>2, RaiseQuiet, KeyOf
<1>3. ASSUME NEW l \in ByExt(wk[d].venue), With(d, "map", l) PROVE PlaceInv'
  <2>1. Wanted(l)
    BY <1>1 DEF ByExt, PlaceInv, IndexInv, Grew, Wanted
  <2> QED BY <1>1, <1>3, <2>1, WithQuiet DEF DealPC
<1> QED BY <1>2, <1>3 DEF FindByExt

LEMMA MappedKeeps ==
  ASSUME PlaceInv, NEW d \in Deal, NEW lines, wk[d].pc = "map", Mapped(d, lines),
         Fault \/ Fine, UNCHANGED <<world, netsuite, hubspot>>
  PROVE  PlaceInv'
<1>1. Wanted(wk[d].at)
  BY DEF PlaceInv, DealPlace
<1>2. "noLines" \in Rejection /\ "guests" \in Rejection
  BY DEF Rejection, Flaw
<1>3. CASE Say(d, "noLines") \/ Say(d, "guests")
  BY <1>2, <1>3, SayQuiet
<1>4. CASE Goto(d, "relocate")
  BY <1>1, <1>4, WithQuiet DEF Goto, DealPC
<1>5. CASE Raise(d)
  BY <1>5, RaiseQuiet, KeyOf
<1>6. CASE Set(d, Job("upsert", wk[d].venue, wk[d].at, lines, None))
  <2> DEFINE job == Job("upsert", wk[d].venue, wk[d].at, lines, None)
  <2>1. job.pc = "upsert" /\ job.at = wk[d].at
    BY DEF Job
  <2>2. Set(d, job)
    BY <1>6
  <2> HIDE DEF job
  <2> QED BY <1>1, <2>1, <2>2, DealQuiet DEF DealPC
<1> QED BY <1>3, <1>4, <1>5, <1>6 DEF Mapped

LEMMA MapKeeps == ASSUME PlaceInv, NEW d \in Deal, Map(d) PROVE PlaceInv'
<1>1. wk[d].pc = "map" /\ UNCHANGED <<world, netsuite, hubspot>>
  BY DEF Map
<1>2. CASE Fine /\ Mapped(d, InvoiceLines(world.lines[d], Catalogue))
  BY <1>1, <1>2, MappedKeeps
<1>3. ASSUME Limited, NEW lines, Mapped(d, lines) PROVE PlaceInv'
  BY <1>1, <1>3, MappedKeeps DEF Limited
<1>4. CASE Fault /\ Say(d, "mapping")
  BY <1>1, <1>4, SayQuiet DEF Rejection
<1> QED BY <1>2, <1>3, <1>4 DEF Map

\* The steps that write a location: one that is new, or one whose externalId
\* may become the worker's.
LEMMA PutGrows ==
  ASSUME PlaceInv, NEW l \in Loc, NEW v \in Venue, Put(l, v),
         loc[l] = None \/ Grew(loc[l].ext, v), world.name[v] # NoName
  PROVE  /\ Grows /\ loc' \in [Loc -> Location \cup {None}]
         /\ loc'[l] # None /\ loc'[l].ext = v
<1> DEFINE new == [name |-> world.name[v], ext |-> v]
<1>1. loc \in [Loc -> Location \cup {None}] /\ world.name \in [Venue -> Name \cup {NoName}]
  BY DEF PlaceInv, TypeOK, DataOK, IsWorld
<1>2. new \in Location /\ new.ext = v
  BY <1>1 DEF Location
<1>3. loc' = [loc EXCEPT ![l] = new]
  BY DEF Put
<1>4. new # None
  BY <1>2, ReconcileAssumption
<1> HIDE DEF new
<1> QED BY <1>1, <1>2, <1>3, <1>4 DEF Grows, Grew

LEMMA CandidateNamed ==
  ASSUME PlaceInv, NEW v \in Candidates
  PROVE  v \in Venue /\ world.name[v] # NoName
BY ReconcileAssumption DEF PlaceInv, TypeOK, DataOK, IsWorld, Candidates

\* A deal's step that writes a location.
LEMMA DealPut ==
  ASSUME PlaceInv, NEW d \in Deal, NEW v \in Candidates, NEW l \in Loc, Put(l, v),
         loc[l] = None \/ loc[l].ext \in Candidates \cup {None},
         With(d, "byExt", wk[d].at) \/ With(d, "byExt", l), wk[d].venue = v, Fine,
         UNCHANGED <<world, seen, inv, hubspot>>
  PROVE  PlaceInv'
<1>1. v \in Venue /\ world.name[v] # NoName
  BY CandidateNamed
<1>2. Grows /\ loc' \in [Loc -> Location \cup {None}]
  <2>1. loc[l] = None \/ Grew(loc[l].ext, v)
    BY DEF Grew
  <2> QED BY <1>1, <2>1, PutGrows
<1>3. PICK at : wk'[d] = Job("byExt", v, at, wk[d].lines, wk[d].say) /\ Others(d)
  BY SetSets, KeyOf DEF With, PlaceInv, TypeOK
<1>4. wk'[d].pc = "byExt" /\ wk'[d].venue = v
  BY <1>3 DEF Job
<1>5. DealType(d)' /\ DealPlace(d)'
  BY <1>4, CandidatesStay DEF DealType, DealPlace, DealPC
<1>6. DataOK'
  BY <1>2 DEF PlaceInv, TypeOK, DataOK, hubspot, Fine
<1>7. d \notin Venue /\ d \in Key /\ UNCHANGED <<inv, backref>>
  BY KeyOf DEF hubspot
<1> QED BY <1>2, <1>3, <1>5, <1>6, <1>7, WorkerKeeps

LEMMA CreateKeeps == ASSUME PlaceInv, NEW d \in Deal, Create(d) PROVE PlaceInv'
<1> DEFINE v == wk[d].venue
<1>1. wk[d].pc = "create" /\ v \in Candidates
  BY DEF Create, PlaceInv, DealPlace
<1>2. UNCHANGED <<world, seen, inv, hubspot>>
  BY DEF Create
<1>3. CASE Fine /\ PostNew(d, v, "byExt")
  <2>1. PICK l \in Loc : loc[l] = None /\ Put(l, v) /\ With(d, "byExt", l)
    BY <1>3 DEF PostNew
  <2> HIDE DEF v
  <2> QED BY <1>1, <1>2, <1>3, <2>1, DealPut DEF v
<1>4. CASE Fine /\ PostRefused(d, v)
  BY <1>2, <1>4, RaiseQuiet, KeyOf DEF PostRefused, netsuite
<1>5. CASE Limited /\ Goto(d, "byExt") /\ UNCHANGED loc
  BY <1>1, <1>2, <1>5, WithQuiet DEF Goto, Limited, DealPC, netsuite
<1> QED BY <1>3, <1>4, <1>5 DEF Create

LEMMA ClaimKeeps == ASSUME PlaceInv, NEW d \in Deal, Claim(d) PROVE PlaceInv'
<1> DEFINE v == wk[d].venue
           l == wk[d].at
<1>1. /\ v \in Candidates /\ l \in Loc /\ loc[l] # None
      /\ loc[l].ext \in Candidates \cup {None}
  BY DEF Claim, PlaceInv, DealPlace
<1>2. UNCHANGED <<world, seen, inv, hubspot>>
  BY DEF Claim
<1>3. CASE Fine /\ Raise(d) /\ UNCHANGED loc
  BY <1>2, <1>3, RaiseQuiet, KeyOf DEF netsuite
<1>4. CASE Fine /\ Put(l, v) /\ Goto(d, "byExt")
  BY <1>1, <1>2, <1>4, DealPut DEF Goto
<1>5. CASE Limited /\ Goto(d, "byExt") /\ UNCHANGED loc
  BY <1>1, <1>2, <1>5, WithQuiet DEF Goto, Limited, DealPC, netsuite
<1> QED BY <1>3, <1>4, <1>5 DEF Claim

\* A deal's step that writes its invoice or itself.
LEMMA DealWrite ==
  ASSUME PlaceInv, NEW d \in Deal, NEW job, Set(d, job),
         job.pc \in {"stamp", "acked"}, job.pc = "stamp" => job.say \in Rejection \cup Synced,
         DataOK', \A e \in Deal : inv'[e] = inv[e] \/ Wanted(inv[e].at)',
         UNCHANGED <<world, loc, seen, backref>>
  PROVE  PlaceInv'
<1>1. wk'[d] = job /\ Others(d)
  BY SetSets, KeyOf DEF PlaceInv, TypeOK
<1>2. DealType(d)' /\ DealPlace(d)'
  BY <1>1 DEF DealType, DealPlace, DealPC
<1>3. Grows
  BY DEF Grows, Grew
<1>4. d \notin Venue /\ d \in Key
  BY KeyOf
<1> QED BY <1>1, <1>2, <1>3, <1>4, WorkerKeeps

LEMMA InvoiceWritten ==
  ASSUME PlaceInv, NEW d \in Deal, NEW lines, Wanted(wk[d].at),
         inv' = [inv EXCEPT ![d] = [at |-> wk[d].at, lines |-> lines]],
         UNCHANGED <<world, loc, seen, hubspot>>, faults' \in 0 .. MaxFaults
  PROVE  DataOK' /\ \A e \in Deal : inv'[e] = inv[e] \/ Wanted(inv[e].at)'
<1>1. DOMAIN inv = Deal /\ wk[d].at \in Loc
  BY DEF PlaceInv, TypeOK, DataOK, Wanted
<1>2. DOMAIN inv' = Deal /\ inv'[d].at = wk[d].at /\ \A e \in Deal \ {d} : inv'[e] = inv[e]
  BY <1>1
<1>3. Wanted(inv[d].at)'
  BY <1>2, CandidatesStay DEF Wanted
<1>4. DataOK'
  BY <1>1, <1>2 DEF PlaceInv, TypeOK, DataOK, hubspot
<1> QED BY <1>2, <1>3, <1>4

LEMMA SuccessSaid == \A d : Success(d) \in Rejection \cup Synced
BY DEF Success, Synced

LEMMA UpsertKeeps == ASSUME PlaceInv, NEW d \in Deal, Upsert(d) PROVE PlaceInv'
<1> DEFINE job == Job("stamp", wk[d].venue, wk[d].at, wk[d].lines, Success(d))
<1>1. job.pc = "stamp" /\ job.say \in Rejection \cup Synced
  BY SuccessSaid DEF Job
<1>2. Set(d, job)
  BY DEF Upsert, Say
<1>3. Wanted(wk[d].at) /\ faults' \in 0 .. MaxFaults
  BY DEF Upsert, PlaceInv, DealPlace, TypeOK, DataOK, Fine
<1>4. DataOK' /\ \A e \in Deal : inv'[e] = inv[e] \/ Wanted(inv[e].at)'
  BY <1>3, InvoiceWritten DEF Upsert
<1>5. UNCHANGED <<world, loc, seen, backref>>
  BY DEF Upsert, hubspot
<1> HIDE DEF job
<1> QED BY <1>1, <1>2, <1>4, <1>5, DealWrite

LEMMA RelocateKeeps == ASSUME PlaceInv, NEW d \in Deal, Relocate(d) PROVE PlaceInv'
<1>1. "modified" \in Rejection \cup Synced
  BY DEF Synced
<1>2. CASE Limited /\ UNCHANGED inv
  BY <1>1, <1>2, SayQuiet DEF Relocate, Limited, netsuite
<1>3. CASE Fine /\ inv' = [inv EXCEPT ![d] = [at |-> wk[d].at, lines |-> inv[d].lines]]
  <2> DEFINE job == Job("stamp", wk[d].venue, wk[d].at, wk[d].lines, "modified")
  <2>1. job.pc = "stamp" /\ job.say \in Rejection \cup Synced
    BY <1>1 DEF Job
  <2>2. Set(d, job)
    BY DEF Relocate, Say
  <2>3. Wanted(wk[d].at) /\ faults' \in 0 .. MaxFaults
    BY <1>3 DEF Relocate, PlaceInv, DealPlace, TypeOK, DataOK, Fine
  <2>4. DataOK' /\ \A e \in Deal : inv'[e] = inv[e] \/ Wanted(inv[e].at)'
    BY <1>3, <2>3, InvoiceWritten DEF Relocate
  <2>5. UNCHANGED <<world, loc, seen, backref>>
    BY DEF Relocate, hubspot
  <2> HIDE DEF job
  <2> QED BY <2>1, <2>2, <2>4, <2>5, DealWrite
<1> QED BY <1>2, <1>3 DEF Relocate

LEMMA StampKeeps == ASSUME PlaceInv, NEW d \in Deal, Stamp(d) PROVE PlaceInv'
<1> DEFINE job == Idle("acked")
<1>1. job.pc = "acked"
  BY DEF Idle, Job
<1>2. Set(d, job) /\ UNCHANGED <<world, loc, seen, inv, backref, faults>>
  BY DEF Stamp, netsuite
<1>3. wk[d].say \in Rejection \cup Synced
  BY DEF Stamp, PlaceInv, TypeOK, DealType
<1>4. numbered' \subseteq Deal /\ status' \in [Deal -> Rejection \cup Synced \cup {None}]
  BY <1>3 DEF Stamp, PlaceInv, TypeOK, DataOK
<1>5. DataOK'
  BY <1>2, <1>4 DEF PlaceInv, TypeOK, DataOK
<1> HIDE DEF job
<1> QED BY <1>1, <1>2, <1>5, DealWrite

LEMMA DealStepKeeps == ASSUME PlaceInv, NEW d \in Deal, DealStep(d) PROVE PlaceInv'
BY StartKeeps, FindByNameKeeps, CreateKeeps, ClaimKeeps, FindByExtKeeps, MapKeeps,
   UpsertKeeps, RelocateKeeps, StampKeeps DEF DealStep

-----------------------------------------------------------------------------
(* Venues and the search index                                             *)

\* The steps of a venue that write nothing outside the worker.
LEMMA VenueQuiet ==
  ASSUME PlaceInv, NEW v \in Venue, NEW job, Set(v, job), Fault \/ Fine,
         UNCHANGED <<world, netsuite, hubspot>>,
         job.pc \in {"none", "queued", "acked"} \cup VenuePC,
         job.pc \in {"venueByExt", "venuePatch", "venuePost"} => world.name[v] # NoName,
         job.pc \in {"venuePatch", "backref"} => Mine(v, job.at)
  PROVE  PlaceInv'
<1>1. DOMAIN wk = Key /\ v \in Key /\ v \notin Deal
  BY KeyOf DEF PlaceInv, TypeOK
<1>2. wk'[v] = job /\ Others(v)
  BY <1>1, SetSets
<1>3. Candidates' = Candidates /\ UNCHANGED <<world, loc>>
  BY CandidatesStay DEF netsuite
<1>4. VenueType(v)'
  BY <1>2 DEF VenueType, Mine
<1>5. VenuePlace(v)'
  BY <1>2, <1>3 DEF VenuePlace, Mine
<1> QED BY <1>1, <1>2, <1>4, <1>5, QuietKeeps

LEMMA VenueWithQuiet ==
  ASSUME PlaceInv, NEW v \in Venue, NEW pc \in VenuePC, NEW l, With(v, pc, l),
         Fault \/ Fine, UNCHANGED <<world, netsuite, hubspot>>,
         world.name[v] # NoName,
         pc \in {"venuePatch", "backref"} => Mine(v, l)
  PROVE  PlaceInv'
<1> DEFINE job == Job(pc, wk[v].venue, l, wk[v].lines, wk[v].say)
<1>1. job.pc = pc /\ job.at = l
  BY DEF Job
<1>2. Set(v, job)
  BY DEF With
<1> HIDE DEF job
<1> QED BY <1>1, <1>2, VenueQuiet

\* What the index shows as a venue's location is its own, or was.
LEMMA FoundIsMine ==
  ASSUME PlaceInv, NEW v \in Venue, NEW l \in ByExt(v) PROVE Mine(v, l)
BY NoneIsApart DEF ByExt, PlaceInv, IndexInv, Grew, Mine, Key

LEMMA StartVenueKeeps ==
  ASSUME PlaceInv, NEW v \in Venue, StartVenue(v) PROVE PlaceInv'
<1>1. UNCHANGED <<world, netsuite, hubspot>> /\ Fine
  BY DEF StartVenue, Fine
<1>2. CASE Set(v, Idle("acked"))
  <2> DEFINE job == Idle("acked")
  <2>1. job.pc = "acked" /\ Set(v, job)
    BY <1>2 DEF Idle, Job
  <2> HIDE DEF job
  <2> QED BY <1>1, <2>1, VenueQuiet
<1>3. CASE world.name[v] # NoName /\ Goto(v, "venueByExt")
  BY <1>1, <1>3, VenueWithQuiet DEF Goto, VenuePC
<1> QED BY <1>2, <1>3 DEF StartVenue

LEMMA FindVenueKeeps ==
  ASSUME PlaceInv, NEW v \in Venue, FindVenue(v) PROVE PlaceInv'
<1>1. UNCHANGED <<world, netsuite, hubspot>> /\ world.name[v] # NoName
  BY DEF FindVenue, PlaceInv, VenuePlace
<1>2. CASE (Limited \/ Fine) /\ Goto(v, "venuePost")
  BY <1>1, <1>2, VenueWithQuiet DEF Goto, Limited, VenuePC
<1>3. ASSUME NEW l \in ByExt(v), Fine, With(v, "venuePatch", l) PROVE PlaceInv'
  BY <1>1, <1>3, FoundIsMine, VenueWithQuiet DEF VenuePC
<1> QED BY <1>2, <1>3 DEF FindVenue

LEMMA ReadBackKeeps ==
  ASSUME PlaceInv, NEW v \in Venue, ReadBack(v) PROVE PlaceInv'
<1>1. UNCHANGED <<world, netsuite, hubspot>> /\ Fine
  BY DEF ReadBack
<1>2. CASE Set(v, Idle("acked"))
  <2> DEFINE job == Idle("acked")
  <2>1. job.pc = "acked" /\ Set(v, job)
    BY <1>2 DEF Idle, Job
  <2> HIDE DEF job
  <2> QED BY <1>1, <2>1, VenueQuiet
<1>3. ASSUME NEW l \in ByExt(v), With(v, "backref", l) PROVE PlaceInv'
  <2> DEFINE job == Job("backref", wk[v].venue, l, wk[v].lines, wk[v].say)
  <2>1. job.pc = "backref" /\ job.at = l /\ Set(v, job)
    BY <1>3 DEF With, Job
  <2> HIDE DEF job
  <2> QED BY <1>1, <2>1, FoundIsMine, VenueQuiet DEF VenuePC
<1> QED BY <1>2, <1>3 DEF ReadBack

\* A venue's step that writes a location.
LEMMA VenuePut ==
  ASSUME PlaceInv, NEW v \in Venue, NEW l \in Loc, Put(l, v), world.name[v] # NoName,
         loc[l] = None \/ Mine(v, l), NEW pc \in {"backref", "readBack"}, With(v, pc, l),
         faults' \in 0 .. MaxFaults, UNCHANGED <<world, seen, inv, hubspot>>
  PROVE  PlaceInv'
<1>1. /\ Grows /\ loc' \in [Loc -> Location \cup {None}]
      /\ loc'[l] # None /\ loc'[l].ext = v
  <2>1. loc[l] = None \/ Grew(loc[l].ext, v)
    BY DEF Mine, Grew
  <2> QED BY <2>1, PutGrows
<1> DEFINE job == Job(pc, wk[v].venue, l, wk[v].lines, wk[v].say)
<1>2. job.pc = pc /\ job.at = l /\ Set(v, job)
  BY DEF Job, With
<1> HIDE DEF job
<1>3. wk'[v] = job /\ Others(v)
  BY <1>2, SetSets, KeyOf DEF PlaceInv, TypeOK
<1>4. Mine(v, l)'
  BY <1>1 DEF Mine
<1>5. VenueType(v)' /\ VenuePlace(v)'
  BY <1>2, <1>3, <1>4 DEF VenueType, VenuePlace, VenuePC, Mine
<1>6. DataOK'
  BY <1>1 DEF PlaceInv, TypeOK, DataOK, hubspot
<1>7. v \notin Deal /\ v \in Key /\ UNCHANGED <<inv, backref>>
  BY KeyOf DEF hubspot
<1> QED BY <1>1, <1>3, <1>5, <1>6, <1>7, WorkerKeeps

LEMMA FaultsStay == ASSUME PlaceInv, Fault \/ Fine PROVE faults' \in 0 .. MaxFaults
BY ReconcileAssumption DEF PlaceInv, TypeOK, DataOK, Fault, Fine

LEMMA PatchVenueKeeps ==
  ASSUME PlaceInv, NEW v \in Venue, PatchVenue(v) PROVE PlaceInv'
<1> DEFINE l == wk[v].at
<1>1. UNCHANGED <<world, seen, inv, hubspot>> /\ Fine
  BY DEF PatchVenue
<1>2. world.name[v] # NoName /\ Mine(v, l) /\ l \in Loc
  BY DEF PatchVenue, PlaceInv, VenuePlace, Mine
<1>3. CASE Raise(v) /\ UNCHANGED loc
  BY <1>1, <1>3, RaiseQuiet, KeyOf DEF netsuite
<1>4. CASE Put(l, v) /\ Goto(v, "backref")
  BY <1>1, <1>2, <1>4, FaultsStay, VenuePut DEF Goto
<1> QED BY <1>3, <1>4 DEF PatchVenue

LEMMA PostVenueKeeps ==
  ASSUME PlaceInv, NEW v \in Venue, PostVenue(v) PROVE PlaceInv'
<1>1. UNCHANGED <<world, seen, inv, hubspot>>
  BY DEF PostVenue
<1>2. world.name[v] # NoName
  BY DEF PostVenue, PlaceInv, VenuePlace
<1>3. ASSUME NEW pc \in {"backref", "readBack"}, PostNew(v, v, pc), Fault \/ Fine
      PROVE  PlaceInv'
  <2>1. PICK l \in Loc : loc[l] = None /\ Put(l, v) /\ With(v, pc, l)
    BY <1>3 DEF PostNew
  <2> QED BY <1>1, <1>2, <1>3, <2>1, FaultsStay, VenuePut
<1>4. CASE Fine /\ PostRefused(v, v)
  BY <1>1, <1>4, RaiseQuiet, KeyOf DEF PostRefused, netsuite
<1> QED BY <1>3, <1>4 DEF PostVenue

LEMMA WriteBackrefKeeps ==
  ASSUME PlaceInv, NEW v \in Venue, WriteBackref(v) PROVE PlaceInv'
<1> DEFINE job == Idle("acked")
<1>1. job.pc = "acked" /\ Set(v, job)
  BY DEF Idle, Job, WriteBackref
<1> HIDE DEF job
<1>2. wk'[v] = job /\ Others(v)
  BY <1>1, SetSets, KeyOf DEF PlaceInv, TypeOK
<1>3. VenueType(v)' /\ VenuePlace(v)'
  BY <1>1, <1>2 DEF VenueType, VenuePlace
<1>4. UNCHANGED <<world, loc, seen, inv, status, numbered, faults>>
  BY DEF WriteBackref, netsuite
<1>5. Mine(v, wk[v].at) /\ wk[v].at \in Loc
  BY DEF WriteBackref, PlaceInv, VenuePlace, Mine
<1>6. backref' = [backref EXCEPT ![v] = wk[v].at]
  BY DEF WriteBackref
<1>7. backref \in [Venue -> Loc \cup {None}]
  BY DEF PlaceInv, TypeOK, DataOK
<1>8. \A u \in Venue : backref'[u] = backref[u] \/ Mine(u, backref[u])'
  <2>1. Mine(v, backref[v])'
    BY <1>4, <1>5, <1>6, <1>7, CandidatesStay DEF Mine
  <2> QED BY <1>6, <1>7, <2>1
<1>9. DataOK' /\ Grows
  BY <1>4, <1>5, <1>6, <1>7 DEF PlaceInv, TypeOK, DataOK, Grows, Grew
<1>10. v \notin Deal /\ v \in Key
  BY KeyOf
<1> QED BY <1>2, <1>3, <1>4, <1>8, <1>9, <1>10, WorkerKeeps

LEMMA VenueStepKeeps ==
  ASSUME PlaceInv, NEW v \in Venue, VenueStep(v) PROVE PlaceInv'
BY StartVenueKeeps, FindVenueKeeps, PatchVenueKeeps, PostVenueKeeps, ReadBackKeeps,
   WriteBackrefKeeps DEF VenueStep

LEMMA IndexKeeps == ASSUME PlaceInv, NEW l \in Loc, Index(l) PROVE PlaceInv'
<1>1. /\ UNCHANGED <<world, loc, inv, wk, faults>> /\ UNCHANGED hubspot
      /\ seen' = [seen EXCEPT ![l] = loc[l]]
  BY DEF Index
<1>2. Candidates' = Candidates
  BY <1>1, CandidatesStay
<1>3. TypeOK'
  BY <1>1 DEF PlaceInv, TypeOK, DataOK, DealType, VenueType, hubspot
<1>4. IndexInv'
  BY <1>1, <1>2 DEF PlaceInv, TypeOK, DataOK, IndexInv, Grew
<1>5. \A d \in Deal : DealPlace(d)'
  BY <1>1, <1>2 DEF PlaceInv, DealPlace, Wanted
<1>6. \A v \in Venue : VenuePlace(v)'
  BY <1>1, <1>2 DEF PlaceInv, VenuePlace, Mine
<1>7. (\A d \in Deal : inv[d] # None /\ inv[d].at # None => Wanted(inv[d].at))'
  BY <1>1, <1>2 DEF PlaceInv, Wanted
<1>8. (\A v \in Venue : backref[v] # None => Mine(v, backref[v]))'
  BY <1>1, <1>2 DEF PlaceInv, Mine, hubspot
<1> QED BY <1>3, <1>4, <1>5, <1>6, <1>7, <1>8 DEF PlaceInv

-----------------------------------------------------------------------------
(* Sums: SumFunctionOnSet adds in the order of a CHOOSE                    *)

\* What holds of every subset of which it holds of the smaller ones.
LEMMA SmallerFirst ==
  ASSUME NEW S, IsFiniteSet(S), NEW G,
         ASSUME NEW T \in SUBSET S, \A U \in SUBSET T : U # T => U \in G
         PROVE  T \in G
  PROVE  S \in G
<1> DEFINE bad == (SUBSET S) \ G
<1>1. SUFFICES ASSUME S \notin G PROVE FALSE
  OBVIOUS
<1>2. bad \subseteq FiniteSubsetsOf(S)
  BY FS_Subset DEF FiniteSubsetsOf
<1>3. PICK T \in bad : \A U \in bad : ~(<<U, T>> \in StrictSubsetOrdering(S))
  <2>1. bad # {}
    BY <1>1
  <2> HIDE DEF bad
  <2> QED BY <1>2, <2>1, FS_StrictSubsetOrderingWellFounded, WFMin
<1>4. ASSUME NEW U \in SUBSET T, U # T PROVE U \in G
  <2>1. <<U, T>> \in StrictSubsetOrdering(S)
    BY <1>4 DEF StrictSubsetOrdering
  <2> QED BY <1>3, <2>1
<1> QED BY <1>3, <1>4

\* What holds of the empty set and, with a set, of one more element.
LEMMA OneByOne ==
  ASSUME NEW S, IsFiniteSet(S), NEW G, {} \in G,
         ASSUME NEW T \in SUBSET S, NEW x \in S \ T, T \in G
         PROVE  T \cup {x} \in G
  PROVE  S \in G
<1>1. ASSUME NEW T \in SUBSET S, \A U \in SUBSET T : U # T => U \in G
      PROVE  T \in G
  <2>1. CASE T = {}
    BY <2>1
  <2>2. ASSUME NEW x \in T PROVE T \in G
    <3>1. T \ {x} \in G /\ T \ {x} \in SUBSET S /\ x \in S \ (T \ {x})
      BY <1>1
    <3>2. (T \ {x}) \cup {x} = T
      OBVIOUS
    <3>3. (T \ {x}) \cup {x} \in G
      BY <3>1
    <3> QED BY <3>2, <3>3
  <2> QED BY <2>1, <2>2
<1> QED BY <1>1, SmallerFirst

\* a gives each subset of S the sum of f over it.
Totals(a, f, S) ==
  /\ a \in [SUBSET S -> Int] /\ a[{}] = 0
  /\ \A T \in SUBSET S : \A x \in S \ T : a[T \cup {x}] = f[x] + a[T]

\* There is such a function, for every finite S.
LEMMA TotalsExist ==
  ASSUME NEW f, NEW S, IsFiniteSet(S), \A x \in S : f[x] \in Int
  PROVE  \E a : Totals(a, f, S)
<1> DEFINE G == {T \in SUBSET S : \E a : Totals(a, f, T)}
<1>1. {} \in G
  <2> DEFINE a == [T \in SUBSET {} |-> 0]
  <2>1. Totals(a, f, {})
    BY DEF Totals
  <2> HIDE DEF a
  <2> QED BY <2>1
<1>2. ASSUME NEW T \in SUBSET S, NEW y \in S \ T, T \in G
      PROVE  T \cup {y} \in G
  <2>1. PICK a : Totals(a, f, T)
    BY <1>2
  <2> DEFINE W == T \cup {y}
             b == [U \in SUBSET W |-> IF y \in U THEN f[y] + a[U \ {y}] ELSE a[U]]
  <2>2. \A U \in SUBSET W : U \ {y} \in SUBSET T /\ (y \notin U => U \in SUBSET T)
    OBVIOUS
  <2>3. b \in [SUBSET W -> Int]
    BY <2>1, <2>2 DEF Totals
  <2>4. b[{}] = 0
    BY <2>1 DEF Totals
  <2>5. ASSUME NEW U \in SUBSET W, NEW x \in W \ U PROVE b[U \cup {x}] = f[x] + b[U]
    <3>1. U \cup {x} \in SUBSET W
      OBVIOUS
    <3>2. CASE x = y
      <4>1. (U \cup {x}) \ {y} = U
        BY <3>2
      <4> QED BY <3>1, <3>2, <4>1
    <3>3. CASE x # y /\ y \notin U
      <4>1. U \in SUBSET T /\ x \in T \ U
        BY <3>3
      <4>2. a[U \cup {x}] = f[x] + a[U]
        BY <2>1, <4>1 DEF Totals
      <4> QED BY <3>1, <3>3, <4>2
    <3>4. CASE x # y /\ y \in U
      <4>1. U \ {y} \in SUBSET T /\ x \in T \ (U \ {y})
        BY <3>4
      <4>2. a[(U \ {y}) \cup {x}] = f[x] + a[U \ {y}]
        BY <2>1, <4>1 DEF Totals
      <4>3. (U \cup {x}) \ {y} = (U \ {y}) \cup {x}
        BY <3>4
      <4>4. b[U \cup {x}] = f[y] + (f[x] + a[U \ {y}]) /\ b[U] = f[y] + a[U \ {y}]
        BY <3>1, <3>4, <4>2, <4>3
      <4>5. f[x] \in Int /\ f[y] \in Int /\ a[U \ {y}] \in Int
        BY <2>1, <4>1 DEF Totals
      <4> HIDE DEF b
      <4> QED BY <4>4, <4>5
    <3> QED BY <3>2, <3>3, <3>4
  <2>6. Totals(b, f, W)
    <3> HIDE DEF b, W
    <3> QED BY <2>3, <2>4, <2>5 DEF Totals
  <2> QED BY <2>6
<1>3. S \in G
  <2> HIDE DEF G
  <2> QED BY <1>1, <1>2, OneByOne
<1> QED BY <1>3

\* The equation of the fold that SumFunctionOnSet is.
FoldsTo(iter, f, S) ==
  iter = [s \in SUBSET S |->
            IF s = {} THEN 0
            ELSE f[CHOOSE x \in s : TRUE] + iter[s \ {CHOOSE x \in s : TRUE}]]

\* The totals solve that equation, and nothing else does.
LEMMA TotalsFold ==
  ASSUME NEW f, NEW S, NEW a, Totals(a, f, S)
  PROVE  FoldsTo(a, f, S)
<1>1. ASSUME NEW s \in SUBSET S, s # {}
      PROVE  a[s] = f[CHOOSE x \in s : TRUE] + a[s \ {CHOOSE x \in s : TRUE}]
  <2> DEFINE c == CHOOSE x \in s : TRUE
  <2>1. c \in s
    BY <1>1
  <2> HIDE DEF c
  <2>2. s \ {c} \in SUBSET S /\ c \in S \ (s \ {c}) /\ (s \ {c}) \cup {c} = s
    BY <2>1
  <2>3. a[(s \ {c}) \cup {c}] = f[c] + a[s \ {c}]
    BY <2>2 DEF Totals
  <2>4. a[s] = f[c] + a[s \ {c}]
    BY <2>2, <2>3
  <2> QED BY <2>4 DEF c
<1> QED BY <1>1 DEF Totals, FoldsTo

LEMMA FoldsTotal ==
  ASSUME NEW f, NEW S, IsFiniteSet(S), NEW a, Totals(a, f, S),
         NEW iter, FoldsTo(iter, f, S)
  PROVE  iter[S] = a[S]
<1> DEFINE G == {T \in SUBSET S : iter[T] = a[T]}
<1>1. ASSUME NEW T \in SUBSET S, \A U \in SUBSET T : U # T => U \in G
      PROVE  T \in G
  <2>1. CASE T = {}
    BY <2>1 DEF FoldsTo, Totals
  <2>2. CASE T # {}
    <3> DEFINE c == CHOOSE x \in T : TRUE
    <3>1. c \in T
      BY <2>2
    <3>2. iter[T] = f[c] + iter[T \ {c}]
      BY <2>2 DEF FoldsTo
    <3>3. a[T] = f[c] + a[T \ {c}]
      <4>1. FoldsTo(a, f, S)
        BY TotalsFold
      <4> QED BY <2>2, <4>1 DEF FoldsTo
    <3>4. T \ {c} \in G
      <4> HIDE DEF c, G
      <4> QED BY <1>1, <3>1
    <3> HIDE DEF c
    <3> QED BY <3>2, <3>3, <3>4
  <2> QED BY <2>1, <2>2
<1>2. S \in G
  <2> HIDE DEF G
  <2> QED BY <1>1, SmallerFirst
<1> QED BY <1>2

\* SumFunctionOnSet is the total, whichever element it takes first.
LEMMA SumIsTotal ==
  ASSUME NEW f, NEW S, IsFiniteSet(S), NEW a, Totals(a, f, S)
  PROVE  SumFunctionOnSet(f, S) = a[S]
<1> DEFINE it == CHOOSE iter : FoldsTo(iter, f, S)
<1>1. SumFunctionOnSet(f, S) = it[S]
  BY DEF SumFunctionOnSet, FoldFunctionOnSet, MapThenFoldSet, FoldsTo
<1>2. FoldsTo(it, f, S)
  BY TotalsFold
<1> HIDE DEF it
<1> QED BY <1>1, <1>2, FoldsTotal

\* What the sums of the model (Halves, AmountOf) are built from: no term, an
\* integer, one term more, one term.
LEMMA SumEmpty == ASSUME NEW f PROVE SumFunctionOnSet(f, {}) = 0
<1>1. IsFiniteSet({})
  BY FS_EmptySet
<1>2. PICK a : Totals(a, f, {})
  BY <1>1, TotalsExist
<1> QED BY <1>1, <1>2, SumIsTotal DEF Totals

LEMMA SumInt ==
  ASSUME NEW f, NEW S, IsFiniteSet(S), \A x \in S : f[x] \in Int
  PROVE  SumFunctionOnSet(f, S) \in Int
<1>1. PICK a : Totals(a, f, S)
  BY TotalsExist
<1>2. SumFunctionOnSet(f, S) = a[S]
  BY <1>1, SumIsTotal
<1>3. a[S] \in Int
  BY <1>1 DEF Totals
<1> QED BY <1>2, <1>3

LEMMA SumAdd ==
  ASSUME NEW f, NEW S, IsFiniteSet(S), NEW x, x \notin S,
         f[x] \in Int, \A y \in S : f[y] \in Int
  PROVE  /\ SumFunctionOnSet(f, S) \in Int
         /\ SumFunctionOnSet(f, S \cup {x}) = f[x] + SumFunctionOnSet(f, S)
<1> DEFINE W == S \cup {x}
<1>1. IsFiniteSet(W)
  BY FS_AddElement
<1>2. PICK a : Totals(a, f, W)
  BY <1>1, TotalsExist
<1> DEFINE b == [T \in SUBSET S |-> a[T]]
<1>3. Totals(b, f, S)
  BY <1>2 DEF Totals
<1>4. b[S] = a[S] /\ a[S] \in Int /\ a[W] = f[x] + a[S]
  BY <1>2 DEF Totals
<1> HIDE DEF b, W
<1>5. SumFunctionOnSet(f, W) = a[W] /\ SumFunctionOnSet(f, S) = b[S]
  BY <1>1, <1>2, <1>3, SumIsTotal
<1> QED BY <1>4, <1>5 DEF W

LEMMA SumSingle ==
  ASSUME NEW f, NEW x, f[x] \in Int PROVE SumFunctionOnSet(f, {x}) = f[x]
<1>1. IsFiniteSet({}) /\ x \notin {} /\ {} \cup {x} = {x}
  BY FS_EmptySet
<1>2. SumFunctionOnSet(f, {} \cup {x}) = f[x] + SumFunctionOnSet(f, {})
  BY <1>1, SumAdd
<1> QED BY <1>1, <1>2, SumEmpty

\* A sum does not depend on how its terms are named.
LEMMA SumRenamed ==
  ASSUME NEW S, IsFiniteSet(S), NEW f, NEW g, NEW b,
         \A x \in S : g[b[x]] = f[x] /\ f[x] \in Int,
         \A x, y \in S : b[x] = b[y] => x = y
  PROVE  SumFunctionOnSet(g, {b[x] : x \in S}) = SumFunctionOnSet(f, S)
<1> DEFINE Im(T) == {b[x] : x \in T}
           G == {T \in SUBSET S :
                   /\ IsFiniteSet(Im(T))
                   /\ SumFunctionOnSet(g, Im(T)) = SumFunctionOnSet(f, T)}
<1>1. {} \in G
  <2>1. Im({}) = {}
    OBVIOUS
  <2> QED BY <2>1, SumEmpty, FS_EmptySet
<1>2. ASSUME NEW T \in SUBSET S, NEW x \in S \ T, T \in G
      PROVE  T \cup {x} \in G
  <2>1. IsFiniteSet(T) /\ IsFiniteSet(Im(T))
    BY <1>2, FS_Subset
  <2>2. Im(T \cup {x}) = Im(T) \cup {b[x]} /\ b[x] \notin Im(T)
    OBVIOUS
  <2>3. SumFunctionOnSet(f, T \cup {x}) = f[x] + SumFunctionOnSet(f, T)
    BY <2>1, SumAdd
  <2>4. g[b[x]] = f[x] /\ f[x] \in Int /\ \A y \in Im(T) : g[y] \in Int
    OBVIOUS
  <2>5. IsFiniteSet(Im(T) \cup {b[x]})
        /\ SumFunctionOnSet(g, Im(T) \cup {b[x]}) = g[b[x]] + SumFunctionOnSet(g, Im(T))
    <3> HIDE DEF Im
    <3> QED BY <2>1, <2>2, <2>4, SumAdd, FS_AddElement
  <2>6. SumFunctionOnSet(g, Im(T)) = SumFunctionOnSet(f, T)
    BY <1>2
  <2>7. SumFunctionOnSet(g, Im(T \cup {x})) = SumFunctionOnSet(f, T \cup {x})
        /\ IsFiniteSet(Im(T \cup {x}))
    <3> HIDE DEF Im
    <3> QED BY <2>2, <2>3, <2>4, <2>5, <2>6
  <2> QED BY <2>7
<1>3. S \in G
  <2> HIDE DEF G
  <2> QED BY <1>1, <1>2, OneByOne
<1> QED BY <1>3

-----------------------------------------------------------------------------
(* Line items: what InvoiceLines yields                                    *)

\* A set of numbers that is not empty has a least one.
LEMMA LeastNumber ==
  ASSUME NEW T \in SUBSET Nat, T # {} PROVE \E n \in T : \A m \in T : n <= m
<1>1. IsWellFoundedOn(OpToRel(<, Nat), Nat)
  BY NatLessThanWellFounded
<1>2. PICK n \in T : \A m \in T : ~(<<m, n>> \in OpToRel(<, Nat))
  BY <1>1, WFMin
<1>3. \A m \in T : ~(m < n)
  BY <1>2 DEF OpToRel
<1> QED BY <1>3

\* InOrder lists the members of is, each once.
LEMMA InOrderLists ==
  ASSUME NEW is \in SUBSET Nat, IsFiniteSet(is)
  PROVE  /\ DOMAIN InOrder(is) = 1 .. Cardinality(is)
         /\ \A n \in DOMAIN InOrder(is) : InOrder(is)[n] \in is
         /\ \A i \in is : \E n \in DOMAIN InOrder(is) : InOrder(is)[n] = i
         /\ \A m, n \in DOMAIN InOrder(is) : InOrder(is)[m] = InOrder(is)[n] => m = n
<1> DEFINE Below(i) == {j \in is : j < i}
           c == Cardinality(is)
           r == [i \in is |-> Cardinality(Below(i)) + 1]
<1>1. c \in Nat
  BY FS_CardinalityType
<1>2. ASSUME NEW i \in is
      PROVE  IsFiniteSet(Below(i)) /\ Cardinality(Below(i)) \in Nat /\ Cardinality(Below(i)) < c
  <2>1. Below(i) \in SUBSET is /\ i \notin Below(i)
    OBVIOUS
  <2>2. Below(i) # is
    BY <2>1
  <2> HIDE DEF Below
  <2> QED BY <1>1, <2>1, <2>2, FS_Subset, FS_CardinalityType
<1>3. ASSUME NEW i \in is, NEW j \in is, i < j
      PROVE  Cardinality(Below(i)) < Cardinality(Below(j))
  <2>1. Below(i) \in SUBSET Below(j) /\ i \in Below(j) /\ i \notin Below(i)
    <3>1. \A k \in is : k < i => k < j
      BY <1>3
    <3>2. ~(i < i)
      OBVIOUS
    <3>3. Below(i) \in SUBSET Below(j)
      BY <3>1
    <3> QED BY <1>3, <3>2, <3>3
  <2>2. Below(i) # Below(j)
    BY <2>1
  <2> HIDE DEF Below
  <2> QED BY <1>2, <2>1, <2>2, FS_Subset
<1>4. r \in [is -> 1 .. c]
  <2> HIDE DEF Below, c
  <2> QED BY <1>1, <1>2
<1>5. \A i, j \in is : r[i] = r[j] => i = j
  <2>1. SUFFICES ASSUME NEW i \in is, NEW j \in is, i # j PROVE r[i] # r[j]
    OBVIOUS
  <2>2. i < j \/ j < i
    BY <2>1
  <2> HIDE DEF Below
  <2> QED BY <1>2, <1>3, <2>2
<1>6. IsFiniteSet(1 .. c) /\ Cardinality(1 .. c) = c
  BY <1>1, FS_Interval
<1>7. r \in Surjection(is, 1 .. c)
  <2> HIDE DEF r
  <2>1. r \in Injection(is, 1 .. c)
    BY <1>4, <1>5 DEF Injection, IsInjective
  <2> QED BY <1>6, <2>1, FS_Injection
<1>8. ASSUME NEW n \in 1 .. c
      PROVE  InOrder(is)[n] \in is /\ r[InOrder(is)[n]] = n
  <2>1. PICK i \in is : r[i] = n
    BY <1>7 DEF Surjection
  <2>2. Cardinality(Below(i)) = n - 1
    <3> HIDE DEF Below
    <3> QED BY <1>2, <2>1
  <2>3. InOrder(is)[n] = CHOOSE k \in is : Cardinality(Below(k)) = n - 1
    BY DEF InOrder, Before
  <2>4. InOrder(is)[n] \in is /\ Cardinality(Below(InOrder(is)[n])) = n - 1
    <3> HIDE DEF Below
    <3> QED BY <2>2, <2>3
  <2> HIDE DEF Below
  <2> QED BY <1>2, <2>4
<1>9. DOMAIN InOrder(is) = 1 .. c
  BY DEF InOrder
<1>10. ASSUME NEW i \in is PROVE r[i] \in 1 .. c /\ InOrder(is)[r[i]] = i
  <2> HIDE DEF r
  <2> QED BY <1>4, <1>5, <1>8
<1> HIDE DEF r, c
<1> QED BY <1>8, <1>9, <1>10 DEF c

\* The places of a list, and what stands there.
LEMMA PlacesOf ==
  ASSUME NEW ls, IsLines(ls)
  PROVE  /\ DOMAIN ls \in SUBSET Nat /\ IsFiniteSet(DOMAIN ls)
         /\ \A i \in DOMAIN ls : \A j \in 1 .. i : j \in DOMAIN ls
         /\ \A i \in DOMAIN ls : ls[i].halves \in Int /\ ls[i].amount \in Int
<1>1. Len(ls) \in Nat /\ DOMAIN ls = 1 .. Len(ls)
  BY DEF IsLines
<1>2. \A i \in DOMAIN ls : ls[i].halves \in Int /\ ls[i].amount \in Int
  BY DEF IsLines, Range
<1>3. IsFiniteSet(1 .. Len(ls))
  BY <1>1, FS_Interval
<1>4. \A i \in 1 .. Len(ls) : \A j \in 1 .. i : j \in 1 .. Len(ls)
  BY <1>1
<1> QED BY <1>1, <1>2, <1>3, <1>4

\* Every SKU of a list has its first line.
LEMMA FirstOf ==
  ASSUME NEW ls, IsLines(ls), NEW i \in DOMAIN ls
  PROVE  \E f \in Firsts(ls) : ls[f].sku = ls[i].sku
<1> DEFINE T == {j \in DOMAIN ls : ls[j].sku = ls[i].sku}
<1>1. T \in SUBSET Nat /\ T # {}
  BY PlacesOf
<1>2. PICK f \in T : \A j \in T : f <= j
  <2> HIDE DEF T
  <2> QED BY <1>1, LeastNumber
<1>3. ASSUME NEW j \in 1 .. f - 1 PROVE ls[j].sku # ls[f].sku
  <2>1. f \in Nat /\ j \in DOMAIN ls /\ ~(f <= j)
    BY <1>1, PlacesOf
  <2> QED BY <1>2, <2>1
<1> QED BY <1>2, <1>3 DEF Firsts

\* And only one.
LEMMA FirstsDiffer ==
  ASSUME NEW ls, IsLines(ls), NEW i \in Firsts(ls), NEW j \in Firsts(ls),
         ls[i].sku = ls[j].sku
  PROVE  i = j
<1>1. i \in Nat /\ j \in Nat /\ i >= 1 /\ j >= 1
  <2>1. Len(ls) \in Nat /\ DOMAIN ls = 1 .. Len(ls)
    BY DEF IsLines
  <2> QED BY <2>1 DEF Firsts
<1>2. ~(i < j) /\ ~(j < i)
  BY <1>1 DEF Firsts
<1> QED BY <1>1, <1>2

\* What a deal's invoice is sent: one line for each kept first line.
LEMMA InvoiceLinesAre ==
  ASSUME NEW ls, IsLines(ls), NEW found
  PROVE  LET il == InvoiceLines(ls, found) K == Kept(ls, found) IN
         /\ DOMAIN il = 1 .. Cardinality(K)
         /\ \A n \in DOMAIN il : \E i \in K : il[n] = InvoiceLine(Row(ls, i))
         /\ \A i \in K : \E n \in DOMAIN il : il[n] = InvoiceLine(Row(ls, i))
         /\ \A m, n \in DOMAIN il : il[m].sku = il[n].sku => m = n
<1> DEFINE K == Kept(ls, found)
           o == InOrder(K)
           il == InvoiceLines(ls, found)
<1>1. K \in SUBSET Firsts(ls) /\ Firsts(ls) \in SUBSET DOMAIN ls
  BY DEF Kept, Asked, Firsts
<1>2. K \in SUBSET Nat /\ IsFiniteSet(K)
  BY <1>1, PlacesOf, FS_Subset
<1>3. /\ DOMAIN o = 1 .. Cardinality(K)
      /\ \A n \in DOMAIN o : o[n] \in K
      /\ \A i \in K : \E n \in DOMAIN o : o[n] = i
      /\ \A m, n \in DOMAIN o : o[m] = o[n] => m = n
  <2> HIDE DEF K
  <2> QED BY <1>2, InOrderLists
<1>4. DOMAIN il = DOMAIN o /\ \A n \in DOMAIN o : il[n] = InvoiceLine(Row(ls, o[n]))
  <2> HIDE DEF K
  <2>1. \A n \in DOMAIN o : o[n] \in Firsts(ls)
    BY <1>1, <1>3
  <2> QED BY <2>1 DEF InvoiceLines, K
<1>5. ASSUME NEW m \in DOMAIN il, NEW n \in DOMAIN il, il[m].sku = il[n].sku
      PROVE  m = n
  <2>1. \A i : InvoiceLine(Row(ls, i)).sku = ls[i].sku
    BY DEF InvoiceLine, Row, Group
  <2>2. ls[o[m]].sku = ls[o[n]].sku
    <3> HIDE DEF il, o
    <3> QED BY <1>4, <1>5, <2>1
  <2> HIDE DEF il, o, K
  <2> QED BY <1>1, <1>3, <1>4, <2>2, FirstsDiffer
<1> HIDE DEF il, o, K
<1>6. /\ DOMAIN il = 1 .. Cardinality(K)
      /\ \A n \in DOMAIN il : \E i \in K : il[n] = InvoiceLine(Row(ls, i))
      /\ \A i \in K : \E n \in DOMAIN il : il[n] = InvoiceLine(Row(ls, i))
      /\ \A m, n \in DOMAIN il : il[m].sku = il[n].sku => m = n
  BY <1>3, <1>4, <1>5
<1> QED BY <1>6 DEF il, K

\* Without a line that is kept there is nothing to send.
LEMMA NothingFound ==
  ASSUME NEW ls, IsLines(ls), NEW found, Kept(ls, found) = {}
  PROVE  InvoiceLines(ls, found) = <<>>
<1>1. DOMAIN InvoiceLines(ls, found) = 1 .. 0
  BY InvoiceLinesAre, FS_EmptySet
<1>2. InvoiceLines(ls, found) =
        [n \in DOMAIN InvoiceLines(ls, found) |-> InvoiceLines(ls, found)[n]]
  BY DEF InvoiceLines
<1> QED BY <1>1, <1>2

\* That is so when all SKUs are asked for in one query, and it is limited.
LEMMA OneQueryLost ==
  ASSUME NEW ls, IsLines(ls), Cardinality(Asked(ls)) <= QueryLimit, NEW found,
         NEW lost \in (SUBSET Queries(ls)) \ {{}}
  PROVE  InvoiceLines(ls, found \ UNION lost) = <<>>
<1> DEFINE A == Asked(ls)
<1>1. A \in SUBSET Nat /\ IsFiniteSet(A)
  <2>1. A \in SUBSET DOMAIN ls
    BY DEF Asked, Firsts
  <2> HIDE DEF A
  <2> QED BY <2>1, PlacesOf, FS_Subset
<1>2. ASSUME NEW i \in A PROVE QueryOf(ls, i) = 0
  <2> DEFINE B == {j \in A : j < i}
  <2>1. B \in SUBSET A /\ B # A
    BY <1>1
  <2> HIDE DEF B
  <2>2. Cardinality(B) \in Nat /\ Cardinality(A) \in Nat
        /\ Cardinality(B) < Cardinality(A)
    BY <1>1, <2>1, FS_Subset, FS_CardinalityType
  <2>3. QueryLimit \in Nat \ {0}
    BY LimitAssumption
  <2>4. Cardinality(B) \in 0 .. QueryLimit - 1
    BY <2>2, <2>3
  <2>5. \A c, q \in Nat : q > 0 /\ c < q => c \div q = 0
    OBVIOUS
  <2>6. Cardinality(B) \div QueryLimit = 0
    BY <2>3, <2>4, <2>5
  <2> QED BY <2>6 DEF QueryOf, Before, B
<1>3. PICK q \in lost : q \in Queries(ls)
  OBVIOUS
<1>4. q = {ls[j].sku : j \in A}
  <2>1. PICK i \in A :
          q = {ls[j].sku : j \in {k \in A : QueryOf(ls, k) = QueryOf(ls, i)}}
    BY <1>3 DEF Queries
  <2> HIDE DEF A
  <2>2. {k \in A : QueryOf(ls, k) = QueryOf(ls, i)} = A
    BY <1>2
  <2> QED BY <2>1, <2>2
<1>5. Kept(ls, found \ UNION lost) = {}
  BY <1>4 DEF Kept
<1> QED BY <1>5, NothingFound

-----------------------------------------------------------------------------
\* The lines of a SKU, and their sums.
LEMMA RowsOf ==
  ASSUME NEW ls, IsLines(ls), NEW sku
  PROVE  /\ Rows(ls, sku) \in SUBSET DOMAIN ls /\ IsFiniteSet(Rows(ls, sku))
         /\ Halves(ls, Rows(ls, sku)) \in Int /\ AmountOf(ls, Rows(ls, sku)) \in Int
<1> DEFINE is == Rows(ls, sku)
<1>1. is \in SUBSET DOMAIN ls
  BY DEF Rows
<1> HIDE DEF is
<1>2. IsFiniteSet(is)
  BY <1>1, PlacesOf, FS_Subset
<1>3. \A i \in is : ls[i].halves \in Int /\ ls[i].amount \in Int
  BY <1>1, PlacesOf
<1>4. Halves(ls, is) \in Int
  <2> DEFINE f == [i \in is |-> ls[i].halves]
  <2>1. \A i \in is : f[i] \in Int
    BY <1>3
  <2> HIDE DEF f
  <2>2. SumFunctionOnSet(f, is) \in Int
    BY <1>2, <2>1, SumInt
  <2> QED BY <2>2 DEF Halves, f
<1>5. AmountOf(ls, is) \in Int
  <2> DEFINE f == [i \in is |-> ls[i].amount]
  <2>1. \A i \in is : f[i] \in Int
    BY <1>3
  <2> HIDE DEF f
  <2>2. SumFunctionOnSet(f, is) \in Int
    BY <1>2, <2>1, SumInt
  <2> QED BY <2>2 DEF AmountOf, f
<1> QED BY <1>1, <1>2, <1>4, <1>5 DEF is

\* A SKU with a price that may be billed has its line, with the sums of all
\* its lines.
LEMMA PaidRowKept ==
  ASSUME NEW ls, IsLines(ls), NEW found, NEW sku \in Billable \cap found,
         AmountOf(ls, Rows(ls, sku)) > 0
  PROVE  \E i \in Kept(ls, found) : ls[i].sku = sku
<1>1. Rows(ls, sku) # {}
  <2>1. SUFFICES ASSUME Rows(ls, sku) = {} PROVE AmountOf(ls, {}) = 0
    OBVIOUS
  <2> QED BY SumEmpty DEF AmountOf
<1>2. PICK i \in Firsts(ls) : ls[i].sku = sku
  <2>1. PICK j \in DOMAIN ls : ls[j].sku = sku
    BY <1>1 DEF Rows
  <2> QED BY <2>1, FirstOf
<1>3. Row(ls, i).amount = AmountOf(ls, Rows(ls, sku)) /\ Row(ls, i).sku = sku
  BY <1>2 DEF Row, Group
<1>4. Eligible(Row(ls, i))
  <2>1. Row(ls, i).amount \in Int
    BY <1>3, RowsOf
  <2> QED BY <1>3, <2>1 DEF Eligible
<1> QED BY <1>2, <1>4 DEF Kept, Asked

\* Consolidation and filter neither lose a charge nor add or change one.
LEMMA ChargesKept ==
  ASSUME NEW ls, IsLines(ls), NEW found
  PROVE  LET il == InvoiceLines(ls, found) IN
         /\ \A sku \in Billable \cap found :
              AmountOf(ls, Rows(ls, sku)) > 0 =>
                AmountOf(il, Rows(il, sku)) = AmountOf(ls, Rows(ls, sku))
         /\ \A n \in DOMAIN il : /\ il[n].sku \in Billable \cap found
                                /\ il[n].amount = AmountOf(ls, Rows(ls, il[n].sku))
<1> DEFINE il == InvoiceLines(ls, found)
<1>1. \A i : /\ InvoiceLine(Row(ls, i)).sku = ls[i].sku
             /\ InvoiceLine(Row(ls, i)).amount = AmountOf(ls, Rows(ls, ls[i].sku))
  BY DEF InvoiceLine, Row, Group
<1>2. /\ \A n \in DOMAIN il : \E i \in Kept(ls, found) : il[n] = InvoiceLine(Row(ls, i))
      /\ \A i \in Kept(ls, found) : \E n \in DOMAIN il : il[n] = InvoiceLine(Row(ls, i))
      /\ \A m, n \in DOMAIN il : il[m].sku = il[n].sku => m = n
  BY InvoiceLinesAre
<1> HIDE DEF il
<1>3. ASSUME NEW sku \in Billable \cap found, AmountOf(ls, Rows(ls, sku)) > 0
      PROVE  AmountOf(il, Rows(il, sku)) = AmountOf(ls, Rows(ls, sku))
  <2>1. PICK i \in Kept(ls, found) : ls[i].sku = sku
    BY <1>3, PaidRowKept
  <2>2. PICK n \in DOMAIN il : il[n] = InvoiceLine(Row(ls, i))
    BY <1>2
  <2>3. il[n].sku = sku /\ il[n].amount = AmountOf(ls, Rows(ls, sku))
    BY <1>1, <2>1, <2>2
  <2>4. Rows(il, sku) = {n}
    BY <1>2, <2>3 DEF Rows
  <2> DEFINE f == [m \in {n} |-> il[m].amount]
  <2>5. f[n] = il[n].amount /\ f[n] \in Int
    BY <2>3, RowsOf
  <2> HIDE DEF f
  <2>6. SumFunctionOnSet(f, {n}) = f[n]
    BY <2>5, SumSingle
  <2>7. AmountOf(il, {n}) = SumFunctionOnSet(f, {n})
    BY DEF AmountOf, f
  <2> QED BY <2>3, <2>4, <2>5, <2>6, <2>7
<1>4. ASSUME NEW n \in DOMAIN il
      PROVE  /\ il[n].sku \in Billable \cap found
             /\ il[n].amount = AmountOf(ls, Rows(ls, il[n].sku))
  <2>1. PICK i \in Kept(ls, found) : il[n] = InvoiceLine(Row(ls, i))
    BY <1>2
  <2>2. Row(ls, i).sku = ls[i].sku
    BY DEF Row, Group
  <2> QED BY <1>1, <2>1, <2>2 DEF Kept, Asked, Eligible
<1> QED BY <1>3, <1>4 DEF il

\* The lines with a price, by SKU.
LEMMA PaidLinesBySku ==
  ASSUME NEW ls, IsLines(ls), NEW found
  PROVE  {l \in Range(InvoiceLines(ls, found)) : l.amount > 0} =
         {InvoiceLine(Group(ls, sku)) :
            sku \in {s \in Billable \cap found : AmountOf(ls, Rows(ls, s)) > 0}}
<1> DEFINE il == InvoiceLines(ls, found)
           paid == {s \in Billable \cap found : AmountOf(ls, Rows(ls, s)) > 0}
<1>1. \A sku : InvoiceLine(Group(ls, sku)).amount = AmountOf(ls, Rows(ls, sku))
  BY DEF InvoiceLine, Group
<1>2. /\ \A n \in DOMAIN il : \E i \in Kept(ls, found) : il[n] = InvoiceLine(Row(ls, i))
      /\ \A i \in Kept(ls, found) : \E n \in DOMAIN il : il[n] = InvoiceLine(Row(ls, i))
  BY InvoiceLinesAre
<1> HIDE DEF il
<1>3. ASSUME NEW l \in Range(il), l.amount > 0
      PROVE  \E sku \in paid : l = InvoiceLine(Group(ls, sku))
  <2>1. PICK n \in DOMAIN il : l = il[n]
    BY DEF Range
  <2>2. PICK i \in Kept(ls, found) : il[n] = InvoiceLine(Row(ls, i))
    BY <1>2
  <2>3. l = InvoiceLine(Group(ls, ls[i].sku))
    BY <2>1, <2>2 DEF Row
  <2>4. ls[i].sku \in Billable \cap found
    <3>1. Row(ls, i).sku = ls[i].sku
      BY DEF Row, Group
    <3> QED BY <3>1 DEF Kept, Asked, Eligible
  <2> QED BY <1>1, <1>3, <2>3, <2>4
<1>4. ASSUME NEW sku \in paid
      PROVE  InvoiceLine(Group(ls, sku)) \in Range(il) /\ InvoiceLine(Group(ls, sku)).amount > 0
  <2>1. PICK i \in Kept(ls, found) : ls[i].sku = sku
    BY PaidRowKept
  <2>2. PICK n \in DOMAIN il : il[n] = InvoiceLine(Row(ls, i))
    BY <1>2
  <2>3. il[n] = InvoiceLine(Group(ls, sku))
    BY <2>1, <2>2 DEF Row
  <2> QED BY <1>1, <2>3 DEF Range
<1> HIDE DEF paid
<1>5. {l \in Range(il) : l.amount > 0} = {InvoiceLine(Group(ls, sku)) : sku \in paid}
  BY <1>3, <1>4
<1> QED BY <1>5 DEF il, paid

\* Listed in another order, a deal's lines have the same sums.
LEMMA SumsOrderFree ==
  ASSUME NEW ls, IsLines(ls), NEW f \in Bijection(DOMAIN ls, DOMAIN ls), NEW ms,
         ms = [n \in DOMAIN ls |-> ls[f[n]]], NEW sku
  PROVE  /\ AmountOf(ms, Rows(ms, sku)) = AmountOf(ls, Rows(ls, sku))
         /\ Halves(ms, Rows(ms, sku)) = Halves(ls, Rows(ls, sku))
<1> DEFINE D == DOMAIN ls
           S == Rows(ms, sku)
           T == Rows(ls, sku)
<1>1. /\ f \in [D -> D] /\ \A x, y \in D : f[x] = f[y] => x = y
      /\ \A t \in D : \E s \in D : f[s] = t
  BY DEF Bijection, Injection, Surjection, IsInjective
<1>2. S \in SUBSET D /\ \A x \in D : x \in S <=> f[x] \in T
  BY <1>1 DEF Rows
<1>3. T \in SUBSET D /\ T = {f[x] : x \in S}
  <2>1. T \in SUBSET D
    BY DEF Rows
  <2> HIDE DEF S, T, D
  <2> QED BY <1>1, <1>2, <2>1
<1>4. IsFiniteSet(S)
  <2> HIDE DEF S
  <2> QED BY <1>2, PlacesOf, FS_Subset
<1>5. \A x \in D : ms[x] = ls[f[x]] /\ ls[f[x]].amount \in Int /\ ls[f[x]].halves \in Int
  BY <1>1, PlacesOf
<1> HIDE DEF S, T, D
<1>6. AmountOf(ms, S) = AmountOf(ls, T)
  <2> DEFINE g == [i \in S |-> ms[i].amount]
             h == [i \in T |-> ls[i].amount]
  <2>1. \A x \in S : h[f[x]] = g[x] /\ g[x] \in Int
    BY <1>2, <1>5
  <2> HIDE DEF g, h
  <2>2. SumFunctionOnSet(h, T) = SumFunctionOnSet(g, S)
    BY <1>1, <1>2, <1>3, <1>4, <2>1, SumRenamed
  <2> QED BY <2>2 DEF AmountOf, g, h
<1>7. Halves(ms, S) = Halves(ls, T)
  <2> DEFINE g == [i \in S |-> ms[i].halves]
             h == [i \in T |-> ls[i].halves]
  <2>1. \A x \in S : h[f[x]] = g[x] /\ g[x] \in Int
    BY <1>2, <1>5
  <2> HIDE DEF g, h
  <2>2. SumFunctionOnSet(h, T) = SumFunctionOnSet(g, S)
    BY <1>1, <1>2, <1>3, <1>4, <2>1, SumRenamed
  <2> QED BY <2>2 DEF Halves, g, h
<1> QED BY <1>6, <1>7 DEF S, T

\* And the same lines with a price.
LEMMA PaidOrderFree ==
  ASSUME NEW ls, IsLines(ls), NEW f \in Bijection(DOMAIN ls, DOMAIN ls), NEW ms,
         ms = [n \in DOMAIN ls |-> ls[f[n]]], NEW found
  PROVE  {l \in Range(InvoiceLines(ms, found)) : l.amount > 0} =
         {l \in Range(InvoiceLines(ls, found)) : l.amount > 0}
<1>1. IsLines(ms)
  <2>1. f \in [DOMAIN ls -> DOMAIN ls]
    BY DEF Bijection, Injection
  <2>2. Len(ls) \in Nat /\ DOMAIN ls = 1 .. Len(ls)
    BY DEF IsLines
  <2>3. \A n \in DOMAIN ls : ms[n] \in Range(ms) /\ ms[n] \in Range(ls)
    BY <2>1 DEF Range
  <2>4. ms \in [1 .. Len(ls) -> Range(ms)]
    BY <2>2, <2>3
  <2>5. ms \in Seq(Range(ms))
    <3> DEFINE R == Range(ms)
    <3> HIDE DEF R
    <3>1. ms \in [1 .. Len(ls) -> R]
      BY <2>4 DEF R
    <3>2. ms \in Seq(R)
      BY <2>2, <3>1
    <3> QED BY <3>2 DEF R
  <2>6. Range(ms) \subseteq Range(ls)
    BY <2>3 DEF Range
  <2> QED BY <2>5, <2>6 DEF IsLines
<1>2. \A sku : /\ AmountOf(ms, Rows(ms, sku)) = AmountOf(ls, Rows(ls, sku))
               /\ Halves(ms, Rows(ms, sku)) = Halves(ls, Rows(ls, sku))
  BY SumsOrderFree
<1>3. \A sku : InvoiceLine(Group(ms, sku)) = InvoiceLine(Group(ls, sku))
  BY <1>2 DEF InvoiceLine, Group
<1>4. {s \in Billable \cap found : AmountOf(ms, Rows(ms, s)) > 0} =
      {s \in Billable \cap found : AmountOf(ls, Rows(ls, s)) > 0}
  BY <1>2
<1> DEFINE P == {s \in Billable \cap found : AmountOf(ls, Rows(ls, s)) > 0}
<1>5. {InvoiceLine(Group(ms, sku)) : sku \in P} = {InvoiceLine(Group(ls, sku)) : sku \in P}
  <2> HIDE DEF P
  <2> QED BY <1>3
<1> QED BY <1>1, <1>4, <1>5, PaidLinesBySku

-----------------------------------------------------------------------------
(* What an invoice holds                                                   *)

\* Nothing to bill, and a call that failed, stay so.
BareStays == \A d \in Deal : (Bare(d) => Bare(d)') /\ (Whole(d)' => Whole(d))

LEMMA DealBilledStays ==
  ASSUME NEW d \in Deal, DealBilled(d), UNCHANGED world, BareStays, wk'[d] = wk[d],
         inv'[d] = inv[d], status'[d] = status[d]
  PROVE  DealBilled(d)'
BY DEF DealBilled, Sent, Parts, Billed, BareStays

\* A step of one worker keeps BilledInv if it keeps the part of its own deal.
LEMMA WorkerBills ==
  ASSUME BilledInv, BareStays, NEW k \in Key, Others(k), UNCHANGED world,
         \A d \in Deal \ {k} : inv'[d] = inv[d] /\ status'[d] = status[d],
         k \in Deal => DealBilled(k)'
  PROVE  BilledInv'
<1>1. ASSUME NEW d \in Deal, d # k PROVE DealBilled(d)'
  <2>1. wk'[d] = wk[d] /\ inv'[d] = inv[d] /\ status'[d] = status[d]
    BY <1>1, KeyOf DEF Others
  <2>2. DealBilled(d)
    BY DEF BilledInv
  <2> QED BY <2>1, <2>2, DealBilledStays
<1>2. \A d \in Deal : DealBilled(d)'
  BY <1>1
<1> QED BY <1>2 DEF BilledInv

\* The steps that write neither invoice nor status.
LEMMA JobBills ==
  ASSUME TypeOK, BilledInv, BareStays, NEW k \in Key, NEW job, Set(k, job),
         UNCHANGED <<world, inv, status>>,
         k \in Deal => /\ job.pc = "upsert" => \E lines : job.lines = lines /\ Sent(k, lines)'
                       /\ job.pc = "relocate" => inv[k] # None /\ Bare(k)'
                       /\ ~(job.pc = "stamp" /\ job.say \in Synced)
  PROVE  BilledInv'
<1>1. wk'[k] = job /\ Others(k)
  BY SetSets DEF TypeOK
<1>2. k \in Deal => DealBilled(k)'
  BY <1>1 DEF BilledInv, DealBilled, Sent, Parts, Billed, BareStays, Synced
<1> QED BY <1>1, <1>2, WorkerBills

LEMMA WithBills ==
  ASSUME TypeOK, BilledInv, BareStays, NEW k \in Key, NEW pc, NEW l, With(k, pc, l),
         UNCHANGED <<world, inv, status>>, pc \notin {"upsert", "stamp"},
         k \in Deal => pc # "relocate" \/ (inv[k] # None /\ Bare(k)')
  PROVE  BilledInv'
<1> DEFINE job == Job(pc, wk[k].venue, l, wk[k].lines, wk[k].say)
<1>1. job.pc = pc /\ Set(k, job)
  BY DEF Job, With
<1> HIDE DEF job
<1> QED BY <1>1, JobBills

LEMMA SayBills ==
  ASSUME TypeOK, BilledInv, BareStays, NEW d \in Deal, NEW what, what \notin Synced, Say(d, what),
         UNCHANGED <<world, inv, status>>
  PROVE  BilledInv'
<1> DEFINE job == Job("stamp", wk[d].venue, wk[d].at, wk[d].lines, what)
<1>1. job.pc = "stamp" /\ job.say = what /\ Set(d, job) /\ d \in Key
  BY KeyOf DEF Job, Say
<1> HIDE DEF job
<1> QED BY <1>1, JobBills

LEMMA IdleBills ==
  ASSUME TypeOK, BilledInv, BareStays, NEW k \in Key, NEW pc \in {"queued", "acked"},
         Set(k, Idle(pc)), UNCHANGED <<world, inv, status>>
  PROVE  BilledInv'
<1> DEFINE job == Idle(pc)
<1>1. job.pc = pc /\ Set(k, job)
  BY DEF Idle, Job
<1> HIDE DEF job
<1> QED BY <1>1, JobBills

LEMMA RaiseBills ==
  ASSUME TypeOK, BilledInv, BareStays, NEW k \in Key, Raise(k), UNCHANGED <<world, inv, status>>
  PROVE  BilledInv'
BY IdleBills DEF Raise

LEMMA StartBills ==
  ASSUME TypeOK, BilledInv, BareStays, NEW d \in Deal, Start(d) PROVE BilledInv'
<1>1. UNCHANGED <<world, inv, status>> /\ d \in Key
  BY KeyOf DEF Start, netsuite, hubspot
<1>2. ASSUME NEW n \in Failed(d), Say(d, EarlyChecks[n]) PROVE BilledInv'
  <2>1. EarlyChecks[n] \notin Synced
    BY DEF Failed, EarlyChecks, Synced
  <2> QED BY <1>1, <1>2, <2>1, SayBills
<1>3. ASSUME NEW v, Set(d, Job("byName", v, None, <<>>, None)) PROVE BilledInv'
  <2> DEFINE job == Job("byName", v, None, <<>>, None)
  <2>1. job.pc = "byName" /\ Set(d, job)
    BY <1>3 DEF Job
  <2> HIDE DEF job
  <2> QED BY <1>1, <2>1, JobBills
<1> QED BY <1>2, <1>3 DEF Start

LEMMA SearchBills ==
  ASSUME TypeOK, BilledInv, BareStays, NEW d \in Deal, FindByName(d) \/ FindByExt(d)
  PROVE  BilledInv'
<1>1. UNCHANGED <<world, inv, status>> /\ d \in Key
  BY KeyOf DEF FindByName, FindByExt, netsuite, hubspot
<1>2. ASSUME NEW pc \in {"create", "claim", "map"}, NEW l, With(d, pc, l)
      PROVE  BilledInv'
  BY <1>1, <1>2, WithBills
<1>3. ASSUME NEW l, CASE seen[l].ext = None        -> With(d, "claim", l)
                      [] seen[l].ext = wk[d].venue -> With(d, "map", l)
                      [] OTHER                     -> Raise(d)
      PROVE  BilledInv'
  <2>1. CASE seen[l].ext = None /\ seen[l].ext # wk[d].venue
    BY <1>2, <1>3, <2>1
  <2>2. CASE seen[l].ext # None /\ seen[l].ext = wk[d].venue
    BY <1>2, <1>3, <2>2
  <2>3. CASE seen[l].ext = None /\ seen[l].ext = wk[d].venue
    <3>1. With(d, "claim", l) \/ With(d, "map", l)
      BY <1>3, <2>3
    <3> QED BY <1>2, <3>1
  <2>4. CASE seen[l].ext # None /\ seen[l].ext # wk[d].venue
    BY <1>1, <1>3, <2>4, RaiseBills
  <2> QED BY <2>1, <2>2, <2>3, <2>4
<1>4. CASE FindByName(d)
  BY <1>2, <1>3, <1>4 DEF FindByName, Goto
<1>5. CASE FindByExt(d)
  BY <1>1, <1>2, <1>5, RaiseBills DEF FindByExt
<1> QED BY <1>4, <1>5

LEMMA LocateBills ==
  ASSUME TypeOK, BilledInv, BareStays, NEW d \in Deal, Create(d) \/ Claim(d)
  PROVE  BilledInv'
<1>1. UNCHANGED <<world, inv, status>> /\ d \in Key
  BY KeyOf DEF Create, Claim, hubspot
<1>2. ASSUME NEW l, With(d, "byExt", l) PROVE BilledInv'
  BY <1>1, <1>2, WithBills
<1>3. CASE Raise(d)
  BY <1>1, <1>3, RaiseBills
<1>4. CASE Create(d)
  BY <1>2, <1>3, <1>4 DEF Create, PostNew, PostRefused, Goto
<1>5. CASE Claim(d)
  BY <1>2, <1>3, <1>5 DEF Claim, Goto
<1> QED BY <1>4, <1>5

LEMMA MappedBills ==
  ASSUME TypeOK, BilledInv, BareStays, NEW d \in Deal, NEW lines, Mapped(d, lines),
         lines = <<>> => Bare(d)', lines # <<>> => Sent(d, lines)',
         UNCHANGED <<world, inv, status>>
  PROVE  BilledInv'
<1>1. d \in Key
  BY KeyOf
<1>2. CASE lines = <<>> /\ inv[d] = None
  <2>1. Say(d, "noLines")
    BY <1>2 DEF Mapped
  <2> QED BY <2>1, SayBills DEF Synced
<1>3. CASE lines = <<>> /\ inv[d] # None
  <2>1. Goto(d, "relocate")
    BY <1>3 DEF Mapped
  <2> QED BY <1>1, <1>3, <2>1, WithBills DEF Goto
<1>4. CASE lines # <<>>
  <2> DEFINE job == Job("upsert", wk[d].venue, wk[d].at, lines, None)
  <2>1. Raise(d) \/ Say(d, "guests") \/ Set(d, job)
    BY <1>4 DEF Mapped
  <2>2. job.pc = "upsert" /\ job.lines = lines
    BY DEF Job
  <2> HIDE DEF job
  <2>3. CASE Set(d, job)
    <3>1. job.lines = lines /\ Sent(d, lines)'
      BY <1>4, <2>2
    <3> QED BY <1>1, <2>2, <2>3, <3>1, JobBills
  <2> QED BY <1>1, <2>1, <2>3, RaiseBills, SayBills DEF Synced
<1> QED BY <1>2, <1>3, <1>4

\* A limited query leaves nothing to send, unless there are more SKUs than it
\* asks for; so what goes into an upsert has all the lines.
LEMMA MapBills == ASSUME TypeOK, BilledInv, BareStays, NEW d \in Deal, Map(d) PROVE BilledInv'
<1> DEFINE ls == world.lines[d]
<1>1. UNCHANGED <<world, inv, status>> /\ IsLines(ls)
  BY DEF Map, netsuite, hubspot, TypeOK, DataOK, IsWorld
<1>2. CASE Mapped(d, InvoiceLines(ls, Catalogue))
  <2>1. Billed(d)' = InvoiceLines(ls, Catalogue)
    BY <1>1 DEF Billed
  <2>2. InvoiceLines(ls, Catalogue) \in Parts(d)'
    BY <1>1 DEF Parts
  <2>3. Billed(d)' = <<>> => Bare(d)'
    BY DEF Bare
  <2> HIDE DEF ls
  <2> QED BY <1>1, <1>2, <2>1, <2>2, <2>3, MappedBills DEF Sent
<1>3. ASSUME Limited, NEW lost \in (SUBSET Queries(ls)) \ {{}},
             Mapped(d, InvoiceLines(ls, Catalogue \ UNION lost))
      PROVE  BilledInv'
  <2> DEFINE lines == InvoiceLines(ls, Catalogue \ UNION lost)
  <2>1. faults' > 0
    BY <1>3 DEF TypeOK, DataOK, Limited, Fault
  <2>2. Bare(d)'
    BY <2>1 DEF Bare
  <2>3. lines \in Parts(d)'
    BY <1>1 DEF Parts
  <2>4. Whole(d)' => lines = <<>>
    <3>1. Whole(d)' => Cardinality(Asked(ls)) <= QueryLimit
      BY <1>1, <2>1 DEF Whole
    <3> HIDE DEF ls
    <3> QED BY <1>1, <1>3, <3>1, OneQueryLost
  <2> HIDE DEF lines
  <2>5. Mapped(d, lines)
    BY <1>3 DEF lines
  <2> QED BY <1>1, <2>2, <2>3, <2>4, <2>5, MappedBills DEF Sent
<1>4. CASE Say(d, "mapping")
  BY <1>1, <1>4, SayBills DEF Synced
<1> QED BY <1>2, <1>3, <1>4 DEF Map

\* The steps of a deal that write its invoice or its status.
LEMMA UpsertBills ==
  ASSUME TypeOK, BilledInv, BareStays, NEW d \in Deal, Upsert(d) PROVE BilledInv'
<1> DEFINE job == Job("stamp", wk[d].venue, wk[d].at, wk[d].lines, Success(d))
           new == [at |-> wk[d].at, lines |-> wk[d].lines]
<1>1. job.pc = "stamp" /\ Set(d, job)
  BY DEF Job, Upsert, Say
<1>2. Sent(d, new.lines) /\ DealBilled(d)
  BY DEF Upsert, BilledInv, DealBilled
<1>3. UNCHANGED <<world, status, faults>> /\ DOMAIN inv = Deal
      /\ inv' = [inv EXCEPT ![d] = new]
  BY DEF Upsert, hubspot, TypeOK, DataOK, Fine
<1> HIDE DEF job, new
<1>4. wk'[d] = job /\ Others(d) /\ d \in Key
  BY <1>1, SetSets, KeyOf DEF TypeOK
<1>5. inv'[d] = new /\ \A e \in Deal \ {d} : inv'[e] = inv[e]
  BY <1>3
<1>6. Billed(d)' = Billed(d) /\ Parts(d)' = Parts(d)
      /\ (Whole(d)' <=> Whole(d)) /\ (Bare(d)' <=> Bare(d))
  BY <1>3 DEF Billed, Parts, Whole, Bare
<1>7. ~Whole(d) => Bare(d)
  BY DEF Whole, Bare, TypeOK, DataOK
<1>8. DealBilled(d)'
  BY <1>1, <1>2, <1>4, <1>5, <1>6, <1>7 DEF DealBilled, Sent
<1> QED BY <1>3, <1>4, <1>5, <1>8, WorkerBills

LEMMA RelocateBills ==
  ASSUME TypeOK, BilledInv, BareStays, NEW d \in Deal, Relocate(d) PROVE BilledInv'
<1> DEFINE job == Job("stamp", wk[d].venue, wk[d].at, wk[d].lines, "modified")
           new == [at |-> wk[d].at, lines |-> inv[d].lines]
<1>1. job.pc = "stamp" /\ job.say = "modified" /\ Set(d, job)
  BY DEF Job, Relocate, Say
<1>2. new.lines = inv[d].lines /\ inv[d] # None /\ Bare(d)'
  BY DEF Relocate, BilledInv, DealBilled, BareStays
<1>3. UNCHANGED <<world, status>> /\ DOMAIN inv = Deal
      /\ (inv' = inv \/ inv' = [inv EXCEPT ![d] = new])
  BY DEF Relocate, hubspot, TypeOK, DataOK
<1> HIDE DEF job, new
<1>4. wk'[d] = job /\ Others(d) /\ d \in Key
  BY <1>1, SetSets, KeyOf DEF TypeOK
<1>5. inv'[d].lines = inv[d].lines /\ \A e \in Deal \ {d} : inv'[e] = inv[e]
  BY <1>2, <1>3
<1>6. DealBilled(d)
  BY DEF BilledInv
<1>7. DealBilled(d)'
  BY <1>1, <1>2, <1>3, <1>4, <1>5, <1>6 DEF DealBilled, Sent, Parts, Billed, BareStays
<1> QED BY <1>3, <1>4, <1>5, <1>7, WorkerBills

LEMMA StampBills ==
  ASSUME TypeOK, BilledInv, BareStays, NEW d \in Deal, Stamp(d) PROVE BilledInv'
<1> DEFINE job == Idle("acked")
<1>1. job.pc = "acked" /\ Set(d, job)
  BY DEF Idle, Job, Stamp
<1>2. UNCHANGED <<world, inv>> /\ status' = [status EXCEPT ![d] = wk[d].say]
  BY DEF Stamp, netsuite
<1>3. status'[d] = wk[d].say /\ \A e \in Deal \ {d} : status'[e] = status[e]
  BY <1>2 DEF TypeOK, DataOK
<1> HIDE DEF job
<1>4. wk'[d] = job /\ Others(d) /\ d \in Key
  BY <1>1, SetSets, KeyOf DEF TypeOK
<1>5. DealBilled(d) /\ wk[d].pc = "stamp"
  BY DEF BilledInv, Stamp
<1>6. DealBilled(d)'
  BY <1>1, <1>2, <1>3, <1>4, <1>5 DEF DealBilled, Sent, Parts, Billed, BareStays
<1> QED BY <1>2, <1>3, <1>4, <1>6, WorkerBills

LEMMA VenueStepBills ==
  ASSUME TypeOK, BilledInv, BareStays, NEW v \in Venue, VenueStep(v) PROVE BilledInv'
<1>1. UNCHANGED <<world, inv, status>> /\ v \in Key /\ v \notin Deal
  BY KeyOf DEF VenueStep, StartVenue, FindVenue, PatchVenue, PostVenue, ReadBack,
     WriteBackref, netsuite, hubspot
<1>2. ASSUME NEW pc \in {"venueByExt", "venuePatch", "venuePost", "readBack", "backref"},
             NEW l, With(v, pc, l)
      PROVE  BilledInv'
  BY <1>1, <1>2, WithBills
<1>3. CASE Raise(v) \/ Set(v, Idle("acked"))
  BY <1>1, <1>3, RaiseBills, IdleBills
<1>4. CASE StartVenue(v) \/ FindVenue(v)
  BY <1>2, <1>3, <1>4 DEF StartVenue, FindVenue, Goto
<1>5. CASE PatchVenue(v) \/ PostVenue(v)
  BY <1>2, <1>3, <1>5 DEF PatchVenue, PostVenue, PostNew, PostRefused, Goto
<1>6. CASE ReadBack(v) \/ WriteBackref(v)
  BY <1>2, <1>3, <1>6 DEF ReadBack, WriteBackref
<1> QED BY <1>4, <1>5, <1>6 DEF VenueStep

LEMMA BareLasts == ASSUME TypeOK, [Next]_vars PROVE BareStays
<1>1. UNCHANGED world
  BY DEF Next, vars, DealStep, Start, FindByName, Create, Claim, FindByExt, Map, Upsert,
     Relocate, Stamp, VenueStep, StartVenue, FindVenue, PatchVenue, PostVenue, ReadBack,
     WriteBackref, Dies, Index
<1>2. Fault \/ Fine
  BY DEF Next, vars, DealStep, Start, FindByName, Create, Claim, FindByExt, Map, Upsert,
     Relocate, Stamp, VenueStep, StartVenue, FindVenue, PatchVenue, PostVenue, ReadBack,
     WriteBackref, Dies, Index, Limited, Fine
<1>3. (faults > 0 => faults' > 0) /\ (faults' = 0 => faults = 0)
  BY <1>2, ReconcileAssumption DEF TypeOK, DataOK, Fault, Fine
<1> QED BY <1>1, <1>3 DEF BareStays, Bare, Whole, Billed

LEMMA NextBills == ASSUME TypeOK, BilledInv, [Next]_vars PROVE BilledInv'
<1> BareStays
  BY BareLasts
<1>1. CASE UNCHANGED vars
  BY <1>1, DealBilledStays DEF vars, netsuite, hubspot, BilledInv
<1>2. ASSUME NEW d \in Deal, DealStep(d) PROVE BilledInv'
  BY <1>2, StartBills, SearchBills, LocateBills, MapBills, UpsertBills, RelocateBills,
     StampBills DEF DealStep
<1>3. ASSUME NEW k \in Key, Dies(k) PROVE BilledInv'
  BY <1>3, RaiseBills DEF Dies, netsuite, hubspot
<1>4. ASSUME NEW l \in Loc, Index(l) PROVE BilledInv'
  BY <1>4, DealBilledStays DEF Index, hubspot, BilledInv
<1> QED BY <1>1, <1>2, <1>3, <1>4, VenueStepBills DEF Next

LEMMA BilledFirst == ASSUME Init PROVE BilledInv
<1>1. ASSUME NEW d \in Deal PROVE DealBilled(d)
  <2>1. wk[d].pc \in {"none", "queued"}
    BY KeyOf DEF Init, Idle, Job
  <2>2. status[d] = None /\ (inv[d] # None => inv[d].lines = <<Stale>>)
    BY DEF Init
  <2>3. None \notin Synced
    BY ReconcileAssumption
  <2> QED BY <2>1, <2>2, <2>3 DEF DealBilled, Synced
<1> QED BY <1>1 DEF Init, BilledInv

-----------------------------------------------------------------------------
(* New locations                                                           *)

\* NetSuite lets a location be written only when no other has the externalId.
LEMMA PutNew ==
  ASSUME TypeOK, NewInv, UNCHANGED world, NEW v \in Venue, NEW l \in Loc, Put(l, v),
         ~Refuses(v, world.name[v], l)
  PROVE  NewInv'
<1> DEFINE put == [name |-> world.name[v], ext |-> v]
<1>1. put.name = world.name[v] /\ put.ext = v /\ loc' = [loc EXCEPT ![l] = put]
  BY DEF Put
<1> HIDE DEF put
<1>2. loc'[l] = put /\ \A o \in Loc \ {l} : loc'[o] = loc[o]
  BY <1>1 DEF TypeOK, DataOK
<1>3. \A o \in Loc \ {l} : loc[o] # None => loc[o].ext # v
  BY DEF Refuses
<1>4. SUFFICES ASSUME NEW k \in Loc, world.locs[k] = None, loc'[k] # None
               PROVE  /\ loc'[k].ext \in Venue /\ loc'[k].name = world.name[loc'[k].ext]
                      /\ \A o \in Loc \ {k} : loc'[o] # None => loc'[o].ext # loc'[k].ext
  BY DEF NewInv
<1>5. CASE k = l
  BY <1>1, <1>2, <1>3, <1>5
<1>6. CASE k # l
  <2>1. loc'[k] = loc[k] /\ loc[k] # None
    BY <1>2, <1>4, <1>6
  <2>2. /\ loc[k].ext \in Venue /\ loc[k].name = world.name[loc[k].ext]
        /\ \A o \in Loc \ {k} : loc[o] # None => loc[o].ext # loc[k].ext
    BY <1>4, <2>1 DEF NewInv
  <2>3. loc[k].ext # v
    BY <1>3, <1>6, <2>1
  <2> QED BY <1>1, <1>2, <2>1, <2>2, <2>3
<1> QED BY <1>5, <1>6

LEMMA NextNew == ASSUME PlaceInv, NewInv, [Next]_vars PROVE NewInv'
<1>1. UNCHANGED world /\ TypeOK
  BY DEF Next, vars, DealStep, Start, FindByName, Create, Claim, FindByExt, Map, Upsert,
     Relocate, Stamp, VenueStep, StartVenue, FindVenue, PatchVenue, PostVenue, ReadBack,
     WriteBackref, Dies, Index, PlaceInv
<1>2. CASE UNCHANGED loc
  BY <1>1, <1>2 DEF NewInv
<1>3. ASSUME NEW d \in Deal, Create(d) PROVE NewInv'
  <2>1. wk[d].venue \in Venue
    BY <1>3, CandidateNamed DEF Create, PlaceInv, DealPlace
  <2> QED BY <1>1, <1>2, <1>3, <2>1, PutNew DEF Create, PostNew, PostRefused
<1>4. ASSUME NEW d \in Deal, Claim(d) PROVE NewInv'
  <2>1. /\ wk[d].venue \in Venue /\ wk[d].at \in Loc
        /\ world.name[wk[d].venue] = world.want
    BY <1>4 DEF Claim, PlaceInv, DealPlace, Candidates
  <2> QED BY <1>1, <1>2, <1>4, <2>1, PutNew DEF Claim
<1>5. ASSUME NEW v \in Venue, PatchVenue(v) PROVE NewInv'
  <2>1. wk[v].at \in Loc
    BY <1>5 DEF PatchVenue, PlaceInv, VenuePlace, Mine
  <2> QED BY <1>1, <1>2, <1>5, <2>1, PutNew DEF PatchVenue
<1>6. ASSUME NEW v \in Venue, PostVenue(v) PROVE NewInv'
  BY <1>1, <1>2, <1>6, PutNew DEF PostVenue, PostNew, PostRefused
<1>7. CASE UNCHANGED vars
  BY <1>2, <1>7 DEF vars, netsuite
<1>8. ASSUME NEW d \in Deal, DealStep(d) PROVE NewInv'
  BY <1>2, <1>3, <1>4, <1>8 DEF DealStep, Start, FindByName, FindByExt, Map, Upsert,
     Relocate, Stamp, netsuite
<1>9. ASSUME NEW v \in Venue, VenueStep(v) PROVE NewInv'
  BY <1>2, <1>5, <1>6, <1>9 DEF VenueStep, StartVenue, FindVenue, ReadBack,
     WriteBackref, netsuite
<1>10. ASSUME NEW k \in Key, Dies(k) PROVE NewInv'
  BY <1>2, <1>10 DEF Dies, netsuite
<1>11. ASSUME NEW l \in Loc, Index(l) PROVE NewInv'
  BY <1>2, <1>11 DEF Index
<1> QED BY <1>7, <1>8, <1>9, <1>10, <1>11 DEF Next

\* The new locations of a name have different externalIds, which are those of
\* the venues of the name.
LEMMA NewIsBounded == ASSUME TypeOK, NewInv PROVE CreatedOnce
<1>1. SUFFICES ASSUME NEW v \in Venue
               PROVE  Cardinality({l \in Loc : /\ world.locs[l] = None /\ loc[l] # None
                                               /\ loc[l].name = world.name[v]})
                        <= Cardinality({w \in Venue : world.name[w] = world.name[v]})
  BY DEF CreatedOnce
<1> DEFINE A == {l \in Loc : /\ world.locs[l] = None /\ loc[l] # None
                             /\ loc[l].name = world.name[v]}
           B == {w \in Venue : world.name[w] = world.name[v]}
           f == [l \in A |-> loc[l].ext]
<1>2. IsFiniteSet(B)
  BY ReconcileAssumption, FS_Subset
<1>3. f \in [A -> B]
  BY DEF NewInv
<1>4. \A k, l \in A : f[k] = f[l] => k = l
  BY DEF NewInv
<1> HIDE DEF A, B, f
<1>5. f \in Injection(A, B)
  BY <1>3, <1>4 DEF Injection, IsInjective
<1>6. Cardinality(A) <= Cardinality(B)
  BY <1>2, <1>5, FS_Injection
<1> QED BY <1>6 DEF A, B

-----------------------------------------------------------------------------
(* The theorems                                                            *)

LEMMA Beginning == ASSUME Init PROVE PlaceInv
<1>1. world \in Worlds /\ IsWorld(world) /\ loc = world.locs /\ seen = world.locs
  BY ReconcileAssumption DEF Init
<1>2. ASSUME NEW k \in Key
      PROVE  wk[k].pc \in {"none", "queued"}
  BY <1>2 DEF Init, Idle, Job
<1>3. \A d \in Deal : DealType(d) /\ DealPlace(d)
  BY <1>2, KeyOf DEF DealType, DealPlace
<1>4. \A v \in Venue : VenueType(v) /\ VenuePlace(v)
  BY <1>2, KeyOf DEF VenueType, VenuePlace
<1>5. \A d \in Deal : inv[d] # None => inv[d].at = None
  BY DEF Init
<1>6. DataOK
  <2>1. IsWorld(world) /\ loc \in [Loc -> Location \cup {None}] /\ seen = loc
    BY <1>1 DEF IsWorld
  <2>2. numbered \subseteq Deal
    BY <1>1 DEF Init, IsWorld
  <2>3. faults \in 0 .. MaxFaults
    BY ReconcileAssumption DEF Init
  <2>4. DOMAIN inv = Deal /\ status \in [Deal -> Rejection \cup Synced \cup {None}]
        /\ backref \in [Venue -> Loc \cup {None}]
    BY DEF Init
  <2> QED BY <1>5, <2>1, <2>2, <2>3, <2>4 DEF DataOK
<1>7. IndexInv
  BY <1>1 DEF IndexInv, Grew
<1>8. DOMAIN wk = Key /\ \A v \in Venue : backref[v] = None
  BY DEF Init
<1> QED BY <1>3, <1>4, <1>5, <1>6, <1>7, <1>8 DEF PlaceInv, TypeOK

LEMMA NextKeeps == ASSUME PlaceInv, [Next]_vars PROVE PlaceInv'
<1>1. ASSUME NEW k \in Key, Dies(k) PROVE PlaceInv'
  BY <1>1, RaiseQuiet DEF Dies
<1>2. CASE UNCHANGED vars
  BY <1>2 DEF vars, netsuite, hubspot, PlaceInv, TypeOK, DataOK, IndexInv, DealType,
     DealPlace, VenueType, VenuePlace, Grew, Candidates, Wanted, Mine
<1> QED BY <1>1, <1>2, DealStepKeeps, VenueStepKeeps, IndexKeeps DEF Next

\* A written location's externalId grows in every step, whoever takes it.
LEMMA StepGrows == ASSUME PlaceInv, [Next]_vars PROVE Grows
<1>1. CASE UNCHANGED loc
  BY <1>1 DEF Grows, Grew
<1>2. ASSUME NEW d \in Deal, NEW v \in Candidates, NEW l \in Loc, Put(l, v),
             loc[l] = None \/ loc[l].ext \in Candidates \cup {None}
      PROVE  Grows
  BY <1>2, CandidateNamed, PutGrows DEF Grew
<1>3. ASSUME NEW d \in Deal, Create(d) PROVE Grows
  <2>1. wk[d].venue \in Candidates
    BY <1>3 DEF Create, PlaceInv, DealPlace
  <2> QED BY <1>1, <1>2, <1>3, <2>1 DEF Create, PostNew, PostRefused
<1>4. ASSUME NEW d \in Deal, Claim(d) PROVE Grows
  <2>1. /\ wk[d].venue \in Candidates /\ wk[d].at \in Loc
        /\ loc[wk[d].at].ext \in Candidates \cup {None}
    BY <1>4 DEF Claim, PlaceInv, DealPlace
  <2> QED BY <1>1, <1>2, <1>4, <2>1 DEF Claim
<1>5. ASSUME NEW v \in Venue, PatchVenue(v) PROVE Grows
  <2>1. world.name[v] # NoName /\ Mine(v, wk[v].at)
    BY <1>5 DEF PatchVenue, PlaceInv, VenuePlace
  <2> QED BY <1>1, <1>5, <2>1, PutGrows DEF PatchVenue, Mine, Grew
<1>6. ASSUME NEW v \in Venue, PostVenue(v) PROVE Grows
  <2>1. world.name[v] # NoName
    BY <1>6 DEF PostVenue, PlaceInv, VenuePlace
  <2> QED BY <1>1, <1>6, <2>1, PutGrows DEF PostVenue, PostNew, PostRefused
<1>7. CASE UNCHANGED vars
  BY <1>1, <1>7 DEF vars, netsuite
<1>8. ASSUME NEW d \in Deal, DealStep(d) PROVE Grows
  BY <1>1, <1>3, <1>4, <1>8 DEF DealStep, Start, FindByName, FindByExt, Map, Upsert,
     Relocate, Stamp, netsuite
<1>9. ASSUME NEW v \in Venue, VenueStep(v) PROVE Grows
  BY <1>1, <1>5, <1>6, <1>9 DEF VenueStep, StartVenue, FindVenue, ReadBack,
     WriteBackref, netsuite
<1>10. ASSUME NEW k \in Key, Dies(k) PROVE Grows
  BY <1>1, <1>10 DEF Dies, netsuite
<1>11. ASSUME NEW l \in Loc, Index(l) PROVE Grows
  BY <1>1, <1>11 DEF Index
<1> QED BY <1>7, <1>8, <1>9, <1>10, <1>11 DEF Next

\* Every reachable state has PlaceInv: what the index shows, what a worker
\* holds and where an invoice lies agree with the locations as they have
\* become, whatever was written since (netsuite_auth.py:386-428).
THEOREM PlaceInvariant == Spec => []PlaceInv
<1>1. Init => PlaceInv
  BY Beginning
<1>2. PlaceInv /\ [Next]_vars => PlaceInv'
  BY NextKeeps
<1> QED BY <1>1, <1>2, PTL DEF Spec

\* The types of the state, and with them that a worker holds a location
\* where its next call needs one (netsuite_auth.py:452-454).
THEOREM TypeCorrect == Spec => []TypeOK
<1>1. PlaceInv => TypeOK
  BY DEF PlaceInv
<1> QED BY <1>1, PlaceInvariant, PTL

\* An invoice is only ever put at a location of a HubSpot venue of the deal's
\* venue name (netsuite_auth.py:394-428).
THEOREM LocationHolds == Spec => []LocationMatchesVenue
<1>1. PlaceInv => LocationMatchesVenue
  BY DEF PlaceInv, LocationMatchesVenue, Wanted
<1> QED BY <1>1, PlaceInvariant, PTL

\* When venue names differ at most one venue is meant by the deals.
LEMMA OneCandidate == ASSUME NamesDiffer PROVE \A v, w \in Candidates : v = w
BY DEF NamesDiffer, Candidates

\* The NetSuite id written back to a HubSpot venue stays that of its own
\* location, provided that venue names differ (sqs_processor.py:915-945).
THEOREM BackrefHolds == Spec => []BackrefRight
<1>1. PlaceInv => BackrefRight
  BY OneCandidate DEF PlaceInv, BackrefRight, Mine
<1> QED BY <1>1, PlaceInvariant, PTL

\* No step gives an attached location to another venue or detaches it,
\* provided that venue names differ (netsuite_auth.py:403-418).
THEOREM AttachedHolds == Spec => AttachedStays
<1> DEFINE A == \A l \in Loc : NamesDiffer /\ loc[l] # None /\ loc[l].ext # None =>
                  loc'[l].ext = loc[l].ext
<1>1. PlaceInv /\ [Next]_vars => A
  BY StepGrows, OneCandidate DEF Grows, Grew
<1>2. PlaceInv /\ [Next]_vars => [A]_loc
  BY <1>1
<1> QED BY <1>2, PlaceInvariant, PTL DEF Spec, AttachedStays

\* The venue a written location belongs to, and the name it then has, are
\* nobody else's: the strengthening that CreatedOnce rests on
\* (netsuite_auth.py:420-428, sqs_processor.py:909-919).
THEOREM NewInvariant == Spec => []NewInv
<1>1. Init => NewInv
  BY DEF Init, NewInv
<1>2. PlaceInv /\ NewInv /\ [Next]_vars => NewInv'
  BY NextNew
<1> QED BY <1>1, <1>2, PlaceInvariant, PTL DEF Spec

\* However often and by however many workers it is looked for in a lagging
\* index, a venue gets at most one new location (netsuite_auth.py:420-428,
\* sqs_processor.py:909-919).
THEOREM CreatedOnceHolds == Spec => []CreatedOnce
<1>1. TypeOK /\ NewInv => CreatedOnce
  BY NewIsBounded
<1> QED BY <1>1, TypeCorrect, NewInvariant, PTL

\* An invoice has lines its deal maps to or still those of before; a deal that
\* says created, all it maps to, unless a limited query left some out
\* (sqs_processor.py:716-829).
THEOREM BilledInvariant == Spec => []BilledInv
<1>1. Init => BilledInv
  BY BilledFirst
<1>2. TypeOK /\ BilledInv /\ [Next]_vars => BilledInv'
  BY NextBills
<1> QED BY <1>1, <1>2, TypeCorrect, PTL DEF Spec

\* An invoice never holds two rows of a SKU, however often its upsert is
\* repeated (netsuite_auth.py:519-521, sqs_processor.py:350-404).
THEOREM NoDuplicateRowsHolds == Spec => []NoDuplicateRows
<1>1. ASSUME TypeOK, BilledInv PROVE NoDuplicateRows
  <2>1. SUFFICES ASSUME NEW d \in Deal, inv[d] # None,
                        NEW i \in DOMAIN inv[d].lines, NEW j \in DOMAIN inv[d].lines, i # j
                 PROVE  /\ Stale \notin {inv[d].lines[i], inv[d].lines[j]}
                        /\ inv[d].lines[i].sku # inv[d].lines[j].sku
    BY DEF NoDuplicateRows
  <2> DEFINE ls == world.lines[d]
  <2>2. PICK found \in SUBSET Catalogue : inv[d].lines = InvoiceLines(ls, found)
    <3>1. inv[d].lines # <<Stale>>
      BY <2>1
    <3> QED BY <1>1, <2>1, <3>1 DEF BilledInv, DealBilled, Parts
  <2>3. IsLines(ls) /\ world \in Worlds
    BY <1>1 DEF TypeOK, DataOK, IsWorld, BilledInv
  <2>4. \A k \in Kept(ls, found) : InvoiceLine(Row(ls, k)) # Stale
    BY <2>3, ReconcileAssumption DEF Kept, Asked
  <2> HIDE DEF ls
  <2>5. \A n \in DOMAIN inv[d].lines : inv[d].lines[n] # Stale
    BY <2>2, <2>3, <2>4, InvoiceLinesAre
  <2>6. \A m, n \in DOMAIN inv[d].lines :
          inv[d].lines[m].sku = inv[d].lines[n].sku => m = n
    BY <2>2, <2>3, InvoiceLinesAre
  <2> QED BY <2>1, <2>5, <2>6
<1> QED BY <1>1, TypeCorrect, BilledInvariant, PTL

\* A deal stamped as created is charged the sum of its lines for billable SKUs
\* that NetSuite knows, and for nothing else; for all of them, unless a call
\* failed and they do not fit one query (sqs_processor.py:350-519).
THEOREM ChargesMatchHolds == Spec => []ChargesMatch
<1>1. ASSUME TypeOK, BilledInv PROVE ChargesMatch
  <2>1. SUFFICES ASSUME NEW d \in Deal, status[d] = "created"
                 PROVE  LET ls == world.lines[d] IN
                        /\ Whole(d) => \A sku \in Billable \cap Catalogue :
                             Charge(ls, sku) > 0 =>
                               Charge(inv[d].lines, sku) = Charge(ls, sku)
                        /\ \A i \in DOMAIN inv[d].lines : LET l == inv[d].lines[i] IN
                             /\ l.sku \in Billable \cap Catalogue
                             /\ l.amount = Charge(ls, l.sku)
    BY DEF ChargesMatch
  <2> DEFINE ls == world.lines[d]
  <2>2. Sent(d, inv[d].lines) /\ IsLines(ls)
    BY <1>1, <2>1 DEF TypeOK, DataOK, IsWorld, BilledInv, DealBilled
  <2>3. PICK found \in SUBSET Catalogue : inv[d].lines = InvoiceLines(ls, found)
    BY <2>2 DEF Sent, Parts
  <2>4. Whole(d) => inv[d].lines = InvoiceLines(ls, Catalogue)
    BY <2>2 DEF Sent, Billed
  <2> HIDE DEF ls
  <2>5. \A i \in DOMAIN inv[d].lines :
          /\ inv[d].lines[i].sku \in Billable \cap Catalogue
          /\ inv[d].lines[i].amount = Charge(ls, inv[d].lines[i].sku)
    BY <2>2, <2>3, ChargesKept DEF Charge
  <2>6. ASSUME Whole(d), NEW sku \in Billable \cap Catalogue, Charge(ls, sku) > 0
        PROVE  Charge(inv[d].lines, sku) = Charge(ls, sku)
    BY <2>2, <2>4, <2>6, ChargesKept DEF Charge
  <2> QED BY <2>5, <2>6 DEF ls
<1> QED BY <1>1, TypeCorrect, BilledInvariant, PTL

\* A deal stamped as modified has all its lines on the invoice, or none to
\* bill, unless a call failed (sqs_processor.py:749-805).
THEOREM ModifiedMatchesHolds == Spec => []ModifiedMatches
<1>1. BilledInv => ModifiedMatches
  BY DEF BilledInv, DealBilled, ModifiedMatches
<1> QED BY <1>1, BilledInvariant, PTL

\* The order in which HubSpot lists the line items makes no difference to the
\* lines with a price, for every list of them (sqs_processor.py:350-404).
THEOREM PaidLinesOrderFreeHolds == Spec => []PaidLinesOrderFree
<1>1. ASSUME TypeOK PROVE PaidLinesOrderFree
  <2>1. SUFFICES ASSUME NEW d \in Deal, NEW f \in Bijection(DOMAIN world.lines[d],
                                                             DOMAIN world.lines[d])
                 PROVE  PaidLines([n \in DOMAIN world.lines[d] |-> world.lines[d][f[n]]])
                          = PaidLines(world.lines[d])
    BY DEF PaidLinesOrderFree
  <2>2. IsLines(world.lines[d])
    BY <1>1 DEF TypeOK, DataOK, IsWorld
  <2> DEFINE ls == world.lines[d]
             ms == [n \in DOMAIN ls |-> ls[f[n]]]
  <2>3. IsLines(ls) /\ f \in Bijection(DOMAIN ls, DOMAIN ls)
        /\ ms = [n \in DOMAIN ls |-> ls[f[n]]]
    BY <2>2
  <2> HIDE DEF ls, ms
  <2>4. PaidLines(ms) = PaidLines(ls)
    BY <2>3, PaidOrderFree DEF PaidLines
  <2> QED BY <2>4 DEF ls, ms
<1> QED BY <1>1, TypeCorrect, PTL
=============================================================================
