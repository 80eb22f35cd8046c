---------------------------- MODULE DealReconcile ----------------------------
(***************************************************************************)
(* The decisions of reconcile_deal_invoice and process_venue, and the race *)
(* between them.  A deal resolves its venue to a NetSuite location by name *)
(* and creates or claims one; a venue event looks the location up by       *)
(* externalId and creates or renames it.  They run under different lock    *)
(* keys, so at the same time, and NetSuite's searches lag behind writes.   *)
(*                                                                         *)
(* The lock gives each deal and each venue at most one worker, so a worker *)
(* is named by its key.  What HubSpot holds does not change here (edits    *)
(* and coalescing are CoalescedSync); redrives are not counted, for        *)
(* the question is what a redelivered message comes to once the search     *)
(* index has caught up.                                                    *)
(***************************************************************************)
EXTENDS LineItems

CONSTANTS
  Deal, Venue, Loc, Name, None,
  Catalogue,   \* the SKUs that NetSuite has an item for
  Worlds,      \* the states of HubSpot and NetSuite to start from, see IsWorld
  Stale,       \* the line of an invoice from before
  MaxFaults    \* bound of the model: failed calls and deaths of workers

Key    == Deal \cup Venue
NoName == "no name"

\* A deal's flaws: what its data or its surroundings lack.
EarlyChecks == <<"stage", "prior", "update", "contact", "email", "customer",
                 "subsidiary", "venueName", "hubVenue", "emptyName">>
Flaw      == {EarlyChecks[n] : n \in DOMAIN EarlyChecks} \cup {"fee", "guests"}
Rejection == Flaw \cup {"mapping", "noLines"}
Synced    == {"created", "modified"}

Location == [name : Name, ext : Venue \cup {None}]

\* want: the venue name on the deals; name: the venues' names in HubSpot;
\* locs: NetSuite's locations, indexed; strict: NetSuite refuses a second
\* location of a name; invoiced: the deals that have an invoice; events: the
\* keys with a message on the queue.
IsWorld(w) ==
  /\ w.want \in Name /\ w.name \in [Venue -> Name \cup {NoName}]
  /\ w.strict \in BOOLEAN /\ w.locs \in [Loc -> Location \cup {None}]
  /\ w.flaws \in [Deal -> SUBSET Flaw]
  /\ w.invoiced \subseteq Deal /\ w.events \subseteq Key
  /\ DOMAIN w.lines = Deal /\ \A d \in Deal : IsLines(w.lines[d])

ASSUME ReconcileAssumption ==
  /\ MaxFaults \in Nat /\ Deal \cap Venue = {} /\ None \notin Key \cup Loc \cup Synced
  /\ NoName \notin Name /\ None \notin Location
  /\ IsFiniteSet(Venue)
  /\ \A w \in Worlds : IsWorld(w)
  /\ \A w \in Worlds : \A d \in Deal : \A i \in Firsts(w.lines[d]) :
       Stale # InvoiceLine(Row(w.lines[d], i))

VARIABLES
  world,    \* one of Worlds
  loc,      \* NetSuite's locations
  seen,     \* the locations as the search index shows them
  inv,      \* each deal's invoice, or None
  status,   \* netsuite_invoice_status of each deal
  numbered, \* the deals that carry an invoice number
  backref,  \* netsuite_id of each venue
  wk,       \* each key's message and worker: [pc, venue, at, lines, say]
  faults

netsuite == <<loc, seen, inv>>
hubspot  == <<status, numbered, backref>>
vars     == <<world, netsuite, hubspot, wk, faults>>

Job(pc, v, l, lines, say) ==
  [pc |-> pc, venue |-> v, at |-> l, lines |-> lines, say |-> say]
Idle(pc) == Job(pc, None, None, <<>>, None)

DealPC  == {"byName", "create", "claim", "byExt", "map", "upsert", "relocate",
            "stamp"}
VenuePC == {"venueByExt", "venuePatch", "venuePost", "readBack", "backref"}
Running == DealPC \cup VenuePC

DealType(d) ==
  /\ wk[d].pc \in {"none", "queued", "acked"} \cup DealPC
  /\ wk[d].pc \in {"claim", "map", "upsert", "relocate"} => wk[d].at \in Loc
  /\ wk[d].pc = "stamp" => wk[d].say \in Rejection \cup Synced
VenueType(v) ==
  /\ wk[v].pc \in {"none", "queued", "acked"} \cup VenuePC
  /\ wk[v].pc \in {"venuePatch", "backref"} => wk[v].at \in Loc

\* Workers apart, the state of HubSpot, NetSuite and the model's bound.
DataOK ==
  /\ IsWorld(world)
  /\ loc \in [Loc -> Location \cup {None}] /\ seen \in [Loc -> Location \cup {None}]
  /\ DOMAIN inv = Deal
  /\ \A d \in Deal : inv[d] # None => inv[d].at \in Loc \cup {None}
  /\ status \in [Deal -> Rejection \cup Synced \cup {None}]
  /\ numbered \subseteq Deal
  /\ backref \in [Venue -> Loc \cup {None}]
  /\ faults \in 0 .. MaxFaults

TypeOK ==
  /\ DataOK /\ DOMAIN wk = Key
  /\ \A d \in Deal : DealType(d)
  /\ \A v \in Venue : VenueType(v)

Init ==
  /\ world \in Worlds
  /\ loc = world.locs /\ seen = world.locs
  /\ inv = [d \in Deal |-> IF d \in world.invoiced
                           THEN [at |-> None, lines |-> <<Stale>>] ELSE None]
  /\ status = [d \in Deal |-> None] /\ numbered = world.invoiced
  /\ backref = [v \in Venue |-> None]
  /\ wk = [k \in Key |-> Idle(IF k \in world.events THEN "queued" ELSE "none")]
  /\ faults = 0

-----------------------------------------------------------------------------
Set(k, job)  == wk' = [wk EXCEPT ![k] = job]
With(k, pc, l) == Set(k, Job(pc, wk[k].venue, l, wk[k].lines, wk[k].say))
Goto(k, pc)  == With(k, pc, wk[k].at)
Say(d, what) == Set(d, Job("stamp", wk[d].venue, wk[d].at, wk[d].lines, what))
Raise(k)     == Set(k, Idle("queued"))
Fault        == faults < MaxFaults /\ faults' = faults + 1
Fine         == UNCHANGED faults
Limited      == Fault   \* a third 429 in a row, which the caller takes for no hit

\* A call fails before or after it took effect, or the worker dies: the
\* message is redriven.
Dies(k) ==
  /\ wk[k].pc \in Running /\ Fault /\ Raise(k)
  /\ UNCHANGED <<world, netsuite, hubspot>>

ByName(n) == {l \in Loc : seen[l] # None /\ seen[l].name = n}
ByExt(v)  == {l \in Loc : seen[l] # None /\ seen[l].ext = v}

\* NetSuite's own view: it refuses a location that takes another's externalId
\* or, when strict, its name.
Refuses(v, n, self) ==
  \E l \in Loc \ {self} :
    loc[l] # None /\ (loc[l].ext = v \/ (world.strict /\ loc[l].name = n))

\* Mutant: a location that is written gets no externalId.
PutUnkeyed(l, v) ==
  loc' = [loc EXCEPT ![l] = [name |-> world.name[v], ext |-> None]]

Put(l, v) == loc' = [loc EXCEPT ![l] = [name |-> world.name[v], ext |-> v]]

\* The location is created, if NetSuite lets it be.
PostNew(k, v, pc) ==
  \E l \in Loc : /\ loc[l] = None /\ ~Refuses(v, world.name[v], l)
                 /\ Put(l, v) /\ With(k, pc, l)
PostRefused(k, v) ==
  Refuses(v, world.name[v], None) /\ Raise(k) /\ UNCHANGED loc

\* The search index takes up a location.
Index(l) ==
  /\ seen[l] # loc[l] /\ seen' = [seen EXCEPT ![l] = loc[l]]
  /\ UNCHANGED <<world, loc, inv, hubspot, wk, faults>>

-----------------------------------------------------------------------------
(* A deal: reconcile_deal_invoice and get_or_create_venue                  *)

Candidates == {v \in Venue : world.name[v] = world.want}

Lacks(d, check) ==
  CASE check = "update"   -> check \in world.flaws[d] /\ inv[d] = None
    [] check = "hubVenue" -> check \in world.flaws[d] \/ Candidates = {}
    [] OTHER              -> check \in world.flaws[d]

Failed(d) == {n \in DOMAIN EarlyChecks : Lacks(d, EarlyChecks[n])}

\* The checks before the first write, in their order; then a HubSpot venue of
\* the deal's venue name is chosen.
Start(d) ==
  /\ wk[d].pc = "queued"
  /\ \/ \E n \in Failed(d) : /\ \A k \in Failed(d) : n <= k
                            /\ Say(d, EarlyChecks[n])
     \/ /\ Failed(d) = {}
        /\ \E v \in Candidates : Set(d, Job("byName", v, None, <<>>, None))
  /\ UNCHANGED <<world, netsuite, hubspot, faults>>

\* Mutants: a location of the name is used, or claimed, whoever has it.
FindByNameTakesAny(d) ==
  /\ wk[d].pc = "byName" /\ Fine
  /\ IF ByName(world.want) = {} THEN Goto(d, "create")
     ELSE \E l \in ByName(world.want) :
            With(d, IF seen[l].ext = None THEN "claim" ELSE "map", l)
  /\ UNCHANGED <<world, netsuite, hubspot>>

FindByNameClaimsAny(d) ==
  /\ wk[d].pc = "byName" /\ Fine
  /\ IF ByName(world.want) = {} THEN Goto(d, "create")
     ELSE \E l \in ByName(world.want) : With(d, "claim", l)
  /\ UNCHANGED <<world, netsuite, hubspot>>

\* A location of the name is taken when its externalId is the venue's, is to
\* be claimed when it has none, and stops the deal when it has another's.
FindByName(d) ==
  /\ wk[d].pc = "byName"
  /\ \/ Limited /\ Goto(d, "create")
     \/ Fine /\ ByName(world.want) = {} /\ Goto(d, "create")
     \/ Fine /\ \E l \in ByName(world.want) :
          CASE seen[l].ext = None         -> With(d, "claim", l)
            [] seen[l].ext = wk[d].venue  -> With(d, "map", l)
            [] OTHER                      -> Raise(d)
  /\ UNCHANGED <<world, netsuite, hubspot>>

\* Mutant: the answer of the create is taken to hold the location.
CreateTrusted(d) ==
  /\ wk[d].pc = "create"
  /\ \/ Fine /\ (PostNew(d, wk[d].venue, "map") \/ PostRefused(d, wk[d].venue))
     \/ Limited /\ Goto(d, "map") /\ UNCHANGED loc
  /\ UNCHANGED <<world, seen, inv, hubspot>>

\* What create_or_update_venue returns is not looked at, so a limited write
\* goes on as if done; the location is then searched by its externalId.
Create(d) ==
  /\ wk[d].pc = "create"
  /\ \/ Fine /\ (PostNew(d, wk[d].venue, "byExt") \/ PostRefused(d, wk[d].venue))
     \/ Limited /\ Goto(d, "byExt") /\ UNCHANGED loc
  /\ UNCHANGED <<world, seen, inv, hubspot>>

Claim(d) == LET l == wk[d].at v == wk[d].venue IN
  /\ wk[d].pc = "claim"
  /\ \/ Fine /\ Refuses(v, world.want, l) /\ Raise(d) /\ UNCHANGED loc
     \/ Fine /\ ~Refuses(v, world.want, l) /\ Put(l, v) /\ Goto(d, "byExt")
     \/ Limited /\ Goto(d, "byExt") /\ UNCHANGED loc
  /\ UNCHANGED <<world, seen, inv, hubspot>>

FindByExt(d) == LET hits == ByExt(wk[d].venue) IN
  /\ wk[d].pc = "byExt" /\ Fine
  /\ \/ hits = {} /\ Raise(d)
     \/ \E l \in hits : With(d, "map", l)
  /\ UNCHANGED <<world, netsuite, hubspot>>

\* What the mapped lines lead to: an update of the location alone, an upsert,
\* a rejection, or an exception for a fee that is no number.
Mapped(d, lines) ==
  CASE lines = <<>> /\ inv[d] = None      -> Say(d, "noLines")
    [] lines = <<>> /\ inv[d] # None      -> Goto(d, "relocate")
    [] OTHER ->
         IF "fee" \in world.flaws[d] THEN Raise(d)
         ELSE IF "guests" \in world.flaws[d] THEN Say(d, "guests")
         ELSE Set(d, Job("upsert", wk[d].venue, wk[d].at, lines, None))

\* SKUs of a limited query count as unknown to NetSuite; a query that raises
\* fails the mapping.
Map(d) == LET ls == world.lines[d] IN
  /\ wk[d].pc = "map"
  /\ \/ Fine    /\ Mapped(d, InvoiceLines(ls, Catalogue))
     \/ Limited /\ \E lost \in (SUBSET Queries(ls)) \ {{}} :
                     Mapped(d, InvoiceLines(ls, Catalogue \ UNION lost))
     \/ Fault   /\ Say(d, "mapping")
  /\ UNCHANGED <<world, netsuite, hubspot>>

Success(d) == IF d \in numbered THEN "modified" ELSE "created"

\* Mutant: the PATCH leaves the old lines in place (no replace=item).
UpsertAppends(d) ==
  /\ wk[d].pc = "upsert" /\ Fine /\ Say(d, Success(d))
  /\ inv' = [inv EXCEPT ![d] =
       [at |-> wk[d].at,
        lines |-> IF inv[d] = None THEN wk[d].lines ELSE inv[d].lines \o wk[d].lines]]
  /\ UNCHANGED <<world, loc, seen, hubspot>>

\* Mutant: the PATCH of an invoice leaves its lines out.
UpsertKeepsLines(d) ==
  /\ wk[d].pc = "upsert" /\ Fine /\ Say(d, Success(d))
  /\ inv' = [inv EXCEPT ![d] =
       [at |-> wk[d].at,
        lines |-> IF inv[d] = None THEN wk[d].lines ELSE inv[d].lines]]
  /\ UNCHANGED <<world, loc, seen, hubspot>>

\* The upsert with all its lines, as a POST or a replacing PATCH.
Upsert(d) ==
  /\ wk[d].pc = "upsert" /\ Fine /\ Say(d, Success(d))
  /\ inv' = [inv EXCEPT ![d] = [at |-> wk[d].at, lines |-> wk[d].lines]]
  /\ UNCHANGED <<world, loc, seen, hubspot>>

\* Without lines an invoice only gets its location; a limited answer is not
\* looked at.
Relocate(d) ==
  /\ wk[d].pc = "relocate" /\ Say(d, "modified")
  /\ \/ Fine    /\ inv' = [inv EXCEPT ![d] = [at |-> wk[d].at, lines |-> inv[d].lines]]
     \/ Limited /\ UNCHANGED inv
  /\ UNCHANGED <<world, loc, seen, hubspot>>

\* The status is written to the deal, after an upsert the number with it.
Stamp(d) ==
  /\ wk[d].pc = "stamp" /\ Set(d, Idle("acked"))
  /\ status' = [status EXCEPT ![d] = wk[d].say]
  /\ numbered' = IF wk[d].lines # <<>> THEN numbered \cup {d} ELSE numbered
  /\ UNCHANGED <<world, netsuite, backref, faults>>

DealStep(d) ==
  \/ Start(d) \/ FindByName(d) \/ Create(d) \/ Claim(d) \/ FindByExt(d)
  \/ Map(d) \/ Upsert(d) \/ Relocate(d) \/ Stamp(d)

-----------------------------------------------------------------------------
(* A venue: process_venue                                                  *)

StartVenue(v) ==
  /\ wk[v].pc = "queued"
  /\ IF world.name[v] = NoName THEN Set(v, Idle("acked")) ELSE Goto(v, "venueByExt")
  /\ UNCHANGED <<world, netsuite, hubspot, faults>>

\* Mutant: a venue event always creates.
FindVenueNever(v) ==
  /\ wk[v].pc = "venueByExt" /\ Fine /\ Goto(v, "venuePost")
  /\ UNCHANGED <<world, netsuite, hubspot>>

FindVenue(v) == LET hits == ByExt(v) IN
  /\ wk[v].pc = "venueByExt"
  /\ \/ Limited /\ Goto(v, "venuePost")
     \/ Fine /\ hits = {} /\ Goto(v, "venuePost")
     \/ Fine /\ \E l \in hits : With(v, "venuePatch", l)
  /\ UNCHANGED <<world, netsuite, hubspot>>

PatchVenue(v) == LET l == wk[v].at IN
  /\ wk[v].pc = "venuePatch" /\ Fine
  /\ IF Refuses(v, world.name[v], l)
     THEN Raise(v) /\ UNCHANGED loc
     ELSE Put(l, v) /\ Goto(v, "backref")
  /\ UNCHANGED <<world, seen, inv, hubspot>>

\* The id comes with the answer, if that has a Location header.
PostVenue(v) ==
  /\ wk[v].pc = "venuePost"
  /\ \/ Fine /\ (PostNew(v, v, "backref") \/ PostRefused(v, v))
     \/ Fault /\ PostNew(v, v, "readBack")
  /\ UNCHANGED <<world, seen, inv, hubspot>>

\* Mutant: the location is read back by its name.
ReadBackByName(v) == LET hits == ByName(world.name[v]) IN
  /\ wk[v].pc = "readBack" /\ Fine
  /\ \/ hits = {} /\ Set(v, Idle("acked"))
     \/ \E l \in hits : With(v, "backref", l)
  /\ UNCHANGED <<world, netsuite, hubspot>>

\* Five searches may all come too early: the back-reference is left to a
\* later event.
ReadBack(v) == LET hits == ByExt(v) IN
  /\ wk[v].pc = "readBack" /\ Fine
  /\ \/ hits = {} /\ Set(v, Idle("acked"))
     \/ \E l \in hits : With(v, "backref", l)
  /\ UNCHANGED <<world, netsuite, hubspot>>

WriteBackref(v) ==
  /\ wk[v].pc = "backref" /\ Set(v, Idle("acked"))
  /\ backref' = [backref EXCEPT ![v] = wk[v].at]
  /\ UNCHANGED <<world, netsuite, status, numbered, faults>>

VenueStep(v) ==
  \/ StartVenue(v) \/ FindVenue(v) \/ PatchVenue(v) \/ PostVenue(v)
  \/ ReadBack(v) \/ WriteBackref(v)

Next ==
  \/ \E d \in Deal : DealStep(d)
  \/ \E v \in Venue : VenueStep(v)
  \/ \E k \in Key : Dies(k)
  \/ \E l \in Loc : Index(l)

Spec == Init /\ [][Next]_vars

\* SQS hands a message out again, a worker goes on, and the search index
\* keeps catching up.
FairSpec ==
  /\ Spec
  /\ \A d \in Deal : WF_vars(DealStep(d))
  /\ \A v \in Venue : WF_vars(VenueStep(v))
  /\ WF_vars(\E l \in Loc : Index(l))

-----------------------------------------------------------------------------
(* Properties                                                              *)

\* Two HubSpot venues of one name are the case in which a late back-fill
\* takes a location from the venue that has just claimed it.
NamesDiffer ==
  \A v, w \in Venue : v # w => world.name[v] # world.name[w]

\* An invoice is only ever put at a location that belongs to a HubSpot venue
\* of the deal's venue name, whatever venue events and other deals write
\* between the searches and the upsert (netsuite_auth.py:394-428).
LocationMatchesVenue ==
  \A d \in Deal : inv[d] # None /\ inv[d].at # None =>
    loc[inv[d].at].ext \in Candidates

\* A location once attached to a venue is never given to another or detached
\* (netsuite_auth.py:403-418), provided that venue names differ.
AttachedStays ==
  [][\A l \in Loc : NamesDiffer /\ loc[l] # None /\ loc[l].ext # None =>
       loc'[l].ext = loc[l].ext]_loc

\* However often and by however many workers it is looked for in a lagging
\* index, a venue gets at most one new location (netsuite_auth.py:420-428,
\* sqs_processor.py:909-919).
CreatedOnce ==
  \A v \in Venue :
    Cardinality({l \in Loc : /\ world.locs[l] = None /\ loc[l] # None
                             /\ loc[l].name = world.name[v]})
      <= Cardinality({w \in Venue : world.name[w] = world.name[v]})

\* The NetSuite id written back to a HubSpot venue is that of the venue's own
\* location (sqs_processor.py:915-945).
BackrefRight ==
  NamesDiffer => \A v \in Venue : backref[v] # None => loc[backref[v]].ext = v

\* An invoice never holds two rows of a SKU, however often its upsert is
\* repeated (netsuite_auth.py:519-521, sqs_processor.py:350-404).
NoDuplicateRows ==
  \A d \in Deal : inv[d] # None => LET lines == inv[d].lines IN
    \A i, j \in DOMAIN lines :
      i # j => Stale \notin {lines[i], lines[j]} /\ lines[i].sku # lines[j].sku

\* A deal stamped as created has an invoice that charges only billable SKUs
\* NetSuite knows, each with the sum of the deal's lines of that SKU; and it
\* charges all whose sum is positive, unless some call failed and the deal has
\* more SKUs than a query asks for (sqs_processor.py:350-519).
Whole(d) == faults = 0 \/ Cardinality(Asked(world.lines[d])) <= QueryLimit
Charge(lines, sku) == AmountOf(lines, Rows(lines, sku))
ChargesMatch ==
  \A d \in Deal : status[d] = "created" => LET ls == world.lines[d] IN
    /\ Whole(d) => \A sku \in Billable \cap Catalogue :
         Charge(ls, sku) > 0 => Charge(inv[d].lines, sku) = Charge(ls, sku)
    /\ \A i \in DOMAIN inv[d].lines : LET l == inv[d].lines[i] IN
         l.sku \in Billable \cap Catalogue /\ l.amount = Charge(ls, l.sku)

\* A deal stamped as modified has its lines on the invoice, all of them and no
\* others, unless it has none to bill: then the lines of before stay.  Only a
\* failed call makes an exception (sqs_processor.py:749-805).
Billed(d) == InvoiceLines(world.lines[d], Catalogue)
Bare(d)   == Billed(d) = <<>> \/ faults > 0
ModifiedMatches ==
  \A d \in Deal : status[d] = "modified" => inv[d].lines = Billed(d) \/ Bare(d)

\* In which order HubSpot lists the line items makes no difference to the
\* paid lines that come out (sqs_processor.py:350-404); it may for free ones.
PaidLines(ls) ==
  {l \in Range(InvoiceLines(ls, Catalogue)) : l.amount > 0}
PaidLinesOrderFree ==
  \A d \in Deal : status[d] = "created" => LET ls == world.lines[d] IN
    \A f \in Bijection(DOMAIN ls, DOMAIN ls) :
      PaidLines([n \in DOMAIN ls |-> ls[f[n]]]) = PaidLines(ls)

\* Why a message may be redriven for ever: another venue has the location of
\* the name, the venue's own location has another name, or NetSuite already
\* has the name and takes it only once; or the deal's fee is no number.
BlockedDeal(d) ==
  \/ "fee" \in world.flaws[d]
  \/ \E v \in Candidates, l \in Loc : loc[l] # None /\
       \/ loc[l].name = world.want /\ loc[l].ext \notin {None, v}
       \/ /\ loc[l].ext = v
          /\ \/ loc[l].name # world.want
             \/ \E o \in Loc \ {l} : loc[o] # None /\ loc[o].name = world.want
BlockedVenue(v) ==
  world.strict /\ \E l \in Loc :
    loc[l] # None /\ loc[l].name = world.name[v] /\ loc[l].ext # v

\* Every redelivered message is acked in the end, or stays blocked for one of
\* those reasons: no race of a deal with its venue leaves the two refusing
\* each other for good (sqs_processor.py:589-829, 842-953).
Settles ==
  <>[](\A k \in world.events :
         wk[k].pc = "acked" \/ IF k \in Deal THEN BlockedDeal(k) ELSE BlockedVenue(k))

-----------------------------------------------------------------------------
(* Why it holds: the inductive invariant of DealReconcileProofs            *)

\* How an externalId may change: the venues that the deals may mean take
\* locations without one, and from each other.
Grew(e, f) == f = e \/ (e \in Candidates \cup {None} /\ f \in Candidates)

\* What the index shows is an earlier state of the location.
IndexInv ==
  \A l \in Loc : seen[l] # None => loc[l] # None /\ Grew(seen[l].ext, loc[l].ext)

Wanted(l)  == l \in Loc /\ loc[l] # None /\ loc[l].ext \in Candidates
Mine(v, l) == /\ l \in Loc /\ loc[l] # None
              /\ loc[l].ext = v \/ {loc[l].ext, v} \subseteq Candidates

DealPlace(d) ==
  /\ wk[d].pc \in {"byName", "create", "claim", "byExt"} => wk[d].venue \in Candidates
  /\ wk[d].pc = "claim" =>
       /\ wk[d].at \in Loc /\ loc[wk[d].at] # None
       /\ loc[wk[d].at].ext \in Candidates \cup {None}
  /\ wk[d].pc \in {"map", "upsert", "relocate"} => Wanted(wk[d].at)

VenuePlace(v) ==
  /\ wk[v].pc \in {"venueByExt", "venuePatch", "venuePost"} => world.name[v] # NoName
  /\ wk[v].pc \in {"venuePatch", "backref"} => Mine(v, wk[v].at)

\* A new location has the name and the externalId of a venue, and nothing else
\* has that externalId: NetSuite refuses to write a second.
NewInv ==
  \A l \in Loc : world.locs[l] = None /\ loc[l] # None =>
    /\ loc[l].ext \in Venue /\ loc[l].name = world.name[loc[l].ext]
    /\ \A o \in Loc \ {l} : loc[o] # None => loc[o].ext # loc[l].ext

\* An invoice has lines that its deal maps to, or those of before; once its
\* upsert is done, and as long as its deal says created, the former.
Parts(d)       == {InvoiceLines(world.lines[d], found) : found \in SUBSET Catalogue}
Sent(d, lines) == lines \in Parts(d) /\ (Whole(d) => lines = Billed(d))
DealBilled(d) ==
  /\ wk[d].pc = "upsert" => Sent(d, wk[d].lines)
  /\ wk[d].pc = "relocate" => inv[d] # None /\ Bare(d)
  /\ inv[d] # None => inv[d].lines \in {<<Stale>>} \cup Parts(d)
  /\ status[d] = "created" \/ (wk[d].pc = "stamp" /\ wk[d].say = "created")
       => Sent(d, inv[d].lines)
  /\ status[d] = "modified" \/ (wk[d].pc = "stamp" /\ wk[d].say = "modified")
       => inv[d].lines = Billed(d) \/ Bare(d)
BilledInv == world \in Worlds /\ \A d \in Deal : DealBilled(d)

PlaceInv ==
  /\ TypeOK /\ IndexInv
  /\ \A d \in Deal : DealPlace(d)
  /\ \A d \in Deal : inv[d] # None /\ inv[d].at # None => Wanted(inv[d].at)
  /\ \A v \in Venue : VenuePlace(v)
  /\ \A v \in Venue : backref[v] # None => Mine(v, backref[v])
=============================================================================
