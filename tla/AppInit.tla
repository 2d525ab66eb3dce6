-------------------------------- MODULE AppInit --------------------------------
(* app_init and app_init_domains: the library finds its cards, the app API  *)
(* spreads logical domains over them and streams over the logical domains,  *)
(* numbers the streams, and may be called again for more streams in the     *)
(* same domains.                                                           *)
(*                                                                         *)
(* A step creates one logical domain or one stream, and each creation may   *)
(* fail.  The app API is not thread safe: one call runs at a time.          *)
(***************************************************************************)
EXTENDS Integers, Sequences, FiniteSets, FiniteSetsExt

CONSTANTS
  NumEngines,     \* the cards COI counts, numbered from 0
  Available,      \* [lower, count] of each: its threads, those to avoid left out
  PhysLimit,      \* the option phys_domains_limit
  MaxLogDomains,  \* bound on the logical domains asked for
  MaxPlaces,      \* bound on the places asked for in a domain
  MaxOver,        \* bound on the logical streams per place
  MaxStreams      \* bound on the streams created between Init and Fini

ASSUME EnginesAssumption == NumEngines \in Nat \ {0} /\ PhysLimit \in Nat \ {0}
ASSUME AvailableAssumption ==
  Available \in [0..(NumEngines - 1) -> [lower : Nat, count : Nat \ {0}]]
ASSUME BoundsAssumption == {MaxLogDomains, MaxPlaces, MaxOver, MaxStreams} \subseteq Nat

VARIABLES
  initialized,               \* hStreamsState, between Init and Fini
  phys_domains,              \* the cards that are active, by physical domain
  log_domains,               \* card and mask of each logical domain, by id
  log_streams,               \* domain and mask of each logical stream, by id
  app_init_log_doms_IDs,     \* the domains the first call created, in order
  app_init_next_log_str_ID,  \* one for each stream a call has tried to create
  call,                      \* the locals of the call, or Idle
  call_failed                \* history: a call has failed since Init

libVars == <<initialized, phys_domains, log_domains, app_init_log_doms_IDs>>
aiVars == <<libVars, log_streams, app_init_next_log_str_ID, call, call_failed>>

Empty == [x \in {} |-> {}]
Idle == [stage |-> "idle"]

\* How many streams are asked for in the first domains.
StreamsUpto(streams) ==
  LET upto[i \in 0..Len(streams)] == IF i = 0 THEN 0 ELSE upto[i - 1] + streams[i]
  IN upto
TotalOf(streams) == StreamsUpto(streams)[Len(streams)]

-----------------------------------------------------------------------------
(* The arithmetic.  log_dom_idx and places count from 0.                   *)

NumLogDomains == Len(call.streams)
StreamsOf(idx) == call.streams[idx + 1]
NumActive == Len(phys_domains)
CardAt(p) == Available[phys_domains[p + 1]]
phys_domains_limit(n) == Min({PhysLimit, NumActive, n})

\* The first n % limit cards get one domain more.  When the division is even,
\* last_phys_upper_domain is -1, which is compared as the largest number.
num_log_domains(p) ==
  LET limit == phys_domains_limit(NumLogDomains)
      rest == NumLogDomains % limit
  IN IF rest # 0 /\ p > rest - 1 THEN NumLogDomains \div limit
     ELSE (NumLogDomains + limit - 1) \div limit

\* Mutant: the last domain does not get the threads that are left.
DomainSize_noRemainder(p, dom) == CardAt(p).count \div num_log_domains(p)

DomainSize(p, dom) ==
  CardAt(p).count \div num_log_domains(p)
    + IF dom = num_log_domains(p) - 1 THEN CardAt(p).count % num_log_domains(p) ELSE 0

\* Mutant: the streams of a place do not leave room for the other places.
StreamID_dense == call.str_base + call.place * call.over + call.lstr

\* The streams go across all places first.
StreamID == call.str_base + call.lstr * call.tot_places + call.place

PlaceSize ==
  call.dsize \div StreamsOf(call.idx)
    + IF call.place < call.dsize % StreamsOf(call.idx) THEN 1 ELSE 0
PlaceMask == call.p_lower..(call.p_lower + PlaceSize - 1)

-----------------------------------------------------------------------------
(* The library's own Init and Fini.                                        *)

\* Of the first phys_domains_limit cards, those COI gives a handle and details of
\* are active, numbered from 0 in that order; without any Init fails.
Discoveries ==
  LET Cards == 0..(Min({NumEngines, PhysLimit}) - 1)
  IN {cards \in UNION {[1..n -> Cards] : n \in 1..NumEngines} :
        \A i, j \in DOMAIN cards : i < j => cards[i] < cards[j]}

Fresh(cards) ==
  /\ initialized' = (cards # <<>>)
  /\ phys_domains' = cards
  /\ log_domains' = Empty
  /\ log_streams' = Empty
  /\ app_init_log_doms_IDs' = <<>>
  /\ app_init_next_log_str_ID' = 0
  /\ call_failed' = FALSE

LibInit ==
  /\ call = Idle /\ ~initialized
  /\ \E cards \in Discoveries : Fresh(cards)
  /\ UNCHANGED call

Fini ==
  /\ call = Idle /\ initialized
  /\ Fresh(<<>>)
  /\ UNCHANGED call

-----------------------------------------------------------------------------
(* The call.                                                               *)

\* The arguments that are accepted: a second call names as many domains as the
\* first has created.  A call that finds the library uninitialised initialises
\* it, and finalises it if it fails.
app_init_domains(streams, over) ==
  /\ call = Idle
  /\ app_init_log_doms_IDs = <<>> \/ Len(app_init_log_doms_IDs) = Len(streams)
  /\ TotalOf(streams) # 0
  /\ app_init_next_log_str_ID + TotalOf(streams) * over <= MaxStreams
  /\ phys_domains' \in IF initialized THEN {phys_domains} ELSE Discoveries
  /\ initialized' = TRUE
  /\ call' = [stage |-> "domain", streams |-> streams, over |-> over,
              tot_places |-> TotalOf(streams), start |-> app_init_next_log_str_ID,
              str_base |-> app_init_next_log_str_ID,
              should_fini |-> ~initialized, first |-> app_init_log_doms_IDs = <<>>,
              p |-> 0, dom |-> 0, idx |-> 0, d_lower |-> Available[phys_domains'[1]].lower,
              dsize |-> 0, p_lower |-> 0, place |-> 0, lstr |-> 0]
  /\ UNCHANGED <<log_domains, log_streams, app_init_log_doms_IDs, app_init_next_log_str_ID, call_failed>>

\* As many streams in a domain for every card COI counts, those that are not
\* active included.
app_init(streams, over) == app_init_domains([card \in 1..NumEngines |-> streams], over)

\* Where the loops go after the domain at hand: the next of the card, or the
\* first of the next card.
NextDomain(c) ==
  IF c.dom + 1 < num_log_domains(c.p)
  THEN [c EXCEPT !.stage = "domain", !.dom = @ + 1, !.idx = @ + 1]
  ELSE [c EXCEPT !.stage = "domain", !.dom = 0, !.idx = @ + 1, !.p = @ + 1,
          !.d_lower = IF c.p + 1 < NumActive THEN CardAt(c.p + 1).lower ELSE @]

\* The domain is there: on to its places, if it has any.
EnterDomain(c, size, lower) ==
  IF StreamsOf(c.idx) = 0 THEN NextDomain(c)
  ELSE [c EXCEPT !.stage = "place", !.dsize = size, !.p_lower = lower, !.place = 0, !.lstr = 0]

Fails ==
  IF call.should_fini THEN Fresh(<<>>)
  ELSE call_failed' = TRUE /\ UNCHANGED <<libVars, log_streams>>

InDomains == call.stage = "domain" /\ call.idx < NumLogDomains

\* The first call makes the domain and moves d_lower past it; it exists even if
\* it turns out to be too small.
CreateDomain ==
  /\ InDomains /\ call.first
  /\ LET size == DomainSize(call.p, call.dom)
         id == Len(app_init_log_doms_IDs) + 1
         mask == call.d_lower..(call.d_lower + size - 1)
     IN
     /\ size # 0
     /\ log_domains' = [d \in 1..id |-> IF d = id THEN [phys |-> call.p, mask |-> mask]
                                        ELSE log_domains[d]]
     /\ app_init_log_doms_IDs' = Append(app_init_log_doms_IDs, id)
     /\ call' = [EnterDomain([call EXCEPT !.d_lower = @ + size], size, call.d_lower)
                   EXCEPT !.stage = IF StreamsOf(call.idx) > size THEN "refused" ELSE @]
  /\ UNCHANGED <<initialized, phys_domains, log_streams, app_init_next_log_str_ID, call_failed>>

\* A later call reuses it, and does not move d_lower.
ReuseDomain ==
  /\ InDomains /\ ~call.first
  /\ LET size == Cardinality(log_domains[app_init_log_doms_IDs[call.idx + 1]].mask) IN
     call' = [EnterDomain(call, size, call.d_lower)
                EXCEPT !.stage = IF StreamsOf(call.idx) > size THEN "refused" ELSE @]
  /\ UNCHANGED <<libVars, log_streams, app_init_next_log_str_ID, call_failed>>

\* AddLogDomain fails, or the domain has too few threads for its streams.
DomainFails ==
  /\ call.stage = "refused" \/ (InDomains /\ call.first)
  /\ Fails
  /\ call' = Idle
  /\ IF call.should_fini THEN TRUE ELSE UNCHANGED app_init_next_log_str_ID

AtPlace == call.stage = "place"
ThisDomain == app_init_log_doms_IDs[call.idx + 1]
CanCreate == StreamID \notin DOMAIN log_streams /\ PlaceMask \subseteq log_domains[ThisDomain].mask

\* The next logical stream of the place, the next place, or the next domain.
AfterStream ==
  IF call.lstr + 1 < call.over THEN [call EXCEPT !.lstr = @ + 1]
  ELSE IF call.place + 1 < StreamsOf(call.idx)
       THEN [call EXCEPT !.lstr = 0, !.place = @ + 1, !.p_lower = @ + PlaceSize]
       ELSE NextDomain([call EXCEPT !.str_base = @ + StreamsOf(call.idx)])

\* Mutant: only the places are counted.
CreateStream_countsPlaces ==
  /\ AtPlace /\ CanCreate
  /\ log_streams' = [s \in DOMAIN log_streams \cup {StreamID} |->
       IF s = StreamID THEN [dom |-> ThisDomain, mask |-> PlaceMask] ELSE log_streams[s]]
  /\ app_init_next_log_str_ID' = app_init_next_log_str_ID + IF call.lstr = 0 THEN 1 ELSE 0
  /\ call' = AfterStream
  /\ UNCHANGED <<libVars, call_failed>>

CreateStream ==
  /\ AtPlace /\ CanCreate
  /\ log_streams' = [s \in DOMAIN log_streams \cup {StreamID} |->
       IF s = StreamID THEN [dom |-> ThisDomain, mask |-> PlaceMask] ELSE log_streams[s]]
  /\ app_init_next_log_str_ID' = app_init_next_log_str_ID + 1
  /\ call' = AfterStream
  /\ UNCHANGED <<libVars, call_failed>>

\* StreamCreate refuses the id or the mask, or runs out of something.
StreamFails ==
  /\ AtPlace
  /\ Fails
  /\ call' = Idle
  /\ IF call.should_fini THEN TRUE ELSE app_init_next_log_str_ID' = app_init_next_log_str_ID + 1

\* All domains are done: dontFini.
Return ==
  /\ call.stage = "domain" /\ call.idx = NumLogDomains
  /\ call' = Idle
  /\ UNCHANGED <<libVars, log_streams, app_init_next_log_str_ID, call_failed>>

-----------------------------------------------------------------------------
AIInit ==
  /\ initialized = FALSE
  /\ phys_domains = <<>>
  /\ log_domains = Empty
  /\ log_streams = Empty
  /\ app_init_log_doms_IDs = <<>>
  /\ app_init_next_log_str_ID = 0
  /\ call = Idle
  /\ call_failed = FALSE

Requests == UNION {[1..n -> 0..MaxPlaces] : n \in 1..MaxLogDomains}

AINext ==
  \/ LibInit
  \/ Fini
  \/ \E streams \in Requests, over \in 1..MaxOver : app_init_domains(streams, over)
  \/ \E streams \in 1..MaxPlaces, over \in 1..MaxOver : app_init(streams, over)
  \/ CreateDomain
  \/ ReuseDomain
  \/ DomainFails
  \/ CreateStream
  \/ StreamFails
  \/ Return

AISpec == AIInit /\ [][AINext]_aiVars

-----------------------------------------------------------------------------
(* Properties.                                                             *)

Returning == call.stage = "domain" /\ call.idx = NumLogDomains

\* What a call of any number of domains has made of a card's threads: the logical
\* domains of a card share out all of them, and are as many on each card as can
\* be, up to one.
DomainsPartition ==
  (Returning /\ call.first) =>
    LET limit == phys_domains_limit(NumLogDomains)
        On(p) == {d \in DOMAIN log_domains : log_domains[d].phys = p}
    IN
    /\ \A p \in 0..(limit - 1) :
         /\ UNION {log_domains[d].mask : d \in On(p)}
              = CardAt(p).lower..(CardAt(p).lower + CardAt(p).count - 1)
         /\ \A d, e \in On(p) : d # e => log_domains[d].mask \cap log_domains[e].mask = {}
         /\ \A q \in 0..(limit - 1) : Cardinality(On(p)) - Cardinality(On(q)) \in {-1, 0, 1}
    /\ \A d \in DOMAIN log_domains : log_domains[d].phys \in 0..(limit - 1)

\* The place of each new stream by the documented numbering: across the places of
\* all domains first.
PlaceOf(id) == (id - call.start) % call.tot_places
DomainOf(place) ==
  Min({i \in 1..NumLogDomains : StreamsUpto(call.streams)[i] > place})
NewIDs == call.start..(call.start + call.tot_places * call.over - 1)

\* As long as no call has failed, a call that returns has made exactly the streams
\* it should, numbered on from where the last one stopped; those of one place have
\* one mask, the places of a domain share out its threads evenly, and none lies
\* outside.
StreamsPartition ==
  (Returning /\ ~call_failed) =>
    /\ {s \in DOMAIN log_streams : s >= call.start} = NewIDs
    /\ app_init_next_log_str_ID = call.start + Cardinality(NewIDs)
    /\ \A s \in NewIDs : log_streams[s].dom = app_init_log_doms_IDs[DomainOf(PlaceOf(s))]
    /\ \A s, t \in NewIDs :
         IF PlaceOf(s) = PlaceOf(t) THEN log_streams[s].mask = log_streams[t].mask
         ELSE log_streams[s].mask \cap log_streams[t].mask = {}
                \/ log_streams[s].dom # log_streams[t].dom
    /\ \A s, t \in NewIDs : log_streams[s].dom = log_streams[t].dom =>
         Cardinality(log_streams[s].mask) - Cardinality(log_streams[t].mask) \in {-1, 0, 1}
    /\ \A i \in 1..NumLogDomains : call.streams[i] # 0 =>
         log_domains[app_init_log_doms_IDs[i]].mask =
           UNION {log_streams[s].mask : s \in {t \in NewIDs : DomainOf(PlaceOf(t)) = i}}

\* As long as no call has failed, no call runs into an id that another has used.
FreshStreamIDs == (AtPlace /\ ~call_failed) => StreamID \notin DOMAIN log_streams
=============================================================================
