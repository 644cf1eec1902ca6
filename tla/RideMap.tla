------------------------------- MODULE RideMap --------------------------------
(***************************************************************************)
(* The map page: what GET /api/map works out from a user's fuel stops,     *)
(* workshop visits and "the bike is here" markers.  The state is what      *)
(* compute_map reads, grown by one record at a time; home, legs, tours,    *)
(* years and calendar are operators over it.                               *)
(*                                                                         *)
(* A day is a number, a year YearDays of them; coordinates are which       *)
(* places are Apart, farther than HOME_RADIUS_KM.  Litres and money are    *)
(* summed the way stops are counted and are left out.                      *)
(***************************************************************************)
EXTENDS Logbook, Sequences

CONSTANTS
    Places,      \* the user's locations: ids, in the order of creation
    Located,     \* those with coordinates
    Apart,       \* pairs of places beyond the home radius
    Country,     \* the country code of a place, None for some
    MaxGap,      \* TOUR_MAX_GAP_DAYS
    MaxStops,    \* bound: fuel stops
    MaxMarkers,  \* bound: markers and workshop visits
    Unknown      \* UNKNOWN_COUNTRY

ASSUME MapAssumption ==
    /\ Places \subseteq Nat \ {0} /\ IsFiniteSet(Places)
    /\ Located \subseteq Places
    /\ Apart \subseteq Places \X Places
    /\ MaxGap \in Nat
    /\ None \notin Places

VARIABLES
    stops,       \* maintenanceRecords of type fuel, by id
    markers,     \* ParkedVisit rows
    visits,      \* MaintenanceVisit rows
    storage      \* the places of type storage

mapVars == <<stops, markers, visits, storage>>

MapInit == stops = <<>> /\ markers = {} /\ visits = <<>> /\ storage \in SUBSET Places

(* A stop may have no location, or one whose row is of another user.        *)
LogStop(bike, day, odo, place) ==
    /\ Len(stops) < MaxStops
    /\ stops' = Append(stops, [bike |-> bike, day |-> day, odo |-> odo, place |-> place])
    /\ UNCHANGED <<markers, visits, storage>>

(* A locationRecords row, or a maintenance record of type location, whose   *)
(* id is negated.                                                           *)
LogMarker(id, day, place) ==
    /\ Cardinality(markers) + Len(visits) < MaxMarkers
    /\ \A v \in markers : v.id # id
    /\ markers' = markers \union {[id |-> id, day |-> day, place |-> place]}
    /\ UNCHANGED <<stops, visits, storage>>

(* Any other record with a location.                                        *)
LogVisit(day, place) ==
    /\ Cardinality(markers) + Len(visits) < MaxMarkers
    /\ visits' = Append(visits, [day |-> day, place |-> place])
    /\ UNCHANGED <<stops, markers, storage>>

MapNext ==
    \/ \E bike \in Motorcycles, day \in Nat, odo \in Int, place \in Nat \union {None} :
          LogStop(bike, day, odo, place)
    \/ \E id \in Int, day \in Nat, place \in Places : LogMarker(id, day, place)
    \/ \E day \in Nat, place \in Places : LogVisit(day, place)

MapSpec == MapInit /\ [][MapNext]_mapVars

Bikes == {stops[i].bike : i \in DOMAIN stops}

---------------------------------------------------------------------------
(* select_home: the latest marker at a located place, else the first        *)
(* located storage, else the located place with most stops.                 *)
LaterMarker(v, w) == v.day > w.day \/ (v.day = w.day /\ v.id > w.id)
StopsAt(place) == {i \in DOMAIN stops : stops[i].place = place}

Home ==
    LET marked == {v \in markers : v.place \in Located}
        stores == storage \cap Located
        visited == {l \in Located : StopsAt(l) # {}}
        Busier(l, m) == \/ Cardinality(StopsAt(l)) > Cardinality(StopsAt(m))
                        \/ /\ Cardinality(StopsAt(l)) = Cardinality(StopsAt(m))
                           /\ l < m
    IN CASE marked # {} ->
              (CHOOSE v \in marked : \A w \in marked \ {v} : LaterMarker(v, w)).place
         [] marked = {} /\ stores # {} -> Min(stores)
         [] marked = {} /\ stores = {} /\ visited # {} ->
              CHOOSE l \in visited : \A m \in visited \ {l} : Busier(l, m)
         [] OTHER -> None

(* A place without coordinates is neither away nor on the home side.        *)
Away(i) == Home # None /\ stops[i].place \in Located /\ <<Home, stops[i].place>> \in Apart
HomeSide(i) == Home # None /\ stops[i].place \in Located /\ <<Home, stops[i].place>> \notin Apart

---------------------------------------------------------------------------
(* The stops of one bike by day, odometer and id.                           *)
Riding(bike) == {i \in DOMAIN stops : stops[i].bike = bike}
RiddenBefore(i, j) ==
    \/ stops[i].day < stops[j].day
    \/ stops[i].day = stops[j].day /\ stops[i].odo < stops[j].odo
    \/ stops[i].day = stops[j].day /\ stops[i].odo = stops[j].odo /\ i < j
Route(bike) ==
    Ranked(Riding(bike), {p \in Riding(bike) \X Riding(bike) : RiddenBefore(p[1], p[2])})

(* A mutant: a leg counts on the day it starts.                             *)
LegByStart(from, to) == [from |-> from, to |-> to, bike |-> stops[to].bike,
                         day |-> stops[from].day, km |-> stops[to].odo - stops[from].odo]

(* A leg joins neighbours with an odometer that rose.                       *)
Leg(from, to) == [from |-> from, to |-> to, bike |-> stops[to].bike,
                  day |-> stops[to].day, km |-> stops[to].odo - stops[from].odo]
Legs(bike) ==
    LET route == Route(bike) IN
    {leg \in {Leg(route[k], route[k + 1]) : k \in 1..(Len(route) - 1)} : leg.km > 0}
AllLegs == UNION {Legs(b) : b \in Bikes}

(* One step of the tour walk: the stops under way, by their place on the    *)
(* route, are an open run, which ends with a stop on the home side or       *)
(* before a gap; a run opens at an away stop and takes the stop before it   *)
(* along if that is near in time.                                           *)
TooLong(i, j) == stops[j].day - stops[i].day > MaxGap
Last(s) == s[Len(s)]
(* A mutant: takes the stop before it along however long ago it was.        *)
OpenedAnyway(route, k) ==
    CASE ~Away(route[k]) -> <<>>
      [] Away(route[k]) /\ k > 1 -> <<k - 1, k>>
      [] OTHER -> <<k>>

Opened(route, k) ==
    CASE ~Away(route[k]) -> <<>>
      [] Away(route[k]) /\ k > 1 /\ ~TooLong(route[k - 1], route[k]) -> <<k - 1, k>>
      [] OTHER -> <<k>>
Walk(route, walk, k) ==
    LET open == walk.open
        splits == open # <<>> /\ TooLong(route[Last(open)], route[k])
    IN IF open = <<>> \/ splits
       THEN [open |-> Opened(route, k),
             finished |-> IF splits THEN Append(walk.finished, open) ELSE walk.finished]
       ELSE IF HomeSide(route[k])
            THEN [open |-> <<>>, finished |-> Append(walk.finished, Append(open, k))]
            ELSE [open |-> Append(open, k), finished |-> walk.finished]
Runs(bike) ==
    LET route == Route(bike)
        upTo[k \in 0..Len(route)] ==
            IF k = 0 THEN [open |-> <<>>, finished |-> <<>>] ELSE Walk(route, upTo[k - 1], k)
        walk == upTo[Len(route)]
    IN IF walk.open = <<>> THEN walk.finished ELSE Append(walk.finished, walk.open)

Starts(route, run) == stops[route[run[1]]].day
Ends(route, run) == stops[route[Last(run)]].day

(* A run within a day is a day trip, any other a tour.                      *)
TourOf(bike, route, run) ==
    [id |-> <<bike, Starts(route, run)>>, year |-> Year(Starts(route, run)),
     legs |-> {leg \in Legs(bike) :
                 \E k \in 1..(Len(run) - 1) : leg.from = route[run[k]] /\ leg.to = route[run[k + 1]]}]
Tours(bike) ==
    LET route == Route(bike)
        runs == Runs(bike)
    IN [k \in {j \in DOMAIN runs : Ends(route, runs[j]) > Starts(route, runs[j])} |->
           TourOf(bike, route, runs[k])]
DayTrips(bike) ==
    LET route == Route(bike)
        runs == Runs(bike)
    IN {k \in DOMAIN runs : Ends(route, runs[k]) <= Starts(route, runs[k])}

---------------------------------------------------------------------------
(* Figures.                                                                 *)
Km(legs) == Total([leg \in legs |-> leg.km])

(* Per location: what is counted there, and when it was first and last      *)
(* visited; a place without coordinates shows one number of visits.         *)
FuelStopsAt(place) == Cardinality(StopsAt(place))
WorkshopVisitsAt(place) == Cardinality({i \in DOMAIN visits : visits[i].place = place})
ParkedAt(place) == Cardinality({v \in markers : v.place = place})
VisitsAt(place) == FuelStopsAt(place) + WorkshopVisitsAt(place) + ParkedAt(place)
DaysAt(place) ==
    {stops[i].day : i \in StopsAt(place)} \union {v.day : v \in {m \in markers : m.place = place}}
    \union {visits[i].day : i \in {j \in DOMAIN visits : visits[j].place = place}}
LocationOut(place) ==
    [fuelStops |-> FuelStopsAt(place), maintenanceVisits |-> WorkshopVisitsAt(place),
     parkedVisits |-> ParkedAt(place),
     firstVisit |-> IF DaysAt(place) = {} THEN None ELSE Min(DaysAt(place)),
     lastVisit |-> IF DaysAt(place) = {} THEN None ELSE Max(DaysAt(place))]
LocationsOut == [l \in Located |-> LocationOut(l)]
Ungeocoded == [l \in Places \ Located |-> VisitsAt(l)]
Unlocated == {i \in DOMAIN stops : stops[i].place \notin Places}

Years == {Year(stops[i].day) : i \in DOMAIN stops}
YearKm(year) == Km({leg \in AllLegs : Year(leg.day) = year})
BikeYearKm(bike, year) == Km({leg \in Legs(bike) : Year(leg.day) = year})
CountryOf(leg) == LET place == stops[leg.to].place IN
    IF place \in Places /\ Country[place] # None THEN Country[place] ELSE Unknown
KmByCountry(year) ==
    LET legs == {leg \in AllLegs : Year(leg.day) = year} IN
    [c \in {CountryOf(leg) : leg \in legs} |-> Km({leg \in legs : CountryOf(leg) = c})]
Calendar ==
    LET legs == AllLegs IN
    [d \in {stops[i].day : i \in DOMAIN stops} |->
        [km |-> Km({leg \in legs : leg.day = d}),
         stops |-> Cardinality({i \in DOMAIN stops : stops[i].day = d})]]

---------------------------------------------------------------------------
(* However late a stop is logged, no kilometre of a bike is lost or driven  *)
(* twice: with an odometer that never falls, its legs are the way from the  *)
(* lowest to the highest reading; and the years, the bikes of a year, the   *)
(* countries and the calendar divide the same legs; every record is counted *)
(* at one place or as unlocated, within the place's first and last visit    *)
(* (analyze).                                                               *)
NeverFalls(bike) ==
    \A i, j \in Riding(bike) : stops[i].day < stops[j].day => stops[i].odo <= stops[j].odo
Readings(bike) == {stops[i].odo : i \in Riding(bike)}

LegsAreTheWayRidden ==
    /\ \A b \in Bikes : NeverFalls(b) => Km(Legs(b)) = Max(Readings(b)) - Min(Readings(b))
    /\ \A y \in Years :
          /\ YearKm(y) = Total([b \in Bikes |-> BikeYearKm(b, y)])
          /\ YearKm(y) = Total(KmByCountry(y))
    /\ Km(AllLegs) = Total([y \in Years |-> YearKm(y)])
    /\ Km(AllLegs) = Total([d \in DOMAIN Calendar |-> Calendar[d].km])
    /\ Len(stops) + Len(visits) + Cardinality(markers) =
          Total([l \in Located |-> LocationsOut[l].fuelStops + LocationsOut[l].maintenanceVisits
                                   + LocationsOut[l].parkedVisits])
          + Total(Ungeocoded)
          + Cardinality(Unlocated)
    /\ \A l \in Located : LocationsOut[l].lastVisit # None =>
          \A leg \in AllLegs : stops[leg.to].place = l =>
              leg.day \in LocationsOut[l].firstVisit..LocationsOut[l].lastVisit

(* Every away stop is part of exactly one run; a run follows the route with *)
(* no long gap and meets the home side only at its ends; it ends there or   *)
(* before a long gap, so that no ride is cut in two; runs share at most the *)
(* stop at home between them, a leg is part of one tour at most, no two     *)
(* tours of a bike have one id, and a day trip has no stop of another day   *)
(* (the tour walk of analyze).                                              *)
StopsOf(run) == {run[k] : k \in DOMAIN run}
OneRide(route, run) ==
    /\ \A k \in DOMAIN run : run[k] = run[1] + k - 1
    /\ \A k \in 1..(Len(run) - 1) : ~TooLong(route[run[k]], route[run[k + 1]])
    /\ \A k \in 2..(Len(run) - 1) : ~HomeSide(route[run[k]])
Whole(route, run) ==
    \/ HomeSide(route[Last(run)])
    \/ Last(run) = Len(route)
    \/ TooLong(route[Last(run)], route[Last(run) + 1])
ShareAtMostHome(run, later) ==
    StopsOf(run) \cap StopsOf(later) \subseteq {Last(run)} \cap {later[1]}

ToursCoverTheRides ==
    \A b \in Bikes :
        LET route == Route(b)
            runs == Runs(b)
            tours == Tours(b)
        IN
        /\ \A i \in DOMAIN route :
              Away(route[i]) => Cardinality({k \in DOMAIN runs : i \in StopsOf(runs[k])}) = 1
        /\ \A k \in DOMAIN runs : OneRide(route, runs[k]) /\ Whole(route, runs[k])
        /\ \A k, l \in DOMAIN runs : k < l => ShareAtMostHome(runs[k], runs[l])
        /\ \A k \in DayTrips(b) : \A i \in StopsOf(runs[k]) :
              stops[route[i]].day = Starts(route, runs[k])
        /\ \A k, l \in DOMAIN tours : k # l =>
              tours[k].id # tours[l].id /\ tours[k].legs \cap tours[l].legs = {}
=============================================================================
