------------------------------ MODULE FleetStats ------------------------------
(***************************************************************************)
(* Three pages of figures over one logbook: GET /api/stats/fleet           *)
(* (fleet_analysis.rs), GET /api/stats (stats.rs) and GET /api/home        *)
(* (home.rs).  The state is the rows they read, grown by one entry at a    *)
(* time; each page's figures are operators over it.                        *)
(*                                                                         *)
(* A day is a number, a month MonthDays of them and a year YearDays; today *)
(* falls in CurrentYear.  Kilometres per day and shared amounts are whole  *)
(* in units of 1/Unit; rounding is left out, and so are litres,            *)
(* consumption and prices.                                                 *)
(***************************************************************************)
EXTENDS Logbook, Sequences

CONSTANTS
    LastDay,     \* bound: the last day an entry can have
    MonthDays,
    Today,
    Unit,        \* what kilometres and amounts are divided into
    MaxEntries,  \* bound: records
    MaxExpenses  \* bound: expenses

ASSUME FleetAssumption ==
    /\ {MonthDays, Unit} \subseteq Nat \ {0}
    /\ YearDays % MonthDays = 0
    /\ LastDay \in Nat /\ Today \in 0..LastDay
    /\ None \notin (0..LastDay) \X Nat
    /\ \A n \in 1..LastDay \union 1..Cardinality(Motorcycles) : Unit % n = 0

VARIABLES
    bikes,       \* motorcycles rows
    records,     \* maintenanceRecords rows, of any type
    expenses

fleetVars == <<bikes, records, expenses>>

Day == 0..LastDay
Month(day) == day \div MonthDays
CurrentYear == Year(Today)

(* reading is the highest odometer of the bike's issues, location records   *)
(* and manual entry, which only the home page reads.                        *)
Bike(purchase, initial, reading) ==
    [purchase |-> purchase, initial |-> initial, reading |-> reading,
     sold |-> None, saleOdo |-> None]

FleetInit(purchases, initials, readings) ==
    /\ bikes \in [Motorcycles -> {Bike(p, i, r) : p \in purchases, i \in initials, r \in readings}]
    /\ records = {}
    /\ expenses = {}

(* Two rows alike in all of this are one here.                              *)
LogRecord(b, day, odo, cost, parts) ==
    /\ Cardinality(records) < MaxEntries
    /\ records' = records \union
                     {[bike |-> b, day |-> day, odo |-> odo, cost |-> cost, parts |-> parts]}
    /\ UNCHANGED <<bikes, expenses>>

LogExpense(day, amount, linked) ==
    /\ Cardinality(expenses) < MaxExpenses
    /\ expenses' = expenses \union {[day |-> day, amount |-> amount, bikes |-> linked]}
    /\ UNCHANGED <<bikes, records>>

Sell(b, day, odo) ==
    /\ bikes[b].sold = None
    /\ bikes' = [bikes EXCEPT ![b].sold = day, ![b].saleOdo = odo]
    /\ UNCHANGED <<records, expenses>>

FleetNext ==
    \/ \E b \in Motorcycles, day \in Day, odo, cost, parts \in Nat :
          LogRecord(b, day, odo, cost, parts)
    \/ \E day \in Day, amount \in Nat, linked \in SUBSET Motorcycles :
          LogExpense(day, amount, linked)
    \/ \E b \in Motorcycles, day \in Day, odo \in Nat \union {None} : Sell(b, day, odo)

FleetSpec == FleetInit(Day \union {None}, Nat, Nat) /\ [][FleetNext]_fleetVars

RecordsOf(b) == {r \in records : r.bike = b}
(* A record from before the purchase is a previous owner's.                 *)
Own(b) == {r \in RecordsOf(b) : bikes[b].purchase = None \/ r.day >= bikes[b].purchase}

---------------------------------------------------------------------------
(* fleet_analysis.rs.                                                       *)
OwnedFrom(b) ==
    CASE bikes[b].purchase # None -> bikes[b].purchase
      [] bikes[b].purchase = None /\ Own(b) # {} -> Min({r.day : r \in Own(b)})
      [] OTHER -> None

(* The odometer readings in order, the one at the sale among them.          *)
ReadingsOf(b) ==
    {<<r.day, r.odo>> : r \in {o \in Own(b) : o.odo > 0}}
    \union (IF bikes[b].sold # None /\ bikes[b].saleOdo # None
            THEN {<<bikes[b].sold, bikes[b].saleOdo>>} ELSE {})
EarlierReading(x, y) == x[1] < y[1] \/ (x[1] = y[1] /\ x[2] < y[2])
InOrder(readings) ==
    Ranked(readings, {p \in readings \X readings : EarlierReading(p[1], p[2])})

NoKm == [d \in Day |-> 0]

(* daily_distance: what a reading adds to the one before it is spread over  *)
(* the days in between; one that goes backwards is ignored.                 *)
Spread(km, from, to, distance) ==
    IF to <= from THEN [km EXCEPT ![to] = @ + distance * Unit]
    ELSE [d \in Day |-> km[d] + (IF d \in (from + 1)..to
                                 THEN (distance * Unit) \div (to - from) ELSE 0)]
(* A mutant: an ignored reading becomes the base of the next.               *)
AddReadingDown(acc, reading) ==
    LET day == reading[1]
        odo == reading[2]
        base == acc.base
    IN CASE base = None -> [acc EXCEPT !.base = reading]
         [] base # None /\ odo < base[2] -> [acc EXCEPT !.base = reading]
         [] OTHER -> [base |-> <<Max({day, base[1]}), odo>>,
                      km |-> Spread(acc.km, base[1], day, odo - base[2])]

AddReading(acc, reading) ==
    LET day == reading[1]
        odo == reading[2]
        base == acc.base
    IN CASE base = None -> [acc EXCEPT !.base = reading]
         [] base # None /\ odo < base[2] -> acc
         [] OTHER -> [base |-> <<Max({day, base[1]}), odo>>,
                      km |-> Spread(acc.km, base[1], day, odo - base[2])]
DailyDistance(start, readings) ==
    LET ordered == InOrder(readings)
        upTo[k \in 0..Len(ordered)] ==
            IF k = 0 THEN [base |-> start, km |-> NoKm] ELSE AddReading(upTo[k - 1], ordered[k])
    IN upTo[Len(ordered)].km

FirstReading(b) == IF OwnedFrom(b) = None THEN None ELSE <<OwnedFrom(b), bikes[b].initial>>
KmPerDay(b) == DailyDistance(FirstReading(b), ReadingsOf(b))

KmIn(b, days) == LET km == KmPerDay(b) IN Total([d \in days |-> km[d]])
DaysOfYear(y) == {d \in Day : Year(d) = y}
DaysOfMonth(m) == {d \in Day : Month(d) = m}
FleetMonth(m) == Total([b \in Motorcycles |-> KmIn(b, DaysOfMonth(m))])
FleetYear(y) == Total([b \in Motorcycles |-> KmIn(b, DaysOfYear(y))])

(* Costs: own records, and an equal share of the expenses linked to it.     *)
(* A mutant: every linked bike bears the whole amount.                      *)
WholeAmount(e) == e.amount * Unit

Share(e) == (e.amount * Unit) \div Cardinality(e.bikes)
CostsIn(b, days) ==
    Total([r \in {o \in Own(b) : o.day \in days} |-> (r.cost + r.parts) * Unit])
    + Total([e \in {x \in expenses : b \in x.bikes /\ x.day \in days} |-> Share(e)])
FleetExpenses(days) ==
    Total([e \in {x \in expenses : x.bikes = {} /\ x.day \in days} |-> e.amount * Unit])
FleetCosts(days) ==
    Total([b \in Motorcycles |-> CostsIn(b, days)]) + FleetExpenses(days)

(* The years shown: from the first with a bike or an entry to this one.     *)
BikeDays(b) ==
    {r.day : r \in Own(b)} \union {e.day : e \in {x \in expenses : b \in x.bikes}}
    \union (LET km == KmPerDay(b) IN {d \in Day : km[d] > 0})
    \union (IF OwnedFrom(b) = None THEN {} ELSE {OwnedFrom(b)})
FirstYear ==
    LET days == (UNION {BikeDays(b) : b \in Motorcycles})
                \union {e.day : e \in {x \in expenses : x.bikes = {}}}
    IN Min({Year(d) : d \in days} \union {CurrentYear})
YearsShown == FirstYear..CurrentYear
BikesOwned(y) ==
    {b \in Motorcycles :
        IF OwnedFrom(b) = None THEN bikes[b].sold = None /\ y = CurrentYear
        ELSE y \in Year(OwnedFrom(b))..(IF bikes[b].sold = None THEN CurrentYear
                                        ELSE Max({Year(bikes[b].sold), Year(OwnedFrom(b))}))}
TotalKm == Total([y \in YearsShown |-> FleetYear(y)])
TotalCost == Total([y \in YearsShown |-> FleetCosts(DaysOfYear(y))])

(* Last year up to the day of the year it is now.                           *)
YearToDate == {d \in DaysOfYear(CurrentYear - 1) : d % YearDays <= Today % YearDays}

---------------------------------------------------------------------------
(* stats.rs: the highest odometer of each year since the purchase, never    *)
(* below the year before.                                                   *)
StartYear ==
    Min({Year(bikes[b].purchase) : b \in {m \in Motorcycles : bikes[m].purchase # None}}
        \union {CurrentYear})
PurchaseYear(b) == IF bikes[b].purchase = None THEN StartYear ELSE Year(bikes[b].purchase)

OdoInYear(b, y) == {r.odo : r \in {o \in Own(b) : Year(o.day) = y}}
LastOdo(b) ==
    LET last[y \in (PurchaseYear(b) - 1)..CurrentYear] ==
            IF y < PurchaseYear(b) THEN bikes[b].initial
            ELSE Max({last[y - 1]} \union OdoInYear(b, y))
    IN last
YearlyDistance(b) ==
    LET last == LastOdo(b) IN
    [y \in PurchaseYear(b)..CurrentYear |-> last[y] - last[y - 1]]
(* A year's costs are all its records', once the bike is bought.            *)
RecordCost(r) == r.cost + r.parts
YearlyCost(b, y) ==
    IF y < PurchaseYear(b) THEN 0
    ELSE Total([r \in {o \in RecordsOf(b) : Year(o.day) = y} |-> RecordCost(r)])
BikesCounted(y) == {b \in Motorcycles : y >= PurchaseYear(b)}
CostThisYear == Total([r \in {o \in records : Year(o.day) = CurrentYear} |-> RecordCost(r)])
DistanceOverall(b) == LastOdo(b)[CurrentYear] - bikes[b].initial

---------------------------------------------------------------------------
(* home.rs: every record of the bike counts, whoever logged it.             *)
OdosOf(b, days) == {r.odo : r \in {o \in RecordsOf(b) : o.day \in days}}
CurrentOdo(b) ==
    Max({bikes[b].initial, bikes[b].reading} \union OdosOf(b, Day)
        \union ({bikes[b].saleOdo} \ {None}))
(* A mutant: not floored at the initial odometer.                           *)
LastYearOdoOfRecords(b) == Max({0} \union OdosOf(b, {d \in Day : Year(d) < CurrentYear}))

LastYearOdo(b) == Max({bikes[b].initial} \union OdosOf(b, {d \in Day : Year(d) < CurrentYear}))
OdoThisYear(b) == CurrentOdo(b) - LastYearOdo(b)
HomeCostThisYear(b) ==
    Total([r \in {o \in RecordsOf(b) : Year(o.day) = CurrentYear} |-> r.cost])

---------------------------------------------------------------------------
(* Every kilometre on a bike's odometer is driven once: up to the day of a  *)
(* reading that goes forwards the days hold what the odometer has gained    *)
(* since the start, whatever typos and late entries lie before it; none is  *)
(* driven before the bike was owned; and months and years divide the same   *)
(* kilometres (daily_distance; the head of fleet_analysis.rs).              *)
Forwards(b) ==
    {x \in ReadingsOf(b) :
        /\ x[2] >= FirstReading(b)[2]
        /\ \A y \in ReadingsOf(b) : (EarlierReading(y, x) \/ y[1] = x[1]) => y[2] <= x[2]}
EveryKilometreOnce ==
    /\ \A b \in Motorcycles : FirstReading(b) # None =>
          /\ \A x \in Forwards(b) :
                (x[1] >= FirstReading(b)[1]) => KmIn(b, 0..x[1]) = Unit * (x[2] - FirstReading(b)[2])
          /\ KmIn(b, Day) =
                Unit * (Max({FirstReading(b)[2]} \union {x[2] : x \in ReadingsOf(b)}) - FirstReading(b)[2])
          /\ (bikes[b].sold = None \/ bikes[b].sold >= OwnedFrom(b)) =>
                KmIn(b, {d \in Day : d < OwnedFrom(b)}) = 0
    /\ \A y \in Year(0)..CurrentYear :
          FleetYear(y) = Total([m \in {Month(d) : d \in DaysOfYear(y)} |-> FleetMonth(m)])
    /\ TotalKm = Total([b \in Motorcycles |-> KmIn(b, {d \in Day : Year(d) <= CurrentYear})])

(* What a user reads on one page does not contradict another: for a bike    *)
(* bought by now and still owned, with no earlier owner's reading above its *)
(* first own one, the fleet page, the statistics page and home page show    *)
(* one lifetime distance, the years add up to it, and home's distance this  *)
(* year is that of the statistics, as long as no reading is dated ahead; a  *)
(* reading only home knows can only raise what home shows.  The pages count *)
(* the bike in the same years, and after the year of purchase fleet and     *)
(* statistics page show the same costs, of which home's leave out the parts *)
(* (daily_distance, get_stats, get_home_data).                              *)
Plain(b) ==
    /\ bikes[b].purchase # None /\ bikes[b].sold = None
    /\ Year(bikes[b].purchase) <= CurrentYear
    /\ \A r \in RecordsOf(b) \ Own(b) : r.odo <= bikes[b].initial
NothingAhead(b) == \A r \in RecordsOf(b) : Year(r.day) <= CurrentYear
RecordCosts(b, y) ==
    CostsIn(b, DaysOfYear(y))
    - Total([e \in {x \in expenses : b \in x.bikes /\ Year(x.day) = y} |-> Share(e)])
PartsThisYear(b) ==
    Total([r \in {o \in RecordsOf(b) : Year(o.day) = CurrentYear} |-> r.parts])
PagesAgree ==
    \A b \in Motorcycles : Plain(b) =>
        /\ NothingAhead(b) =>
              LET overall == DistanceOverall(b)
                  yearly == YearlyDistance(b)
                  home == CurrentOdo(b) - bikes[b].initial
              IN /\ KmIn(b, Day) = Unit * overall
                 /\ overall = Total(yearly)
                 /\ home = Max({overall, bikes[b].reading - bikes[b].initial})
                 /\ OdoThisYear(b) - yearly[CurrentYear] = home - overall
        /\ \A y \in Year(0)..CurrentYear :
              /\ (b \in BikesOwned(y)) = (b \in BikesCounted(y))
              /\ y > PurchaseYear(b) => Unit * YearlyCost(b, y) = RecordCosts(b, y)
        /\ HomeCostThisYear(b) + PartsThisYear(b) = YearlyCost(b, CurrentYear)
        /\ YearlyCost(b, CurrentYear) <= CostThisYear

(* Every amount is counted once and none is lost: the years shown hold all  *)
(* own costs and all expenses up to this year, however an expense is        *)
(* shared, and the comparison with last year stays within last year         *)
(* (analyze).                                                               *)
ToNow(entries) == {x \in entries : Year(x.day) <= CurrentYear}
EveryCostOnce ==
    /\ TotalCost =
          Unit * (Total([r \in ToNow(UNION {Own(b) : b \in Motorcycles}) |-> RecordCost(r)])
                  + Total([e \in ToNow(expenses) |-> e.amount]))
    /\ FleetCosts(YearToDate) <= FleetCosts(DaysOfYear(CurrentYear - 1))
=============================================================================
