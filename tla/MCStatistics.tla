----------------------------- MODULE MCStatistics -----------------------------
(* Small instances of RideMap, FleetStats and FuelChain for TLC.  They read *)
(* the same tables but share no operation, so a history is about one:       *)
(* legs of two bikes logged in any order, one long ride, homes, kilometres, *)
(* money, or the fuel chain with handlers one at a time or side by side.    *)
EXTENDS RideMap, FleetStats, FuelChain

VARIABLE about

mcVars == <<mapVars, fleetVars, chainVars, about>>

(* The first place is at home, the second far away, the third unlocated.    *)
MCApart == {<<1, 2>>, <<2, 1>>}
MCCountry == [p \in Places |-> IF p = 2 THEN "IT" ELSE None]

Histories == {"legs", "ride", "homes", "km", "money", "fills", "overlaps"}

MCInit ==
    /\ about \in Histories
    /\ MapInit
    /\ storage \in IF about = "homes" THEN {{}, {1, 3}} ELSE {{1}}
    /\ CASE about = "km" ->
              /\ FleetInit({None, 1, 3}, {5}, {0, 9})
              /\ bikes["b1"].purchase # 1 /\ bikes["b2"] = Bike(1, 5, 0)
         [] about = "money" -> FleetInit({None, 3}, {5}, {0})
         [] OTHER -> FleetInit({None}, {5}, {0})
    /\ ChainInit

RideOn(days, odos, bikesRidden, places) ==
    \E b \in bikesRidden, d \in days, o \in odos, p \in places : LogStop(b, d, o, p)
InTime == \A k \in 2..Len(stops') : stops'[k - 1].day <= stops'[k].day

MCNext ==
    /\ UNCHANGED about
    /\ \/ /\ UNCHANGED <<fleetVars, chainVars>>
          /\ \/ /\ about = "legs" /\ Len(stops) < 3
                /\ RideOn({1, 9}, {3, 5, 8}, {"b1", "b2"}, {2, None})
             \/ /\ about = "ride" /\ RideOn({0, 1, 6, 9}, {Len(stops)}, {"b1"}, {1, 2, None})
                /\ InTime
             \/ /\ about = "homes"
                /\ \/ Len(stops) < 2 /\ RideOn({0, 1}, {Len(stops)}, {"b1"}, {1, 2, 3})
                   \/ \E i \in {-1, 1, 2}, d \in {0, 1}, p \in Places : LogMarker(i, d, p)
                   \/ \E d \in {0, 2}, p \in Places : LogVisit(d, p)
       \/ /\ UNCHANGED <<mapVars, chainVars>>
          /\ \/ /\ about = "km"
                /\ \/ \E d \in {1, 4, 6, 11}, o \in {0, 4, 7, 8} : LogRecord("b1", d, o, 0, 0)
                   \/ \E d \in {6, 11}, o \in {None, 9} : Sell("b1", d, o)
             \/ /\ about = "money"
                /\ \/ /\ Cardinality(records) < 2
                      /\ \E b \in Motorcycles, d \in {1, 4, 12}, c \in {2}, p \in {0, 1} :
                            LogRecord(b, d, 0, c, p)
                   \/ \E d \in {1, 6, 12}, a \in {1}, linked \in SUBSET Motorcycles :
                         LogExpense(d, a, linked)
       \/ /\ UNCHANGED <<mapVars, fleetVars>>
          /\ ChainNext
          /\ \/ /\ about = "fills"
                /\ \A r \in Writers \ {"r1"} : chain'[r].pc = "idle"
             \/ /\ about = "overlaps" /\ Len(fills') <= 2
                /\ \A i \in DOMAIN fills' : fills'[i].odo # Max(FillOdos)

MCSpec == MCInit /\ [][MCNext]_mcVars
=============================================================================
