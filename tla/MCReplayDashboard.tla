-------------------------- MODULE MCReplayDashboard --------------------------
(***************************************************************************)
(* Model checking ReplayDashboard.                                         *)
(***************************************************************************)
EXTENDS ReplayDashboard, TLC

S(pos, time) == [pos |-> pos, time |-> time]

(* Two laps of files, the second shorter; a session best that begins with  *)
(* the end of the lap before it, and one that does not.                    *)
MCLaps ==
  [fast |-> <<S(0, 0), S(2, 10), S(4, 25), S(8, 50)>>,
   slow |-> <<S(1, 9), S(6, 66)>>,
   best1 |-> <<S(9, 70), S(0, 2), S(4, 31), S(8, 60)>>,
   best2 |-> <<S(2, 12), S(6, 38)>>]

(* A car that enters the next sector with each frame, but for one in which *)
(* it may stay, and is invalid from some frame to the end of the lap.      *)
Places == << <<1, 2>>, <<4, 6>>, <<8, 9>> >>
Frames == 5

File(start, stay, cut, times) ==
  LET odo(n) == start + n - (IF n >= stay THEN 2 ELSE 1) IN
  [n \in 1..Frames |->
     LET sector == odo(n) % 3
         pos == Places[sector + 1][IF n = stay THEN 2 ELSE 1]
     IN [lap |-> odo(n) \div 3, sector |-> sector, pos |-> pos, time |-> 7 * pos,
         sector_time |-> IF odo(n) = start THEN 0 ELSE times[odo(n) - start],
         valid |-> n < cut \/ odo(n) \div 3 > odo(cut) \div 3]]

MCFiles ==
  {File(1, 3, 4, <<2, 1, 2>>), File(2, 6, 6, <<1, 0, 2, 2>>),
   File(2, 6, 4, <<2, 1, 1, 1>>), File(0, 2, 3, <<1, 2, 2>>)}

Sub(interval, source) == [interval |-> interval, source |-> source]

MCConfigs ==
  [sectors  |-> [i \in SectorItems |-> Sub(0, "")],
   session  |-> [i \in SessionItems |-> Sub(0, "")] @@ [i \in SectorItems |-> Sub(2, "")],
   two_laps |-> (LifeDelta :> Sub(0, "fast")) @@ (LifeInterpolated :> Sub(2, "slow"))
                  @@ (LifePredicted :> Sub(3, "gone")),
   one_lap  |-> (LifeDelta :> Sub(0, "slow")) @@ (LifeInterpolated :> Sub(0, "slow"))]

(* The laps and the files are of the kind whose deltas are true.           *)
ASSUME LapsGoForward == GoForward
=============================================================================
