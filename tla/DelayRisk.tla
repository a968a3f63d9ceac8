----------------------------- MODULE DelayRisk -----------------------------
(***************************************************************************)
(* The delay-risk score of a weather observation.  A reading the report    *)
(* does not carry is Missing.  Wind is resolved on the runway with the     *)
(* strongest headwind; a component of the wind is in tenths of a knot,     *)
(* rounded as the code rounds it, from the sine of the angle in percent.   *)
(***************************************************************************)
EXTENDS Integers, Sequences, FiniteSets, FiniteSetsExt, SequencesExt

Missing == -1

\* The angles between wind and runway this model tells apart, in degrees.
SinePercent == [a \in {0, 30, 60, 90, 120, 150, 180} |->
                   CASE a \in {0, 180} -> 0 [] a \in {30, 150} -> 50
                     [] a \in {60, 120} -> 87 [] a = 90 -> 100]
CosinePercent == [a \in DOMAIN SinePercent |->
                   IF a <= 90 THEN SinePercent[90 - a] ELSE -SinePercent[a - 90]]

\* abs((direction - heading + 180) % 360 - 180)
Angle(direction, heading) ==
    LET turn == ((direction - heading + 180) % 360) - 180
    IN  IF turn < 0 THEN -turn ELSE turn

Tenths(wind, percent) == (wind * percent + 5) \div 10
CrosswindTenths(wind, angle) == Tenths(wind, SinePercent[angle])
HeadwindTenths(wind, angle)  == Tenths(wind, CosinePercent[angle])

\* select_runway: the active runway with the strongest headwind, by name on a tie.
\* runways is a sequence in the order of the designators.
ActiveRunways(runways) == {k \in DOMAIN runways : runways[k].active}

SelectRunway(runways, wind, direction) ==
    LET Into(k) == HeadwindTenths(wind, Angle(direction, runways[k].heading))
        best    == {k \in ActiveRunways(runways) :
                      \A j \in ActiveRunways(runways) : Into(j) <= Into(k)}
    IN  IF best = {} \/ wind = Missing \/ direction = Missing THEN 0 ELSE Min(best)

-----------------------------------------------------------------------------
(* DelayRiskRuleset.  A band is <<limit, points>>; the first that matches  *)
(* counts.                                                                 *)

DefaultBands ==
    [visibility |-> << <<550, 34>>, <<800, 30>>, <<1500, 20>>, <<3000, 11>>, <<5000, 5>> >>,
     ceiling    |-> << <<200, 30>>, <<500, 26>>, <<1000, 22>>, <<1500, 12>>, <<3000, 5>> >>,
     wind       |-> << <<45, 18>>, <<35, 14>>, <<25, 10>>, <<18, 7>>, <<12, 3>> >>,
     crosswind  |-> << <<30, 24>>, <<25, 19>>, <<20, 14>>, <<15, 9>>, <<10, 5>> >>,
     precipitation |-> [thunderstorm |-> 20, hail |-> 20, freezing_rain |-> 18, snow |-> 16,
                        ice_pellets |-> 14, showers |-> 12, rain |-> 11,
                        unknown_precipitation |-> 6, drizzle |-> 4],
     lowVisibility |-> 1500, lowCeiling |-> 1000, compounding |-> 10]

Pick(bands, k) == IF k = 0 THEN 0 ELSE bands[k][2]

PointsBelow(bands, value) ==
    LET Matches(band) == value <= band[1] IN Pick(bands, SelectInSeq(bands, Matches))

\* Bands of the crosswind are in knots, the component in tenths.
PointsAbove(bands, value, scale) ==
    LET Matches(band) == value >= band[1] * scale IN Pick(bands, SelectInSeq(bands, Matches))

LevelFor(index) ==
    CASE index <= 24 -> "low" [] index \in 25..49 -> "elevated"
      [] index \in 50..74 -> "high" [] index > 74 -> "severe"

\* The points of each factor; a reading nobody took contributes nothing.
RiskPoints(w, runway, bands) ==
    [visibility |-> IF w.visibility = Missing THEN 0
                    ELSE PointsBelow(bands.visibility, w.visibility),
     ceiling    |-> IF w.ceiling = Missing THEN 0 ELSE PointsBelow(bands.ceiling, w.ceiling),
     wind       |-> IF w.wind = Missing THEN 0 ELSE PointsAbove(bands.wind, w.wind, 1),
     crosswind  |-> IF runway.angle = Missing THEN 0
                    ELSE PointsAbove(bands.crosswind, CrosswindTenths(w.wind, runway.angle), 10),
     precipitation |-> IF w.precipitation \in DOMAIN bands.precipitation
                       THEN bands.precipitation[w.precipitation] ELSE 0,
     together   |-> IF /\ w.visibility # Missing /\ w.visibility <= bands.lowVisibility
                       /\ w.ceiling # Missing /\ w.ceiling <= bands.lowCeiling
                    THEN bands.compounding ELSE 0]

MissingReadings(w, runways, chosen) ==
    {r \in {"visibility", "wind"} : w[r] = Missing}
        \cup (IF chosen = 0 /\ w.direction = Missing THEN {"direction"} ELSE {})
        \cup (IF chosen = 0 /\ runways = <<>> THEN {"runways"} ELSE {})

\* assess
AssessRisk(w, runways, bands, threshold) ==
    LET chosen == SelectRunway(runways, w.wind, w.direction)
        angle  == IF chosen = 0 THEN Missing ELSE Angle(w.direction, runways[chosen].heading)
        points == RiskPoints(w, [angle |-> angle], bands)
        Of(f)  == points[f]
        index  == Min({100, MapThenSumSet(Of, DOMAIN points)})
    IN  [index |-> index, level |-> LevelFor(index), runway |-> chosen,
         missing     |-> MissingReadings(w, runways, chosen),
         recommended |-> index >= threshold]

\* DelayRiskService.execute: without wind or visibility the score goes to a person.
RiskStatus(assessment) ==
    IF assessment.missing \cap {"visibility", "wind"} = {} THEN "success" ELSE "needs_human"
=============================================================================
