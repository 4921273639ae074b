--------------------------- MODULE TelemetryProofs ---------------------------
(***************************************************************************)
(* Proofs about Telemetry: what the C3 is shown of the readings, whichever *)
(* frames are followed and whatever samples arrive between any two fields. *)
(***************************************************************************)
EXTENDS Telemetry, TLAPS

-----------------------------------------------------------------------------
(* The inductive invariant *)

(* The place of a field in the order of the part that goes on.            *)
Place(f) == IF at = "collect" THEN ReadAt(f) ELSE PublishAt(f)

(* What is left of a part is its end.                                      *)
LeftInv ==
  /\ at \in {"rest", "collect", "publish"}
  /\ left \subseteq Watched
  /\ \A f \in left : \A g \in Watched : Place(f) < Place(g) => g \in left

AgeInv ==
  /\ taken \in [Watched -> 0 .. MaxAge] /\ od \in [Watched -> 0 .. MaxAge]
  /\ delivered \in [WatchedSources -> 0 .. MaxAge]
  /\ \A f \in Watched : taken[f] <= od[f]

Fresh(f) == taken[f] <= delivered[f[1]]     \* its source's latest during the iteration
Shown(f) == od[f] = taken[f]

(* What the iteration has read so far is fresh, and what it has published  *)
(* is what it read.                                                        *)
IterationInv ==
  /\ at = "rest" => \A f \in Watched : Fresh(f) /\ Shown(f)
  /\ at = "collect" => \A f \in Watched \ left : Fresh(f)
  /\ at = "publish" => /\ \A f \in Watched : Fresh(f)
                       /\ \A f \in Watched \ left : Shown(f)

(* Two fields of a source that are read in this order are torn only from   *)
(* when the first is read until the other is, or while they are published. *)
InOrder(g, f) == g[1] = f[1] /\ ReadAt(g) < ReadAt(f)

Between(g, f) == at = "collect" /\ g \notin left /\ f \in left

OrderInv ==
  \A g, f \in Watched : InOrder(g, f) =>
    /\ Between(g, f) \/ taken[f] <= taken[g]
    /\ at = "publish" \/ od[f] <= od[g]

TelemetryInv == LeftInv /\ AgeInv /\ IterationInv /\ OrderInv

-----------------------------------------------------------------------------
LEMMA AgeBound == MaxAge \in Nat /\ MaxAge >= 1
  BY TelemetryAssumption

LEMMA OlderAges ==
  ASSUME NEW a \in 0 .. MaxAge, NEW b \in 0 .. MaxAge, a <= b
  PROVE  Older(a) \in 0 .. MaxAge /\ Older(a) <= Older(b)
  BY AgeBound DEF Older

LEMMA WatchedSource == \A f \in Watched : f[1] \in WatchedSources
  BY DEF WatchedSources

LEMMA PlaceType == \A f \in Watched : ReadAt(f) \in Nat /\ PublishAt(f) \in Nat
  <1> SUFFICES ASSUME NEW f \in Readings PROVE ReadAt(f) \in Nat /\ PublishAt(f) \in Nat
    BY TelemetryAssumption
  <1>1. CASE f \in {"accel", "gyro"} \X DOMAIN Six
    <2>1. PICK s \in {"accel", "gyro"}, c \in {"x", "y", "z", "x_raw", "y_raw", "z_raw"} : f = <<s, c>>
      BY <1>1 DEF Six
    <2>2. Six[c] \in Nat /\ GyroOrder[c] \in Nat
      BY <2>1 DEF Six, GyroOrder
    <2> QED
      BY <2>1, <2>2 DEF ReadAt, PublishAt
  <1>2. CASE f = <<"temp", "temp">>
    BY <1>2 DEF ReadAt, PublishAt
  <1>3. CASE f \in {MagName(k) : k \in Mags} \X DOMAIN Vector
    <2>1. PICK s \in {"mag0", "mag1"}, c \in {"x", "y", "z"} : f = <<s, c>>
      BY <1>3 DEF Vector, MagName
    <2>2. Vector[c] \in Nat /\ MagOrder[c] \in Nat
      BY <2>1 DEF Vector, MagOrder
    <2> QED
      BY <2>1, <2>2 DEF ReadAt, PublishAt
  <1> QED
    BY <1>1, <1>2, <1>3 DEF Readings

LEMMA TelemetryInitInv == TelemetryInit => TelemetryInv
  <1> SUFFICES ASSUME TelemetryInit PROVE TelemetryInv
    OBVIOUS
  <1>1. LeftInv
    BY DEF TelemetryInit, LeftInv
  <1>2. \A f \in Watched : taken[f] = 0 /\ od[f] = 0 /\ delivered[f[1]] = 0
    BY WatchedSource DEF TelemetryInit
  <1>3. AgeInv
    BY <1>2, AgeBound DEF TelemetryInit, AgeInv
  <1>4. IterationInv
    BY <1>2 DEF TelemetryInit, IterationInv, Fresh, Shown
  <1>5. OrderInv
    BY <1>2 DEF TelemetryInit, OrderInv
  <1> QED
    BY <1>1, <1>3, <1>4, <1>5 DEF TelemetryInv

-----------------------------------------------------------------------------
(* Samples arrive: every age of the source grows alike.                    *)
LEMMA DeliversStep ==
  ASSUME TelemetryInv, NEW s, Delivers(s), UNCHANGED thread
  PROVE  TelemetryInv'
  <1> DEFINE Ages(f) == /\ taken'[f] = IF f[1] = s THEN Older(taken[f]) ELSE taken[f]
                        /\ od'[f] = IF f[1] = s THEN Older(od[f]) ELSE od[f]
                        /\ delivered'[f[1]] = IF f[1] = s THEN Older(delivered[f[1]]) ELSE delivered[f[1]]
  <1>1. \A f \in Watched : Ages(f)
    BY WatchedSource DEF Delivers
  <1>2. \A f \in Watched : taken[f] \in 0 .. MaxAge /\ od[f] \in 0 .. MaxAge /\ delivered[f[1]] \in 0 .. MaxAge
    BY WatchedSource DEF TelemetryInv, AgeInv
  <1>3. at' = at /\ left' = left
    BY DEF thread
  <1>4. \A f \in Watched : (Fresh(f) => Fresh(f)') /\ (Shown(f) => Shown(f)')
    BY <1>1, <1>2, OlderAges DEF Fresh, Shown
  <1>5. LeftInv'
    BY <1>3 DEF TelemetryInv, LeftInv, Place
  <1>6. AgeInv'
    <2>1. /\ taken' \in [Watched -> 0 .. MaxAge] /\ od' \in [Watched -> 0 .. MaxAge]
          /\ delivered' \in [WatchedSources -> 0 .. MaxAge]
      BY OlderAges DEF Delivers, TelemetryInv, AgeInv
    <2>2. \A f \in Watched : taken'[f] <= od'[f]
      BY <1>1, <1>2, OlderAges DEF TelemetryInv, AgeInv
    <2> QED
      BY <2>1, <2>2 DEF AgeInv
  <1>7. IterationInv'
    BY <1>3, <1>4, WatchedSource DEF TelemetryInv, IterationInv
  <1>8. OrderInv'
    <2> SUFFICES ASSUME NEW g \in Watched, NEW f \in Watched, InOrder(g, f)
                 PROVE  /\ Between(g, f)' \/ taken'[f] <= taken'[g]
                        /\ at' = "publish" \/ od'[f] <= od'[g]
      BY DEF OrderInv, InOrder
    <2>1. Between(g, f) => Between(g, f)'
      BY <1>3 DEF Between
    <2>2. /\ Between(g, f) \/ taken[f] <= taken[g]
          /\ at = "publish" \/ od[f] <= od[g]
      BY DEF TelemetryInv, OrderInv
    <2>3. taken[f] <= taken[g] => taken'[f] <= taken'[g]
      BY <1>1, <1>2, OlderAges DEF InOrder
    <2>4. od[f] <= od[g] => od'[f] <= od'[g]
      BY <1>1, <1>2, OlderAges DEF InOrder
    <2> QED
      BY <1>3, <2>1, <2>2, <2>3, <2>4
  <1> QED
    BY <1>5, <1>6, <1>7, <1>8 DEF TelemetryInv

(* A step that leaves the ages and the magnetorquer thread alone.          *)
LEMMA TelemetryFrame ==
  ASSUME TelemetryInv, UNCHANGED <<thread, taken, od, delivered>>
  PROVE  TelemetryInv'
  BY DEF TelemetryInv, thread, LeftInv, Place, AgeInv, IterationInv, Fresh, Shown, OrderInv, InOrder, Between

-----------------------------------------------------------------------------
(* The magnetorquer thread *)

LEMMA BeginStep == TelemetryInv /\ BeginIteration => TelemetryInv'
  <1> SUFFICES ASSUME TelemetryInv, BeginIteration PROVE TelemetryInv'
    OBVIOUS
  <1>1. at = "rest" /\ at' = "collect" /\ left' = Watched /\ taken' = taken /\ od' = od
    BY DEF BeginIteration
  <1>2. delivered' \in [WatchedSources -> 0 .. MaxAge]
    BY AgeBound DEF BeginIteration
  <1>3. LeftInv'
    BY <1>1 DEF LeftInv
  <1>4. AgeInv'
    BY <1>1, <1>2 DEF TelemetryInv, AgeInv
  <1>5. IterationInv'
    BY <1>1 DEF IterationInv
  <1>6. OrderInv'
    BY <1>1 DEF TelemetryInv, OrderInv, InOrder, Between
  <1> QED
    BY <1>3, <1>4, <1>5, <1>6 DEF TelemetryInv

(* Taking the first field off what is left leaves an end again.            *)
LEMMA TakeOffLeft ==
  ASSUME TelemetryInv, NEW f \in left, NEW part \in {"rest", "publish"}, NEW fields \in {{}, Watched},
         \A g \in left : Place(f) <= Place(g), TakeOff(f, part, fields)
  PROVE  LeftInv'
  <1>1. CASE left = {f}
    BY <1>1 DEF TakeOff, LeftInv
  <1>2. CASE left # {f}
    <2>1. at' = at /\ left' = left \ {f} /\ left \subseteq Watched /\ at \in {"rest", "collect", "publish"}
      BY <1>2 DEF TakeOff, TelemetryInv, LeftInv
    <2>2. ASSUME NEW g \in left', NEW h \in Watched, Place(g) < Place(h) PROVE h \in left'
      <3>1. Place(f) <= Place(g) /\ h \in left
        BY <2>1, <2>2 DEF TelemetryInv, LeftInv
      <3>2. Place(f) \in Nat /\ Place(g) \in Nat /\ Place(h) \in Nat
        BY <2>1, PlaceType DEF Place
      <3>3. h # f
        BY <2>2, <3>1, <3>2
      <3> QED
        BY <2>1, <3>1, <3>3
    <2> QED
      BY <2>1, <2>2 DEF LeftInv, Place
  <1> QED
    BY <1>1, <1>2

LEMMA CollectStep == TelemetryInv /\ CollectField => TelemetryInv'
  <1> SUFFICES ASSUME TelemetryInv, CollectField PROVE TelemetryInv'
    OBVIOUS
  <1>1. PICK f \in left : /\ \A g \in left : ReadAt(f) <= ReadAt(g)
                          /\ TakeOff(f, "publish", Watched)
                          /\ taken' = [taken EXCEPT ![f] = 0]
    BY DEF CollectField
  <1>2. at = "collect" /\ od' = od /\ delivered' = delivered /\ f \in Watched /\ left \subseteq Watched
    BY DEF CollectField, TelemetryInv, LeftInv
  <1>3. \/ left = {f} /\ at' = "publish" /\ left' = Watched
        \/ left # {f} /\ at' = "collect" /\ left' = left \ {f}
    BY <1>1, <1>2 DEF TakeOff
  <1>4. \A g \in Watched : taken'[g] = IF g = f THEN 0 ELSE taken[g]
    BY <1>1, <1>2 DEF TelemetryInv, AgeInv
  <1>5. \A g \in Watched : taken[g] \in 0 .. MaxAge /\ od[g] \in 0 .. MaxAge /\ delivered[g[1]] \in 0 .. MaxAge
    BY WatchedSource DEF TelemetryInv, AgeInv
  <1>6. LeftInv'
    BY <1>1, <1>2, TakeOffLeft DEF Place
  <1>7. AgeInv'
    <2>1. taken \in [Watched -> 0 .. MaxAge] /\ 0 \in 0 .. MaxAge
      BY AgeBound DEF TelemetryInv, AgeInv
    <2>2. taken' \in [Watched -> 0 .. MaxAge]
      BY <1>1, <2>1
    <2> QED
      BY <1>2, <1>4, <1>5, <2>2 DEF TelemetryInv, AgeInv
  <1>8. IterationInv'
    <2>1. \A g \in (Watched \ left) \cup {f} : Fresh(g)'
      BY <1>2, <1>4, <1>5 DEF TelemetryInv, IterationInv, Fresh
    <2> QED
      BY <1>2, <1>3, <2>1 DEF IterationInv
  <1>9. OrderInv'
    <2> SUFFICES ASSUME NEW g \in Watched, NEW h \in Watched, InOrder(g, h)
                 PROVE  /\ Between(g, h)' \/ taken'[h] <= taken'[g]
                        /\ at' = "publish" \/ od'[h] <= od'[g]
      BY DEF OrderInv, InOrder
    <2>1. (Between(g, h) \/ taken[h] <= taken[g]) /\ od[h] <= od[g]
      BY <1>2 DEF TelemetryInv, OrderInv
    <2>2. CASE h = f
      BY <1>2, <1>4, <1>5, <2>1, <2>2
    <2>3. CASE h # f /\ g = f
      <3>1. h \in left
        BY <1>2, <2>3 DEF TelemetryInv, LeftInv, Place, InOrder
      <3> QED
        BY <1>2, <1>3, <2>1, <2>3, <3>1 DEF Between
    <2>4. CASE h # f /\ g # f
      BY <1>2, <1>3, <1>4, <2>1, <2>4 DEF Between
    <2> QED
      BY <2>2, <2>3, <2>4
  <1> QED
    BY <1>6, <1>7, <1>8, <1>9 DEF TelemetryInv

LEMMA PublishStep ==
  TelemetryInv /\ PublishField => TelemetryInv' /\ \A f \in Watched : od'[f] <= od[f]
  <1> SUFFICES ASSUME TelemetryInv, PublishField
               PROVE  TelemetryInv' /\ \A f \in Watched : od'[f] <= od[f]
    OBVIOUS
  <1>1. PICK f \in left : /\ \A g \in left : PublishAt(f) <= PublishAt(g)
                          /\ TakeOff(f, "rest", {})
                          /\ od' = [od EXCEPT ![f] = taken[f]]
    BY DEF PublishField
  <1>2. at = "publish" /\ taken' = taken /\ delivered' = delivered /\ f \in Watched /\ left \subseteq Watched
    BY DEF PublishField, TelemetryInv, LeftInv
  <1>3. \/ left = {f} /\ at' = "rest" /\ left' = {}
        \/ left # {f} /\ at' = "publish" /\ left' = left \ {f}
    BY <1>1, <1>2 DEF TakeOff
  <1>4. \A g \in Watched : od'[g] = IF g = f THEN taken[g] ELSE od[g]
    BY <1>1, <1>2 DEF TelemetryInv, AgeInv
  <1>5. \A g \in Watched : /\ taken[g] \in 0 .. MaxAge /\ od[g] \in 0 .. MaxAge
                           /\ delivered[g[1]] \in 0 .. MaxAge /\ taken[g] <= od[g]
    BY WatchedSource DEF TelemetryInv, AgeInv
  <1>6. LeftInv'
    BY <1>1, <1>2, TakeOffLeft DEF Place
  <1>7. AgeInv'
    <2>1. od' \in [Watched -> 0 .. MaxAge]
      BY <1>1, <1>2, <1>5 DEF TelemetryInv, AgeInv
    <2> QED
      BY <1>2, <1>4, <1>5, <2>1 DEF TelemetryInv, AgeInv
  <1>8. IterationInv'
    <2>1. \A g \in Watched : Fresh(g)'
      BY <1>2 DEF TelemetryInv, IterationInv, Fresh
    <2>2. \A g \in (Watched \ left) \cup {f} : Shown(g)'
      BY <1>2, <1>4 DEF TelemetryInv, IterationInv, Shown
    <2> QED
      BY <1>2, <1>3, <2>1, <2>2 DEF IterationInv
  <1>9. OrderInv'
    <2> SUFFICES ASSUME NEW g \in Watched, NEW h \in Watched, InOrder(g, h)
                 PROVE  /\ Between(g, h)' \/ taken'[h] <= taken'[g]
                        /\ at' = "publish" \/ od'[h] <= od'[g]
      BY DEF OrderInv, InOrder
    <2>1. taken[h] <= taken[g]
      BY <1>2 DEF TelemetryInv, OrderInv, Between
    <2>2. at' = "rest" => od'[g] = taken[g] /\ od'[h] = taken[h]
      BY <1>2, <1>3, <1>4 DEF TelemetryInv, IterationInv, Shown
    <2> QED
      BY <1>2, <1>3, <2>1, <2>2
  <1>10. \A g \in Watched : od'[g] <= od[g]
    BY <1>4, <1>5
  <1> QED
    BY <1>6, <1>7, <1>8, <1>9, <1>10 DEF TelemetryInv

-----------------------------------------------------------------------------
LEMMA TelemetryStep == TelemetryInv /\ [TelemetryNext]_<<vars, telemetry>> => TelemetryInv'
  <1> SUFFICES ASSUME TelemetryInv, [TelemetryNext]_<<vars, telemetry>> PROVE TelemetryInv'
    OBVIOUS
  <1>1. CASE MagStep
    BY <1>1, DeliversStep, TelemetryFrame DEF MagStep
  <1>2. CASE MagFault
    BY <1>2, TelemetryFrame DEF MagFault, telemetry
  <1>3. CASE Imu
    BY <1>3, DeliversStep, TelemetryFrame DEF Imu, ImuAccel, ImuGyro, ImuTemp, ImuReads
  <1>4. CASE Iteration
    BY <1>4, BeginStep, CollectStep, PublishStep DEF Iteration
  <1>5. CASE UNCHANGED <<vars, telemetry>>
    BY <1>5, TelemetryFrame DEF telemetry
  <1> QED
    BY <1>1, <1>2, <1>3, <1>4, <1>5 DEF TelemetryNext

(* Whatever arrives while an iteration collects and publishes, what it     *)
(* leaves in the dictionary was its source's latest during the iteration.  *)
THEOREM LatestTheorem == TelemetrySpec => []LatestDuringIteration
  <1>1. TelemetryInv => LatestDuringIteration
    <2> SUFFICES ASSUME TelemetryInv, at = "rest", NEW f \in Watched PROVE od[f] <= delivered[f[1]]
      BY DEF LatestDuringIteration
    <2> QED
      BY DEF TelemetryInv, IterationInv, Fresh, Shown
  <1> QED
    BY <1>1, TelemetryInitInv, TelemetryStep, PTL DEF TelemetrySpec

(* A vector of a magnetometer is torn in one direction only.               *)
THEOREM TornOneWayTheorem == TelemetrySpec => []TornOneWay
  <1>1. \A k \in Mags : /\ InOrder(<<MagName(k), "y">>, <<MagName(k), "x">>)
                        /\ InOrder(<<MagName(k), "x">>, <<MagName(k), "z">>)
    <2>1. MagOrder["y"] = 1 /\ MagOrder["x"] = 2 /\ MagOrder["z"] = 3
      BY DEF MagOrder
    <2> QED
      BY <2>1 DEF InOrder, ReadAt, MagName
  <1>2. TelemetryInv => TornOneWay
    BY <1>1 DEF TelemetryInv, OrderInv, TornOneWay, OdLocked, NotOlder
  <1> QED
    BY <1>2, TelemetryInitInv, TelemetryStep, PTL DEF TelemetrySpec

(* No step of the magnetorquer thread replaces what the dictionary shows   *)
(* by an older reading.                                                    *)
THEOREM NeverBackwardsTheorem == TelemetrySpec => NeverBackwards
  <1>1. ASSUME TelemetryInv, [TelemetryNext]_<<vars, telemetry>>
        PROVE  [thread' # thread => \A f \in Watched : od'[f] <= od[f]]_<<vars, telemetry>>
    <2> SUFFICES ASSUME thread' # thread PROVE \A f \in Watched : od'[f] <= od[f]
      OBVIOUS
    <2>1. Iteration
      BY <1>1 DEF TelemetryNext, MagStep, MagFault, telemetry, Imu, ImuAccel, ImuGyro, ImuTemp, ImuReads
    <2>2. CASE od' = od
      BY <1>1, <2>2 DEF TelemetryInv, AgeInv
    <2>3. CASE PublishField
      BY <1>1, <2>3, PublishStep
    <2> QED
      BY <2>1, <2>2, <2>3 DEF Iteration, BeginIteration, CollectField
  <1> QED
    BY <1>1, TelemetryInitInv, TelemetryStep, PTL DEF TelemetrySpec, NeverBackwards
=============================================================================
