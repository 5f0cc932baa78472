----------------------- MODULE StateTransfer_proofs ---------------------------
(* Proofs about StateTransfer and the operators that it moves.                *)
EXTENDS StateTransfer, SequenceTheorems, FiniteSetTheorems, WellFoundedInduction, TLAPS

LEMMA SquareIsNat == ASSUME NEW d \in Int PROVE Square(d) \in Nat
<1>1. CASE d >= 0
  BY <1>1, Z3 DEF Square
<1>2. CASE d < 0
  BY <1>2, Z3 DEF Square
<1> QED BY <1>1, <1>2

LEMMA EwmaIsNat == ASSUME NEW m \in Nat, NEW x \in Nat PROVE Ewma(m, x) \in Nat
BY DEF Ewma

\* The fields that are counted with are numbers.
LEMMA NumbersAre ==
  /\ "AnomalyDetector" \in Moved => \A r \in Inputs["AnomalyDetector"] : Field(r, "value", 0) \in Int
  /\ "FeatureAggWindow" \in Moved =>
       \A r \in Inputs["FeatureAggWindow"] : Field(r, "normalized_value", 0) \in Int
  /\ "NormalizerOperator" \in Moved =>
       \A r \in Inputs["NormalizerOperator"] : Field(r, "sensor_value", 0) \in Int
  /\ "StatAggregator" \in Moved => \A r \in Inputs["StatAggregator"] : Field(r, "value", 0) \in Int
  /\ "RiskCheck" \in Moved => \A r \in Inputs["RiskCheck"] : Field(r, "exposure", 0) \in Int
BY NumbersAssumption DEF Numbers

\* A deviation is compared with a variance that already contains a fifth of its
\* square, so it is never more than sqrt(5) standard deviations: no value
\* whatever is an anomaly (workloads/w3/anomaly.py, process, with the alpha and
\* z_threshold that dag.py leaves at their defaults).
THEOREM NeverAnAnomaly == \A m2 \in Nat, d \in Int : ~ IsAnomaly(m2, d)
<1> TAKE m2 \in Nat, d \in Int
<1>1. Square(d) \in Nat
  BY SquareIsNat
<1> QED BY <1>1 DEF IsAnomaly
-----------------------------------------------------------------------------
\* What the detector has counted and what it measures with.
Quiet(s) == s.mean \in Int /\ s.m2 \in Nat /\ s.count = 0

Detecting ==
  /\ kind \in Moved
  /\ kind = "AnomalyDetector" => Quiet(live) /\ Quiet(edge)
\* A new instance has counted nothing.
LEMMA FreshIsQuiet == Quiet(Fresh("AnomalyDetector", 0))
<1>1. Fresh("AnomalyDetector", 0) = AnomalyState
  BY DEF Fresh, NewAnomaly
<1> QED BY <1>1, TransferAssumption DEF Quiet, AnomalyState

\* A new instance that takes over has the saved figures.
LEMMA RestoredIsQuiet ==
  ASSUME NEW s, NEW now, Quiet(s)
  PROVE  Quiet(RestoreState("AnomalyDetector", GetState("AnomalyDetector", s), now))
<1> DEFINE empty == <<>>
           new == RestoreState("AnomalyDetector", GetState("AnomalyDetector", s), now)
<1>1. Reset("AnomalyDetector", now) = empty
  BY DEF Reset
<1>2. Saved("AnomalyDetector") = AnomalyState
  BY DEF Saved
<1>3. DOMAIN empty = {}
  OBVIOUS
<1>4. DOMAIN AnomalyState = {"mean", "m2", "count", "recent"}
  BY DEF AnomalyState
<1>5. \A f \in {"mean", "m2", "count"} : new[f] = s[f]
  BY <1>1, <1>2, <1>3, <1>4 DEF RestoreState, GetState, Over, Field, Restrict
<1> QED BY <1>5 DEF Quiet

\* A value changes the average and the variance, never the count.
LEMMA ValueKeepsQuiet ==
  ASSUME NEW s, NEW r, NEW now, Quiet(s), Field(r, "value", 0) \in Int
  PROVE  Quiet(Process("AnomalyDetector", s, r, now).state)
<1> DEFINE x == Field(r, "value", 0)
           d == x - s.mean
<1>1. Process("AnomalyDetector", s, r, now) = Anomaly(s, r)
  BY DEF Process
<1>2. s.mean \in Int /\ s.m2 \in Nat /\ s.count = 0 /\ d \in Int
  BY DEF Quiet
<1>3. ~ IsAnomaly(s.m2, d)
  BY <1>2, NeverAnAnomaly
<1>4. Ewma(s.m2, Square(d)) \in Nat
  BY <1>2, SquareIsNat, EwmaIsNat
<1>5. Ewma(s.mean, x) \in Int
  BY <1>2 DEF Ewma
<1>6. /\ Anomaly(s, r).state.mean = Ewma(s.mean, x)
      /\ Anomaly(s, r).state.m2 = Ewma(s.m2, Square(d))
      /\ Anomaly(s, r).state.count = 0
  BY <1>2, <1>3 DEF Anomaly
<1> QED BY <1>1, <1>4, <1>5, <1>6 DEF Quiet

LEMMA DetectingInit == Init => Detecting
BY FreshIsQuiet DEF Init, Detecting

LEMMA DetectingNext ==
  ASSUME Detecting, [Next]_vars
  PROVE  Detecting'
<1>1. CASE Arrive
  <2>1. PICK input \in Inputs[kind] :
          LET r == Over(input, [timestamp |-> clock])
          IN  /\ live' = Process(kind, live, r, clock).state
              /\ edge' = Process(kind, edge, r, clock).state
    BY <1>1 DEF Arrive
  <2> DEFINE r == Over(input, [timestamp |-> clock])
  <2>2. ASSUME kind = "AnomalyDetector" PROVE Field(r, "value", 0) \in Int
    <3>1. Field(input, "value", 0) \in Int
      BY <2>2, NumbersAre DEF Detecting
    <3>2. Field(r, "value", 0) = Field(input, "value", 0)
      BY DEF Field, Over
    <3> QED BY <3>1, <3>2
  <2>3. kind' = kind
    BY <1>1 DEF Arrive
  <2> QED BY <2>1, <2>2, <2>3, ValueKeepsQuiet DEF Detecting
<1>2. CASE HandOver
  BY <1>2, RestoredIsQuiet DEF HandOver, Detecting
<1>3. CASE UNCHANGED <<kind, live, edge>>
  BY <1>3 DEF Detecting
<1>4. CASE Tick \/ TakeSnapshot \/ Damage \/ OpenJob \/ FlinkStep \/ UNCHANGED vars
  BY <1>3, <1>4 DEF Tick, TakeSnapshot, Damage, OpenJob, FlinkStep, vars
<1> QED BY <1>1, <1>2, <1>4 DEF Next

\* However often it is handed over, and whatever it reads, the detector counts no
\* anomaly (workloads/w3/anomaly.py, process, get_state and restore_state).
THEOREM DetectorNeverFires == Spec => []DetectorIsSilent
<1>1. Detecting => DetectorIsSilent
  BY DEF Detecting, Quiet, DetectorIsSilent
<1> QED BY DetectingInit, DetectingNext, <1>1, PTL DEF Spec
-----------------------------------------------------------------------------
(* Hand-overs.                                                                *)

\* A state of a class that is restored in full: a function of its saved fields.
Whole(k, s) == s = [f \in DOMAIN Saved(k) |-> s[f]]

Continuing ==
  /\ kind \in Moved
  /\ kind \notin Lossy => Whole(kind, edge)
  /\ Continuity

\* What is saved is all there is, and it is read back.
LEMMA RestoredIsSame ==
  ASSUME NEW k \in Kinds \ Lossy, NEW s, NEW now, Whole(k, s)
  PROVE  RestoreState(k, GetState(k, s), now) = s
<1> DEFINE D == DOMAIN Saved(k)
           g == GetState(k, s)
           fields == [f \in D |-> Field(g, f, Saved(k)[f])]
           empty == <<>>
<1>1. Reset(k, now) = empty
  BY DEF Reset, Kinds, Lossy
<1>2. DOMAIN s = D
  BY DEF Whole
<1>3. DOMAIN g = D /\ \A f \in D : g[f] = s[f]
  BY <1>2 DEF GetState, Restrict
<1>4. \A f \in D : Field(g, f, Saved(k)[f]) = s[f]
  BY <1>3 DEF Field
<1>5. fields = s
  BY <1>4 DEF Whole
<1>6. DOMAIN empty = {}
  OBVIOUS
<1>7. Over(empty, fields) = [f \in {} \union D |-> fields[f]]
  BY <1>6 DEF Over
<1>8. Over(empty, fields) = s
  BY <1>5, <1>7 DEF Whole
<1> QED BY <1>1, <1>8 DEF RestoreState

\* A new instance has the saved fields.
LEMMA FreshIsWhole == \A k \in Kinds \ Lossy : Whole(k, Fresh(k, 0))
<1> SUFFICES ASSUME NEW k \in Kinds \ Lossy PROVE Whole(k, Fresh(k, 0))
  OBVIOUS
<1>1. CASE k = "NormalizerOperator"
  BY <1>1 DEF Whole, Saved, Fresh, NewNormalizer, NormalizerState
<1>2. CASE k = "BinaryClassifier"
  BY <1>2 DEF Whole, Saved, Fresh, NewClassifier, ClassifierState
<1>3. CASE k = "VehicleDetector"
  BY <1>3 DEF Whole, Saved, Fresh, NewDetector, DetectorState
<1>4. CASE k = "PatternDetector"
  BY <1>4 DEF Whole, Saved, Fresh, NewPattern, PatternState
<1>5. CASE k = "RiskCheck"
  BY <1>5 DEF Whole, Saved, Fresh, NewRisk, RiskState
<1>6. CASE k = "AnomalyDetector"
  BY <1>6 DEF Whole, Saved, Fresh, NewAnomaly, AnomalyState
<1>7. CASE k = "StatAggregator"
  BY <1>7 DEF Whole, Saved, Fresh, NewStat, StatState
<1>8. CASE k = "ComplianceLogger"
  BY <1>8 DEF Whole, Saved, Fresh, NewLogger, LoggerState
<1> QED BY <1>1, <1>2, <1>3, <1>4, <1>5, <1>6, <1>7, <1>8 DEF Kinds, Lossy

\* process neither adds fields nor drops any.
LEMMA ProcessKeepsWhole ==
  ASSUME NEW k \in Kinds \ Lossy, NEW s, NEW r, NEW now, Whole(k, s)
  PROVE  Whole(k, Process(k, s, r, now).state)
<1>1. CASE k = "NormalizerOperator"
  BY <1>1 DEF Whole, Saved, NormalizerState, Process, Normalizer
<1>2. CASE k = "BinaryClassifier"
  BY <1>2 DEF Whole, Process, Classifier
<1>3. CASE k = "VehicleDetector"
  BY <1>3 DEF Whole, Saved, DetectorState, Process, Detector
<1>4. CASE k = "PatternDetector"
  BY <1>4 DEF Whole, Saved, PatternState, Process, Pattern
<1>5. CASE k = "RiskCheck"
  BY <1>5 DEF Whole, Saved, RiskState, Process, Risk
<1>6. CASE k = "AnomalyDetector"
  BY <1>6 DEF Whole, Saved, AnomalyState, Process, Anomaly
<1>7. CASE k = "StatAggregator"
  BY <1>7 DEF Whole, Saved, StatState, Process, Stat
<1>8. CASE k = "ComplianceLogger"
  BY <1>8 DEF Whole, Saved, LoggerState, Process, Logger
<1> QED BY <1>1, <1>2, <1>3, <1>4, <1>5, <1>6, <1>7, <1>8 DEF Kinds, Lossy

LEMMA ContinuingInit == Init => Continuing
BY FreshIsWhole, TransferAssumption DEF Init, Continuing, Continuity

LEMMA ContinuingNext ==
  ASSUME Continuing, [Next]_vars
  PROVE  Continuing'
<1> USE DEF Continuing, Continuity
<1>0. kind' = kind /\ kind \in Kinds
  BY TransferAssumption DEF Next, Arrive, Tick, HandOver, TakeSnapshot, Damage,
     OpenJob, FlinkStep, vars
<1>1. CASE Arrive
  <2>1. PICK r :
          /\ live' = Process(kind, live, r, clock).state
          /\ edge' = Process(kind, edge, r, clock).state
          /\ said' = [live |-> Process(kind, live, r, clock).out,
                      edge |-> Process(kind, edge, r, clock).out]
    BY <1>1 DEF Arrive
  <2> QED BY <1>0, <2>1, ProcessKeepsWhole
<1>2. CASE HandOver
  <2>1. edge' = RestoreState(kind, GetState(kind, edge), clock) /\ UNCHANGED <<live, said>>
    BY <1>2 DEF HandOver
  <2>2. kind \notin Lossy => edge' = edge
    BY <1>0, <2>1, RestoredIsSame
  <2> QED BY <1>0, <2>1, <2>2
<1>3. CASE UNCHANGED <<kind, live, edge, said>>
  BY <1>3
<1>4. CASE Tick \/ TakeSnapshot \/ Damage \/ OpenJob \/ FlinkStep \/ UNCHANGED vars
  BY <1>3, <1>4 DEF Tick, TakeSnapshot, Damage, OpenJob, FlinkStep, vars
<1> QED BY <1>1, <1>2, <1>4 DEF Next

\* However often and whenever an instance of the eight classes is handed over
\* (get_state and restore_state of workloads/), it has the state and the output of
\* the one that stays.
THEOREM HandOverIsSeamless == Spec => []Continuity
<1>1. Continuing => Continuity
  BY DEF Continuing
<1> QED BY ContinuingInit, ContinuingNext, <1>1, PTL DEF Spec
-----------------------------------------------------------------------------
(* Snapshots in the object store.                                             *)

\* What may become of the stored object o.
Damages(o) ==
  {[o EXCEPT !.size = "short"], [o EXCEPT !.size = "header"], [o EXCEPT !.magic = FALSE],
   [o EXCEPT !.payload = Garbage]} \union {[o EXCEPT !.version = v] : v \in {0, 2}}

Original == Stored(kind, saved, drained)
Snapshots ==
  object \in {None, Error, Original} \/ (Original # Error /\ object \in Damages(Original))

\* There is no schema of another version.
LEMMA OneVersion == \A class, v : v \in {0, 2} => GetSchema(class, v) = Error
<1> TAKE class, v
<1>1. v \in {0, 2} => <<class, v>>[2] # 1
  OBVIOUS
<1> QED BY <1>1, SchemasAssumption DEF GetSchema

\* What is left of a snapshot cannot be read.
LEMMA DamagesAreRefused == Snapshots => DamageRefused
<1> SUFFICES ASSUME Original # Error, object \in Damages(Original)
             PROVE  /\ Deserialize(object) = Error
                    /\ object.version = 1 => JavaRestore(object, kind) = Error
  BY DEF Snapshots, DamageRefused, Original
<1>1. PICK p : Original = [size |-> "full", magic |-> TRUE, version |-> 1, payload |-> p]
  BY DEF Original, Stored, Serialize
<1>2. \/ object.size # "full" \/ ~ object.magic \/ object.payload = Garbage
      \/ object.version \in {0, 2}
  <2> DEFINE w == [size |-> "full", magic |-> TRUE, version |-> 1, payload |-> p]
  <2>1. /\ [w EXCEPT !.size = "short"].size = "short" /\ [w EXCEPT !.size = "header"].size = "header"
        /\ [w EXCEPT !.magic = FALSE].magic = FALSE /\ [w EXCEPT !.payload = Garbage].payload = Garbage
        /\ \A v : [w EXCEPT !.version = v].version = v
    OBVIOUS
  <2> HIDE DEF w
  <2> QED BY <1>1, <2>1 DEF Damages, w
<1>3. CASE object.size # "full" \/ ~ object.magic \/ object.payload = Garbage
  <2>1. object.size \in {"full", "short", "header"}
    <3> DEFINE w == [size |-> "full", magic |-> TRUE, version |-> 1, payload |-> p]
    <3>1. /\ [w EXCEPT !.size = "short"].size = "short" /\ [w EXCEPT !.size = "header"].size = "header"
          /\ [w EXCEPT !.magic = FALSE].size = "full" /\ [w EXCEPT !.payload = Garbage].size = "full"
          /\ \A v : [w EXCEPT !.version = v].size = "full"
      OBVIOUS
    <3> HIDE DEF w
    <3> QED BY <1>1, <3>1 DEF Damages, w
  <2> QED BY <1>3, <2>1 DEF Deserialize, JavaRestore, Unreadable
<1>4. CASE object.version \in {0, 2}
  BY <1>4, OneVersion DEF Deserialize
<1> QED BY <1>2, <1>3, <1>4

LEMMA SnapshotsNext ==
  ASSUME Snapshots, [Next]_vars
  PROVE  Snapshots'
<1>1. CASE TakeSnapshot
  BY <1>1 DEF TakeSnapshot, Snapshots, Original
<1>2. CASE Damage
  <2>1. object = Original /\ object # Error /\ Original' = Original
    BY <1>2 DEF Damage, Original, Stored
  <2>2. object' \in Damages(object)
    BY <1>2 DEF Damage, Damages
  <2> QED BY <2>1, <2>2 DEF Snapshots
<1>3. CASE UNCHANGED <<kind, object, saved, drained>>
  BY <1>3 DEF Snapshots, Original
<1>4. CASE Arrive \/ Tick \/ HandOver \/ OpenJob \/ FlinkStep \/ UNCHANGED vars
  BY <1>3, <1>4 DEF Arrive, Tick, HandOver, OpenJob, FlinkStep, vars
<1> QED BY <1>1, <1>2, <1>4 DEF Next

\* Whatever becomes of a migration snapshot in the store, an agent refuses it, and the
\* connector does with whatever schema files it has loaded, unless the version in the
\* header has become another one (snapshot.py:28-52, SnapshotDeserializer.java:46-82).
THEOREM DamageIsRefused == Spec => []DamageRefused
<1>1. Init => Snapshots
  BY DEF Init, Snapshots
<1> QED BY <1>1, SnapshotsNext, DamagesAreRefused, PTL DEF Spec
-----------------------------------------------------------------------------
(* What the other three classes collect.                                      *)

LEMMA NewestBounds ==
  ASSUME NEW l \in Nat, NEW n \in Nat, n > 0
  PROVE  /\ MinOf(l, n) \in Nat /\ MinOf(l, n) <= l
         /\ MaxOf(1, l - n + 1) \in 1 .. l + 1
         /\ l - MaxOf(1, l - n + 1) + 1 = MinOf(l, n)
         /\ MinOf(l + 1, n) = MinOf(MinOf(l, n) + 1, n)
         /\ MinOf(l + 1, n) \in Nat /\ MinOf(l + 1, n) > 0 /\ MinOf(l + 1, n) <= MinOf(l, n) + 1
<1>1. CASE l < n
  <2>1. MinOf(l, n) = l /\ MaxOf(1, l - n + 1) = 1 /\ MinOf(l + 1, n) = l + 1
    BY <1>1 DEF MinOf, MaxOf
  <2> QED BY <2>1
<1>2. CASE l >= n
  <2>1. MinOf(l, n) = n /\ MaxOf(1, l - n + 1) = l - n + 1 /\ MinOf(l + 1, n) = n /\ MinOf(n + 1, n) = n
    BY <1>2 DEF MinOf, MaxOf
  <2>2. l - (l - n + 1) + 1 = n /\ l - n + 1 \in 1 .. l + 1
    BY <1>2
  <2> QED BY <1>2, <2>1, <2>2
<1> QED BY <1>1, <1>2

\* w holds the last m of the l values of q.
IsEnd(w, m, q, l) ==
  /\ w \in Seq(Int) /\ Len(w) = m
  /\ \A i \in 1 .. m : w[i] = q[l - m + i]

LEMMA NewestIs ==
  ASSUME NEW q \in Seq(Int), NEW n \in Nat, n > 0,
         NEW l \in Nat, l = Len(q), NEW m \in Nat, m = MinOf(l, n)
  PROVE  IsEnd(Newest(q, n), m, q, l)
<1>2. PICK f \in 1 .. l + 1 : f = MaxOf(1, l - n + 1) /\ l - f + 1 = MinOf(l, n)
  <2>1. MaxOf(1, l - n + 1) \in 1 .. l + 1 /\ l - MaxOf(1, l - n + 1) + 1 = MinOf(l, n)
    BY NewestBounds
  <2> QED BY <2>1
<1>3. m = l - f + 1
  BY <1>2
<1>4. Newest(q, n) = SubSeq(q, f, l)
  BY <1>2 DEF Newest
<1>5. \A i \in f .. l : q[i] \in Int
  OBVIOUS
<1>6. /\ SubSeq(q, f, l) \in Seq(Int)
      /\ Len(SubSeq(q, f, l)) = IF f <= l THEN l - f + 1 ELSE 0
      /\ \A i \in 1 .. l - f + 1 : SubSeq(q, f, l)[i] = q[f + i - 1]
  BY <1>5, SubSeqProperties
<1>7. Len(SubSeq(q, f, l)) = m
  BY <1>3, <1>6
<1>8. \A i \in 1 .. m : f + i - 1 = l - m + i
  BY <1>3
<1>9. \A i \in 1 .. m : SubSeq(q, f, l)[i] = q[l - m + i]
  BY <1>3, <1>6, <1>8
<1> QED BY <1>4, <1>6, <1>7, <1>9 DEF IsEnd

\* A bounded deque holds the newest of what was appended to it.
LEMMA PushIsNewest ==
  ASSUME NEW q \in Seq(Int), NEW x \in Int, NEW n \in Nat, n > 0
  PROVE  /\ Push(Newest(q, n), x, n) = Newest(Append(q, x), n)
         /\ Newest(Append(q, x), n) \in Seq(Int) \ {<<>>}
<1>1. PICK l \in Nat : l = Len(q)
  OBVIOUS
<1>2. PICK m \in Nat : m = MinOf(l, n) /\ m <= l
  BY NewestBounds
<1>3. PICK l1 \in Nat, m1 \in Nat : l1 = l + 1 /\ m1 = m + 1
  OBVIOUS
<1>4. PICK k \in Nat : k = MinOf(l1, n) /\ k = MinOf(m1, n) /\ k > 0 /\ k <= m1
  <2>1. /\ MinOf(l + 1, n) = MinOf(MinOf(l, n) + 1, n)
        /\ MinOf(l + 1, n) \in Nat /\ MinOf(l + 1, n) > 0 /\ MinOf(l + 1, n) <= MinOf(l, n) + 1
    BY NewestBounds
  <2> QED BY <1>2, <1>3, <2>1
<1>5. k > 0 /\ k <= m1 /\ m <= l /\ l1 = l + 1 /\ m1 = m + 1
  BY <1>2, <1>3, <1>4
<1>6. PICK w \in Seq(Int) :
        /\ w = Newest(q, n) /\ Len(w) = m
        /\ \A i \in 1 .. m : w[i] = q[l - m + i]
  <2>1. IsEnd(Newest(q, n), m, q, l)
    BY <1>1, <1>2, NewestIs
  <2> QED BY <2>1 DEF IsEnd
<1>7. PICK a \in Seq(Int) :
        /\ a = Append(q, x) /\ Len(a) = l1 /\ a[l1] = x
        /\ \A i \in 1 .. l : a[i] = q[i]
  <2> DEFINE a == Append(q, x)
  <2>1. a \in Seq(Int) /\ Len(a) = Len(q) + 1 /\ a[Len(q) + 1] = x /\ \A i \in 1 .. Len(q) : a[i] = q[i]
    OBVIOUS
  <2> QED BY <1>1, <1>3, <2>1
<1>8. PICK b \in Seq(Int) :
        /\ b = Append(w, x) /\ Len(b) = m1 /\ b[m1] = x
        /\ \A i \in 1 .. m : b[i] = w[i]
  <2> DEFINE b == Append(w, x)
  <2>1. b \in Seq(Int) /\ Len(b) = Len(w) + 1 /\ b[Len(w) + 1] = x /\ \A i \in 1 .. Len(w) : b[i] = w[i]
    OBVIOUS
  <2> QED BY <1>3, <1>6, <2>1
<1>9. /\ Newest(a, n) \in Seq(Int) /\ Len(Newest(a, n)) = k
      /\ \A i \in 1 .. k : Newest(a, n)[i] = a[l1 - k + i]
  <2>1. IsEnd(Newest(a, n), k, a, l1)
    BY <1>4, <1>7, NewestIs
  <2> QED BY <2>1 DEF IsEnd
<1>10. /\ Newest(b, n) \in Seq(Int) /\ Len(Newest(b, n)) = k
       /\ \A i \in 1 .. k : Newest(b, n)[i] = b[m1 - k + i]
  <2>1. IsEnd(Newest(b, n), k, b, m1)
    BY <1>4, <1>8, NewestIs
  <2> QED BY <2>1 DEF IsEnd
<1>11. ASSUME NEW i \in 1 .. k PROVE Newest(a, n)[i] = Newest(b, n)[i]
  <2>1. CASE i = k
    <3>1. l1 - k + i = l1 /\ m1 - k + i = m1
      BY <2>1
    <3> QED BY <1>7, <1>8, <1>9, <1>10, <3>1
  <2>2. CASE i # k
    <3>1. PICK j \in 1 .. m : j = m1 - k + i
      <4>1. m1 - k + i \in 1 .. m
        BY <1>5, <2>2
      <4> QED BY <4>1
    <3>2. l - m + j \in 1 .. l /\ l - m + j = l1 - k + i
      BY <1>5, <3>1
    <3>3. Newest(b, n)[i] = q[l - m + j]
      <4>1. Newest(b, n)[i] = b[j]
        BY <1>10, <3>1
      <4> QED BY <1>6, <1>8, <4>1
    <3>4. Newest(a, n)[i] = q[l - m + j]
      <4>1. Newest(a, n)[i] = a[l - m + j]
        BY <1>9, <3>2
      <4> QED BY <1>7, <3>2, <4>1
    <3> QED BY <3>3, <3>4
  <2> QED BY <2>1, <2>2
<1>12. Newest(b, n) = Newest(a, n)
  BY <1>9, <1>10, <1>11, SeqEqual
<1>13. Push(w, x, n) = Newest(b, n)
  BY <1>8 DEF Push, Newest
<1>14. Newest(a, n) # <<>>
  BY <1>5, <1>9
<1> QED BY <1>6, <1>7, <1>9, <1>12, <1>13, <1>14
Record(k) == {Over(it[1], [timestamp |-> it[2]]) : it \in Inputs[k] \X Nat}

Collecting ==
  /\ kind \in Moved /\ clock \in Nat
  /\ seen \in Seq(Record(kind))
  /\ CollectedSurvives

\* A field that restore_state does not set to the present is as it was saved.
LEMMA RestoredKeeps ==
  ASSUME NEW k \in Kinds, NEW s, NEW now, NEW f \in DOMAIN Saved(k), f \notin DOMAIN Reset(k, now)
  PROVE  RestoreState(k, GetState(k, s), now)[f] = s[f]
<1>1. GetState(k, s)[f] = s[f] /\ f \in DOMAIN GetState(k, s)
  BY DEF GetState, Restrict
<1>2. Field(GetState(k, s), f, Saved(k)[f]) = s[f]
  BY <1>1 DEF Field
<1> QED BY <1>2 DEF RestoreState, Over

LEMMA RestoredCollections ==
  ASSUME NEW s, NEW now
  PROVE  /\ RestoreState("FeatureAggWindow", GetState("FeatureAggWindow", s), now).window = s.window
         /\ RestoreState("MultiStreamJoin", GetState("MultiStreamJoin", s), now).window = s.window
         /\ RestoreState("ZoneAggregator", GetState("ZoneAggregator", s), now).total = s.total
         /\ RestoreState("ZoneAggregator", GetState("ZoneAggregator", s), now).counts = s.counts
<1>1. /\ "window" \in DOMAIN Saved("FeatureAggWindow") /\ "window" \notin DOMAIN Reset("FeatureAggWindow", now)
      /\ "window" \in DOMAIN Saved("MultiStreamJoin") /\ "window" \notin DOMAIN Reset("MultiStreamJoin", now)
      /\ {"total", "counts"} \subseteq DOMAIN Saved("ZoneAggregator")
      /\ {"total", "counts"} \cap DOMAIN Reset("ZoneAggregator", now) = {}
  BY DEF Saved, Reset, AggregatorState, JoinState, ZoneState
<1> QED BY <1>1, RestoredKeeps DEF Kinds

\* The records so far, and one more.
LEMMA SeenGrows ==
  ASSUME NEW R, seen \in Seq(R), NEW r \in R, seen' = Append(seen, r)
  PROVE  /\ seen' \in Seq(R) /\ Len(seen) \in Nat /\ DOMAIN seen = 1 .. Len(seen)
         /\ Len(seen') = Len(seen) + 1 /\ DOMAIN seen' = 1 .. Len(seen) + 1
         /\ seen'[Len(seen) + 1] = r
         /\ \A i \in 1 .. Len(seen) : seen'[i] = seen[i]
OBVIOUS

Normal(r) == Field(r, "normalized_value", 0)

\* A field of a sequence of records.
Column(f, s) == [i \in 1 .. Len(s) |-> Field(s[i], f, 0)]

LEMMA ColumnGrows ==
  ASSUME NEW f, NEW V, NEW R, NEW s \in Seq(R), NEW r \in R, \A x \in R : Field(x, f, 0) \in V
  PROVE  /\ Column(f, Append(s, r)) = Append(Column(f, s), Field(r, f, 0))
         /\ Column(f, s) \in Seq(V) /\ Len(Column(f, s)) = Len(s)
<1>1. PICK n \in Nat : n = Len(s)
  OBVIOUS
<1>2. PICK t \in Seq(R) : t = Append(s, r) /\ Len(t) = n + 1 /\ t[n + 1] = r /\ \A i \in 1 .. n : t[i] = s[i]
  <2>1. /\ Append(s, r) \in Seq(R) /\ Len(Append(s, r)) = Len(s) + 1 /\ Append(s, r)[Len(s) + 1] = r
        /\ \A i \in 1 .. Len(s) : Append(s, r)[i] = s[i]
    OBVIOUS
  <2> QED BY <1>1, <2>1
<1>3. PICK c \in Seq(V) : c = Column(f, s) /\ Len(c) = n /\ \A i \in 1 .. n : c[i] = Field(s[i], f, 0)
  <2>1. \A i \in 1 .. n : s[i] \in R
    BY <1>1
  <2>2. Column(f, s) \in [1 .. n -> V] /\ \A i \in 1 .. n : Column(f, s)[i] = Field(s[i], f, 0)
    BY <1>1, <2>1 DEF Column
  <2> QED BY <2>2
<1>4. PICK d \in Seq(V) : d = Column(f, t) /\ Len(d) = n + 1 /\ \A i \in 1 .. n + 1 : d[i] = Field(t[i], f, 0)
  <2>1. \A i \in 1 .. n + 1 : t[i] \in R
    BY <1>2
  <2>2. Column(f, t) \in [1 .. n + 1 -> V] /\ \A i \in 1 .. n + 1 : Column(f, t)[i] = Field(t[i], f, 0)
    BY <1>2, <2>1 DEF Column
  <2> QED BY <2>2
<1>5. PICK a \in Seq(V) : a = Append(c, Field(r, f, 0)) /\ Len(a) = n + 1 /\ a[n + 1] = Field(r, f, 0) /\ \A i \in 1 .. n : a[i] = c[i]
  <2>1. /\ Append(c, Field(r, f, 0)) \in Seq(V) /\ Len(Append(c, Field(r, f, 0))) = Len(c) + 1
        /\ Append(c, Field(r, f, 0))[Len(c) + 1] = Field(r, f, 0)
        /\ \A i \in 1 .. Len(c) : Append(c, Field(r, f, 0))[i] = c[i]
    OBVIOUS
  <2> QED BY <1>3, <2>1
<1>6. \A i \in 1 .. n + 1 : a[i] = d[i]
  <2>1. TAKE i \in 1 .. n + 1
  <2>2. CASE i = n + 1
    BY <1>2, <1>4, <1>5, <2>2
  <2>3. CASE i \in 1 .. n
    BY <1>2, <1>3, <1>4, <1>5, <2>3
  <2> QED BY <2>2, <2>3
<1>7. a = d
  BY <1>4, <1>5, <1>6, SeqEqual
<1> QED BY <1>2, <1>3, <1>4, <1>5, <1>7

LEMMA WindowStays ==
  ASSUME seen \in Seq(Record("FeatureAggWindow")), "FeatureAggWindow" \in Moved, WindowKept,
         NEW r \in Record("FeatureAggWindow"), seen' = Append(seen, r), NEW now,
         edge' = Process("FeatureAggWindow", edge, r, now).state
  PROVE  WindowKept' /\ edge'.window \in Seq(Int) \ {<<>>}
<1> DEFINE q == Values("normalized_value")
<1>1. \A x \in Record("FeatureAggWindow") : Normal(x) \in Int
  <2>1. TAKE x \in Record("FeatureAggWindow")
  <2>2. PICK input \in Inputs["FeatureAggWindow"], t \in Nat : x = Over(input, [timestamp |-> t])
    BY DEF Record
  <2>3. Normal(x) = Normal(input)
    BY <2>2 DEF Normal, Field, Over
  <2> QED BY <2>3, NumbersAre DEF Normal
<1>2. \A i \in 1 .. Len(seen) : seen[i] \in Record("FeatureAggWindow")
  OBVIOUS
<1>3. q \in Seq(Int) /\ Len(q) = Len(seen) /\ \A i \in 1 .. Len(seen) : q[i] = Normal(seen[i])
  BY <1>1, <1>2 DEF Values, Normal
<1>4. q' = Append(q, Normal(r))
  <2>1. q = Column("normalized_value", seen) /\ q' = Column("normalized_value", Append(seen, r))
    BY DEF Values, Column
  <2>2. \A x \in Record("FeatureAggWindow") : Field(x, "normalized_value", 0) \in Int
    BY <1>1 DEF Normal
  <2>3. /\ Column("normalized_value", Append(seen, r)) =
             Append(Column("normalized_value", seen), Field(r, "normalized_value", 0))
        /\ Column("normalized_value", seen) \in Seq(Int)
        /\ Len(Column("normalized_value", seen)) = Len(seen)
    BY <2>2, ColumnGrows
  <2>4. Field(r, "normalized_value", 0) = Normal(r)
    BY DEF Normal
  <2>5. q' = Append(q, Field(r, "normalized_value", 0))
    BY <2>1, <2>3, Zenon
  <2> HIDE DEF q
  <2> QED BY <2>4, <2>5
<1>5. edge'.window = Push(edge.window, Normal(r), WindowSize)
  BY DEF Process, Aggregator, Normal
<1>6. Normal(r) \in Int /\ WindowSize \in Nat /\ WindowSize > 0
  BY <1>1, TransferAssumption
<1>7. /\ Push(Newest(q, WindowSize), Normal(r), WindowSize) = Newest(Append(q, Normal(r)), WindowSize)
      /\ Newest(Append(q, Normal(r)), WindowSize) \in Seq(Int) \ {<<>>}
  <2> HIDE DEF q
  <2> QED BY <1>3, <1>6, PushIsNewest
<1> QED BY <1>4, <1>5, <1>7 DEF WindowKept
LEMMA OfZoneGrows ==
  ASSUME NEW R, seen \in Seq(R), NEW r \in R, seen' = Append(seen, r), NEW z
  PROVE  OfZone(z)' = IF z = Field(r, "zone_id", "unknown") THEN OfZone(z) \union {Len(seen) + 1}
                                                           ELSE OfZone(z)
BY SeenGrows DEF OfZone

LEMMA ZonesStay ==
  ASSUME NEW R, seen \in Seq(R), ZonesKept, "window" \in DOMAIN edge,
         NEW r \in R, seen' = Append(seen, r), NEW now,
         edge' = Process("MultiStreamJoin", edge, r, now).state
  PROVE  ZonesKept' /\ "window" \in DOMAIN edge'
<1> DEFINE y == Field(r, "zone_id", "unknown")
           v == Field(r, "agg_max", 0)
           w == Put(edge.window, y, v)
<1>1. PICK n \in Nat : n = Len(seen) /\ DOMAIN seen = 1 .. n
  BY SeenGrows
<1>2. "window" \in DOMAIN edge' /\ (edge'.window = <<>> \/ edge'.window = w)
  <2>1. edge' = Join(edge, r, now).state
    BY DEF Process
  <2>2. edge' = [window |-> <<>>, start |-> now] \/ edge' = [edge EXCEPT !.window = w]
    BY <2>1 DEF Join
  <2> HIDE DEF w
  <2> QED BY <2>2
<1>3. CASE edge'.window = <<>>
  BY <1>2, <1>3 DEF ZonesKept
<1>4. CASE edge'.window = w
  <2>1. DOMAIN w = DOMAIN edge.window \union {y} /\ w[y] = v
        /\ \A z \in DOMAIN edge.window : z # y => w[z] = edge.window[z]
    BY DEF Put
  <2>2. ASSUME NEW z \in DOMAIN w
        PROVE  \E i \in OfZone(z)' : /\ w[z] = Field(seen'[i], "agg_max", 0)
                                     /\ \A j \in OfZone(z)' : j <= i
    <3>1. CASE z = y
      <4>1. OfZone(z)' = OfZone(z) \union {n + 1} /\ OfZone(z) \subseteq 1 .. n
        BY <1>1, <3>1, OfZoneGrows DEF OfZone
      <4>2. seen'[n + 1] = r
        BY <1>1, SeenGrows
      <4>3. n + 1 \in OfZone(z)' /\ \A j \in OfZone(z)' : j <= n + 1
        BY <4>1
      <4>4. w[z] = Field(seen'[n + 1], "agg_max", 0)
        BY <2>1, <3>1, <4>2
      <4> HIDE DEF w, v, y
      <4> QED BY <4>3, <4>4
    <3>2. CASE z # y
      <4>1. OfZone(z)' = OfZone(z) /\ OfZone(z) \subseteq 1 .. n
        BY <1>1, <3>2, OfZoneGrows DEF OfZone
      <4>2. z \in DOMAIN edge.window /\ w[z] = edge.window[z]
        BY <2>1, <3>2
      <4>3. PICK i \in OfZone(z) : /\ edge.window[z] = Field(seen[i], "agg_max", 0)
                                   /\ \A j \in OfZone(z) : j <= i
        BY <4>2 DEF ZonesKept
      <4>4. seen'[i] = seen[i]
        BY <1>1, <4>1, SeenGrows
      <4> QED BY <4>1, <4>2, <4>3, <4>4
    <3> QED BY <3>1, <3>2
  <2> HIDE DEF w
  <2>3. \A z \in DOMAIN edge'.window :
          \E i \in OfZone(z)' : /\ edge'.window[z] = Field(seen'[i], "agg_max", 0)
                                /\ \A j \in OfZone(z)' : j <= i
    BY <1>4, <2>2
  <2> QED BY <1>2, <2>3 DEF ZonesKept
<1> QED BY <1>2, <1>3, <1>4

LEMMA DetectionsGrow ==
  ASSUME NEW R, seen \in Seq(R), NEW r \in R, seen' = Append(seen, r)
  PROVE  /\ Detections' = IF Field(r, "vehicle_detected", FALSE) THEN Detections \union {Len(seen) + 1}
                                                                 ELSE Detections
         /\ \A id : OfSensor(id)' = IF id = Field(r, "sensor_id", "unknown")
                                    THEN OfSensor(id) \union {Len(seen) + 1} ELSE OfSensor(id)
         /\ Detections \subseteq 1 .. Len(seen) /\ \A id : OfSensor(id) \subseteq 1 .. Len(seen)
<1>1. Detections' = IF Field(r, "vehicle_detected", FALSE) THEN Detections \union {Len(seen) + 1}
                                                           ELSE Detections
  <2>1. PICK n \in Nat : n = Len(seen) /\ DOMAIN seen = 1 .. n /\ DOMAIN seen' = 1 .. n + 1
    BY SeenGrows
  <2>2. seen'[n + 1] = r /\ \A i \in 1 .. n : seen'[i] = seen[i]
    BY <2>1, SeenGrows
  <2>3. Detections' = {i \in 1 .. n + 1 : Field(seen'[i], "vehicle_detected", FALSE)}
    BY <2>1 DEF Detections
  <2>4. Detections = {i \in 1 .. n : Field(seen[i], "vehicle_detected", FALSE)}
    BY <2>1 DEF Detections
  <2>7. 1 .. n + 1 = 1 .. n \union {n + 1}
    OBVIOUS
  <2>5. CASE Field(r, "vehicle_detected", FALSE)
    BY <2>1, <2>2, <2>3, <2>4, <2>5, <2>7, Zenon
  <2>6. CASE ~ Field(r, "vehicle_detected", FALSE)
    BY <2>1, <2>2, <2>3, <2>4, <2>6, <2>7, Zenon
  <2> QED BY <2>5, <2>6
<1>2. \A id : OfSensor(id)' = IF id = Field(r, "sensor_id", "unknown")
                              THEN OfSensor(id) \union {Len(seen) + 1} ELSE OfSensor(id)
  BY SeenGrows DEF OfSensor
<1>3. Detections \subseteq 1 .. Len(seen) /\ \A id : OfSensor(id) \subseteq 1 .. Len(seen)
  BY SeenGrows DEF Detections, OfSensor
<1> QED BY <1>1, <1>2, <1>3

LEMMA DetectionsStay ==
  ASSUME NEW R, seen \in Seq(R), DetectionsKept,
         NEW r \in R, seen' = Append(seen, r), NEW now,
         edge' = Process("ZoneAggregator", edge, r, now).state
  PROVE  DetectionsKept'
<1> DEFINE hit == Field(r, "vehicle_detected", FALSE)
           y == Field(r, "sensor_id", "unknown")
<1>1. /\ edge'.total = IF hit THEN edge.total + 1 ELSE edge.total
      /\ edge'.counts = IF hit THEN Put(edge.counts, y, Field(edge.counts, y, 0) + 1) ELSE edge.counts
  BY DEF Process, Zone
<1>2. PICK n \in Nat : n = Len(seen)
  BY SeenGrows
<1>3. /\ Detections' = IF hit THEN Detections \union {n + 1} ELSE Detections
      /\ \A id : OfSensor(id)' = IF id = y THEN OfSensor(id) \union {n + 1} ELSE OfSensor(id)
      /\ Detections \subseteq 1 .. n /\ \A id : OfSensor(id) \subseteq 1 .. n
  BY <1>2, DetectionsGrow
<1>4. \A T : T \subseteq 1 .. n => /\ IsFiniteSet(T) /\ Cardinality(T) \in Nat
                                  /\ Cardinality(T \union {n + 1}) = Cardinality(T) + 1
  <2> SUFFICES ASSUME NEW T, T \subseteq 1 .. n
               PROVE  /\ IsFiniteSet(T) /\ Cardinality(T) \in Nat
                      /\ Cardinality(T \union {n + 1}) = Cardinality(T) + 1
    OBVIOUS
  <2>1. IsFiniteSet(T)
    <3>1. IsFiniteSet(1 .. n)
      BY FS_Interval
    <3> QED BY <3>1, FS_Subset
  <2>2. n + 1 \notin T
    OBVIOUS
  <2> QED BY <2>1, <2>2, FS_AddElement, FS_CardinalityType
<1>5. CASE ~ hit
  <2>1. \A id \in Sensors : Detections' \cap OfSensor(id)' = Detections \cap OfSensor(id)
    BY <1>3, <1>5
  <2> QED BY <1>1, <1>3, <1>5, <2>1 DEF DetectionsKept
<1>6. CASE hit
  <2>1. edge'.total = Cardinality(Detections')
    BY <1>1, <1>3, <1>4, <1>6 DEF DetectionsKept
  <2>2. ASSUME NEW id \in Sensors
        PROVE  Field(edge'.counts, id, 0) = Cardinality(Detections' \cap OfSensor(id)')
    <3>1. Field(edge.counts, id, 0) = Cardinality(Detections \cap OfSensor(id))
      BY DEF DetectionsKept
    <3>2. CASE id = y
      <4>1. Detections' \cap OfSensor(id)' = (Detections \cap OfSensor(id)) \union {n + 1}
        BY <1>3, <1>6, <3>2
      <4>2. Cardinality(Detections' \cap OfSensor(id)') = Field(edge.counts, id, 0) + 1
        BY <1>3, <1>4, <3>1, <4>1
      <4>3. Field(edge'.counts, id, 0) = Field(edge.counts, id, 0) + 1
        BY <1>1, <1>6, <3>2 DEF Field, Put
      <4> QED BY <4>2, <4>3
    <3>3. CASE id # y
      <4>1. Detections' \cap OfSensor(id)' = Detections \cap OfSensor(id)
        BY <1>3, <1>6, <3>3
      <4>2. Field(edge'.counts, id, 0) = Field(edge.counts, id, 0)
        BY <1>1, <1>6, <3>3 DEF Field, Put
      <4> QED BY <3>1, <4>1, <4>2
    <3> QED BY <3>2, <3>3
  <2> QED BY <2>1, <2>2 DEF DetectionsKept
<1> QED BY <1>5, <1>6
LEMMA CollectingInit == Init => Collecting /\ (kind = "MultiStreamJoin" => "window" \in DOMAIN edge)
<1> SUFFICES ASSUME Init
             PROVE  Collecting /\ (kind = "MultiStreamJoin" => "window" \in DOMAIN edge)
  OBVIOUS
<1> DEFINE empty == <<>>
<1>1. kind \in Moved /\ clock = 0 /\ seen = empty /\ edge = Fresh(kind, 0)
  BY DEF Init
<1>2. seen \in Seq(Record(kind)) /\ Len(seen) = 0 /\ DOMAIN seen = {}
  BY <1>1
<1>3. ASSUME kind = "FeatureAggWindow" PROVE WindowKept
  <2>1. edge.window = empty
    BY <1>1, <1>3 DEF Fresh, NewAggregator, AggregatorState, Over
  <2>2. Values("normalized_value") = empty
    BY <1>2 DEF Values
  <2>3. WindowSize \in Nat /\ WindowSize > 0 /\ MinOf(0, WindowSize) = 0
    BY TransferAssumption DEF MinOf
  <2>4. IsEnd(Newest(empty, WindowSize), 0, empty, 0)
    <3>1. empty \in Seq(Int) /\ Len(empty) = 0 /\ 0 \in Nat
      OBVIOUS
    <3> HIDE DEF empty
    <3> QED BY <2>3, <3>1, NewestIs
  <2>5. Newest(empty, WindowSize) = empty
    BY <2>4 DEF IsEnd
  <2> QED BY <2>1, <2>2, <2>5 DEF WindowKept
<1>4. ASSUME kind = "MultiStreamJoin" PROVE ZonesKept /\ "window" \in DOMAIN edge
  <2>1. edge.window = empty /\ "window" \in DOMAIN edge
    BY <1>1, <1>4 DEF Fresh, NewJoin, JoinState, Over
  <2> QED BY <2>1 DEF ZonesKept
<1>5. ASSUME kind = "ZoneAggregator" PROVE DetectionsKept
  <2>1. edge.total = 0 /\ edge.counts = empty
    BY <1>1, <1>5 DEF Fresh, NewZone, ZoneState, Over
  <2>2. Detections = {} /\ DOMAIN empty = {}
    BY <1>2 DEF Detections
  <2>3. \A id : Field(empty, id, 0) = 0 /\ Detections \cap OfSensor(id) = {}
    BY <2>2 DEF Field
  <2> QED BY <2>1, <2>2, <2>3, FS_EmptySet DEF DetectionsKept
<1> QED BY <1>1, <1>2, <1>3, <1>4, <1>5 DEF Collecting, CollectedSurvives

LEMMA CollectingNext ==
  ASSUME Collecting, kind = "MultiStreamJoin" => "window" \in DOMAIN edge, [Next]_vars
  PROVE  Collecting' /\ (kind = "MultiStreamJoin" => "window" \in DOMAIN edge)'
<1>0. kind' = kind /\ kind \in Moved /\ kind \in Kinds
  BY TransferAssumption DEF Collecting, Next, Arrive, Tick, HandOver, TakeSnapshot, Damage,
     OpenJob, FlinkStep, vars
<1>1. CASE Arrive
  <2>1. PICK input \in Inputs[kind] :
          /\ seen' = Append(seen, Over(input, [timestamp |-> clock]))
          /\ edge' = Process(kind, edge, Over(input, [timestamp |-> clock]), clock).state
    BY <1>1 DEF Arrive
  <2>2. PICK r \in Record(kind) : r = Over(input, [timestamp |-> clock])
    <3>1. <<input, clock>> \in Inputs[kind] \X Nat
      BY DEF Collecting
    <3> QED BY <3>1 DEF Record
  <2>3. seen \in Seq(Record(kind)) /\ CollectedSurvives /\ clock' = clock /\ clock \in Nat
    BY <1>1 DEF Collecting, Arrive
  <2>4. seen' \in Seq(Record(kind))
    BY <2>1, <2>2, <2>3
  <2>5. ASSUME kind = "FeatureAggWindow" PROVE WindowKept'
    BY <1>0, <2>1, <2>2, <2>3, <2>5, WindowStays DEF CollectedSurvives
  <2>6. ASSUME kind = "MultiStreamJoin" PROVE ZonesKept' /\ "window" \in DOMAIN edge'
    BY <1>0, <2>1, <2>2, <2>3, <2>6, ZonesStay DEF CollectedSurvives
  <2>7. ASSUME kind = "ZoneAggregator" PROVE DetectionsKept'
    BY <1>0, <2>1, <2>2, <2>3, <2>7, DetectionsStay DEF CollectedSurvives
  <2> QED BY <1>0, <2>3, <2>4, <2>5, <2>6, <2>7 DEF Collecting, CollectedSurvives
<1>2. CASE HandOver
  <2>1. /\ edge' = RestoreState(kind, GetState(kind, edge), clock)
        /\ seen' = seen /\ clock' = clock
    BY <1>2 DEF HandOver
  <2>2. kind = "FeatureAggWindow" => edge'.window = edge.window
    BY <2>1, RestoredCollections
  <2>3. kind = "MultiStreamJoin" => edge'.window = edge.window /\ "window" \in DOMAIN edge'
    <3>1. "window" \in DOMAIN Saved("MultiStreamJoin")
      BY DEF Saved, JoinState
    <3> QED BY <2>1, <3>1, RestoredCollections DEF RestoreState, Over
  <2>4. kind = "ZoneAggregator" => edge'.total = edge.total /\ edge'.counts = edge.counts
    BY <2>1, RestoredCollections
  <2> QED BY <1>0, <2>1, <2>2, <2>3, <2>4 DEF Collecting, CollectedSurvives, WindowKept, Values,
             ZonesKept, OfZone, DetectionsKept, Detections, OfSensor
<1>3. CASE UNCHANGED <<kind, seen, edge>> /\ clock' \in Nat
  BY <1>3 DEF Collecting, CollectedSurvives, WindowKept, Values, ZonesKept, OfZone,
     DetectionsKept, Detections, OfSensor
<1>4. CASE Tick
  BY <1>3, <1>4 DEF Tick, Collecting
<1>5. CASE TakeSnapshot \/ Damage \/ OpenJob \/ FlinkStep \/ UNCHANGED vars
  BY <1>3, <1>5 DEF TakeSnapshot, Damage, OpenJob, FlinkStep, vars, Collecting
<1> QED BY <1>1, <1>2, <1>4, <1>5 DEF Next

\* However often it is handed over, an aggregator's window is the end of its input,
\* a join holds the newest record of a zone, and the detections of a zone are all
\* counted (aggregator.py, join.py, zone_agg.py: process, get_state, restore_state).
THEOREM CollectionsSurvive == Spec => []CollectedSurvives
<1>1. Collecting => CollectedSurvives
  BY DEF Collecting
<1> QED BY CollectingInit, CollectingNext, <1>1, PTL DEF Spec
-----------------------------------------------------------------------------
(* Percentiles.                                                               *)

LEMMA LeastNumber ==
  ASSUME NEW T \in SUBSET Nat, T # {}
  PROVE  \E n \in T : \A m \in T : n <= m
<1>1. PICK n \in T : \A m \in T : ~ (<<m, n>> \in OpToRel(<, Nat))
  BY NatLessThanWellFounded, WFMin
<1>2. \A m \in T : ~ (m < n)
  BY <1>1 DEF OpToRel
<1> QED BY <1>2

UpTo(w, v)  == {i \in DOMAIN w : w[i] <= v}
Under(w, v) == {i \in DOMAIN w : w[i] < v}

\* Of the places J of a window, one has the fewest values up to its own.
LEMMA LeastPlace ==
  ASSUME NEW w \in Seq(Int), NEW J \in SUBSET (DOMAIN w), J # {}
  PROVE  \E j \in J : \A i \in J : Cardinality(UpTo(w, w[j])) <= Cardinality(UpTo(w, w[i]))
<1>1. IsFiniteSet(DOMAIN w)
  BY FS_Interval
<1>2. \A v : UpTo(w, v) \subseteq DOMAIN w
  BY DEF UpTo
<1>3. \A v : Cardinality(UpTo(w, v)) \in Nat
  BY <1>1, <1>2, FS_Subset, FS_CardinalityType
<1> DEFINE T == {Cardinality(UpTo(w, w[i])) : i \in J}
<1>4. T \in SUBSET Nat /\ T # {}
  BY <1>3
<1>5. PICK n \in T : \A m \in T : n <= m
  BY <1>4, LeastNumber
<1> QED BY <1>5

\* Some value has fewer than k values below it and at least k up to it.
LEMMA OrderStatistic ==
  ASSUME NEW w \in Seq(Int), NEW k \in 1 .. Len(w)
  PROVE  \E v \in {w[i] : i \in DOMAIN w} : Cardinality(Under(w, v)) < k /\ Cardinality(UpTo(w, v)) >= k
<1>1. IsFiniteSet(DOMAIN w) /\ Cardinality(DOMAIN w) = Len(w) /\ DOMAIN w = 1 .. Len(w) /\ Len(w) \in Nat
  BY FS_Interval
<1>2. \A T : T \subseteq DOMAIN w => IsFiniteSet(T) /\ Cardinality(T) \in Nat
  BY <1>1, FS_Subset, FS_CardinalityType
<1>3. \A i \in DOMAIN w : w[i] \in Int
  OBVIOUS
<1>4. \A v : UpTo(w, v) \subseteq DOMAIN w /\ Under(w, v) \subseteq DOMAIN w
  BY DEF UpTo, Under
\* The more values are up to it, the greater a value is.
<1>5. ASSUME NEW i \in DOMAIN w, NEW j \in DOMAIN w, w[i] < w[j]
      PROVE  Cardinality(UpTo(w, w[i])) < Cardinality(UpTo(w, w[j]))
  <2>1. UpTo(w, w[i]) \subseteq UpTo(w, w[j]) /\ j \in UpTo(w, w[j]) /\ j \notin UpTo(w, w[i])
    BY <1>3, <1>5 DEF UpTo
  <2>2. /\ Cardinality(UpTo(w, w[i])) <= Cardinality(UpTo(w, w[j]))
        /\ Cardinality(UpTo(w, w[i])) # Cardinality(UpTo(w, w[j]))
    BY <1>2, <1>4, <2>1, FS_Subset
  <2> QED BY <1>2, <1>4, <2>2
<1> DEFINE High == {j \in DOMAIN w : Cardinality(UpTo(w, w[j])) >= k}
<1>6. ASSUME NEW B, B \subseteq DOMAIN w, Cardinality(B) >= k
      PROVE  B \cap High # {}
  <2>1. B # {}
    <3>1. Cardinality({}) = 0
      BY FS_EmptySet
    <3>2. ~ (0 >= k)
      BY <1>1
    <3>3. ASSUME B = {} PROVE FALSE
      <4>1. Cardinality(B) = 0
        BY <3>1, <3>3
      <4> QED BY <1>6, <3>2, <4>1
    <3> QED BY <3>3
  <2> DEFINE C == {c \in B : \A b \in B : w[b] <= w[c]}
  <2>2. C # {}
    <3> DEFINE Gap(b) == Len(w) - Cardinality(UpTo(w, w[b]))
               T == {Gap(b) : b \in B}
    <3>1. \A b \in B : Cardinality(UpTo(w, w[b])) \in Nat /\ Cardinality(UpTo(w, w[b])) <= Len(w)
      BY <1>1, <1>2, <1>4, FS_Subset
    <3>2. T \in SUBSET Nat /\ T # {}
      <4>1. \A b \in B : Gap(b) \in Nat
        BY <1>1, <3>1
      <4> HIDE DEF Gap
      <4> QED BY <2>1, <4>1
    <3>3. PICK n \in T : \A m \in T : n <= m
      BY <3>2, LeastNumber
    <3>4. PICK c \in B : \A b \in B : Gap(c) <= Gap(b)
      <4> HIDE DEF Gap
      <4> QED BY <3>3
    <3>5. ASSUME NEW b \in B, w[c] < w[b] PROVE FALSE
      <4>1. Cardinality(UpTo(w, w[c])) < Cardinality(UpTo(w, w[b]))
        BY <1>5, <1>6, <3>5
      <4>2. Gap(c) <= Gap(b)
        BY <3>4
      <4> QED BY <1>1, <3>1, <4>1, <4>2
    <3>6. c \in C
      BY <1>3, <1>6, <3>5
    <3> QED BY <3>6
  <2>3. PICK c \in B : \A b \in B : w[b] <= w[c]
    BY <2>2
  <2>4. B \subseteq UpTo(w, w[c])
    BY <1>6, <2>3 DEF UpTo
  <2>5. Cardinality(B) <= Cardinality(UpTo(w, w[c]))
    BY <1>2, <1>4, <2>4, FS_Subset
  <2>6. Cardinality(UpTo(w, w[c])) >= k
    BY <1>2, <1>4, <1>6, <2>5
  <2> QED BY <1>6, <2>6
<1>7. High # {} /\ High \in SUBSET (DOMAIN w)
  BY <1>1, <1>6
<1>8. PICK j \in High : \A i \in High : Cardinality(UpTo(w, w[j])) <= Cardinality(UpTo(w, w[i]))
  <2> HIDE DEF High
  <2> QED BY <1>7, LeastPlace
<1>9. Cardinality(Under(w, w[j])) < k
  <2>1. SUFFICES ASSUME Cardinality(Under(w, w[j])) >= k PROVE FALSE
    BY <1>2, <1>4
  <2>2. PICK b \in High : b \in Under(w, w[j])
    BY <1>4, <1>6, <2>1
  <2>3. Cardinality(UpTo(w, w[b])) < Cardinality(UpTo(w, w[j]))
    BY <1>5, <2>2 DEF Under
  <2> QED BY <1>2, <1>4, <1>8, <2>2, <2>3
<1> QED BY <1>8, <1>9

\* The position is the least that Pct per cent of n positions do not exceed.
LEMMA PctIndexIs ==
  ASSUME NEW n \in Nat, n > 0
  PROVE  /\ PctIndex(n) \in 1 .. n /\ 100 * PctIndex(n) >= Pct * n
         /\ PctIndex(n) = 1 \/ 100 * (PctIndex(n) - 1) < Pct * n
<1>1. PICK p \in Nat : p = Pct * n /\ p <= 100 * n
  <2>1. Pct \in 0 .. 100
    BY TransferAssumption
  <2>2. Pct * n \in Nat /\ Pct * n <= 100 * n
    BY <2>1
  <2> QED BY <2>2
<1>2. PICK q \in Nat : q = (p + 99) \div 100 /\ 100 * q <= p + 99 /\ p + 99 < 100 * q + 100
  BY <1>1
<1>3. PctIndex(n) = IF q >= 1 THEN q ELSE 1
  <2>1. q <= n
    BY <1>1, <1>2
  <2>2. MaxOf(1, q) = IF q >= 1 THEN q ELSE 1
    BY <1>2 DEF MaxOf
  <2>3. PctIndex(n) = MinOf(n, MaxOf(1, q))
    BY <1>1, <1>2 DEF PctIndex
  <2> QED BY <2>1, <2>2, <2>3 DEF MinOf
<1> QED BY <1>1, <1>2, <1>3

Ranked(w, p) ==
  /\ 100 * Cardinality(UpTo(w, p)) >= Pct * Len(w)
  /\ \A v \in ToSet(w) : v < p => 100 * Cardinality(UpTo(w, v)) < Pct * Len(w)

LEMMA PercentileIsRanked ==
  ASSUME NEW w \in Seq(Int), w # <<>>
  PROVE  Ranked(w, Percentile(w))
<1> DEFINE p == Percentile(w)
<1>0. PICK n \in Nat : n = Len(w) /\ n > 0
  <2>1. Len(w) \in Nat /\ Len(w) > 0
    OBVIOUS
  <2> QED BY <2>1
<1>1. PICK k \in 1 .. n :
        /\ n = Len(w) /\ k = PctIndex(n) /\ 100 * k >= Pct * n
        /\ k = 1 \/ 100 * (k - 1) < Pct * n
  <2>1. /\ PctIndex(n) \in 1 .. n /\ 100 * PctIndex(n) >= Pct * n
        /\ PctIndex(n) = 1 \/ 100 * (PctIndex(n) - 1) < Pct * n
    BY <1>0, PctIndexIs
  <2> QED BY <1>0, <2>1
<1>2. ToSet(w) = {w[i] : i \in DOMAIN w}
  BY DEF ToSet
<1>3. p = CHOOSE v \in ToSet(w) : Cardinality(Under(w, v)) < k /\ Cardinality(UpTo(w, v)) >= k
  BY <1>1 DEF Percentile, AtPosition, Under, UpTo
<1>4. \E v \in ToSet(w) : Cardinality(Under(w, v)) < k /\ Cardinality(UpTo(w, v)) >= k
  BY <1>1, <1>2, OrderStatistic
<1>5. p \in ToSet(w) /\ Cardinality(Under(w, p)) < k /\ Cardinality(UpTo(w, p)) >= k
  <2> HIDE DEF p
  <2> QED BY <1>3, <1>4
<1>6. \A v : /\ Cardinality(UpTo(w, v)) \in Nat /\ Cardinality(Under(w, v)) \in Nat
             /\ IsFiniteSet(Under(w, v))
  <2>1. IsFiniteSet(DOMAIN w)
    BY FS_Interval
  <2>2. \A v : UpTo(w, v) \subseteq DOMAIN w /\ Under(w, v) \subseteq DOMAIN w
    BY DEF UpTo, Under
  <2> QED BY <2>1, <2>2, FS_Subset, FS_CardinalityType
<1>7. PICK g \in Nat : g = Pct * n
  BY TransferAssumption
<1> HIDE DEF p
<1>8. 100 * Cardinality(UpTo(w, p)) >= g
  <2>1. PICK c \in Nat : c = Cardinality(UpTo(w, p)) /\ c >= k
    BY <1>5, <1>6
  <2>2. 100 * k >= g
    BY <1>1, <1>7
  <2> QED BY <2>1, <2>2
<1>9. ASSUME NEW v \in ToSet(w), v < p PROVE 100 * Cardinality(UpTo(w, v)) < g
  <2>1. \A i \in DOMAIN w : w[i] \in Int
    OBVIOUS
  <2>2. v \in Int /\ p \in Int
    BY <1>2, <1>5, <2>1
  <2>3. UpTo(w, v) \subseteq Under(w, p)
    BY <1>9, <2>1, <2>2 DEF UpTo, Under
  <2>4. Cardinality(UpTo(w, v)) <= Cardinality(Under(w, p))
    BY <1>6, <2>3, FS_Subset
  <2>5. UpTo(w, v) # {}
    BY <1>2, <2>2 DEF UpTo
  <2>6. Cardinality(UpTo(w, v)) # 0
    BY <1>6, <2>3, <2>5, FS_Subset, FS_EmptySet
  <2>7. PICK c \in Nat : c = Cardinality(UpTo(w, v)) /\ c > 0 /\ c <= k - 1
    BY <1>5, <1>6, <2>4, <2>6
  <2>8. k = 1 \/ 100 * (k - 1) < g
    BY <1>1, <1>7
  <2> QED BY <2>7, <2>8
<1> QED BY <1>1, <1>7, <1>8, <1>9 DEF Ranked, p

\* What the aggregator says is about the window it has.
Ranking ==
  /\ Collecting /\ (kind = "MultiStreamJoin" => "window" \in DOMAIN edge)
  /\ (kind = "FeatureAggWindow" /\ said.edge # <<>>) => Ranked(edge.window, said.edge[1].p95)

LEMMA RankingNext ==
  ASSUME Ranking, [Next]_vars
  PROVE  Ranking'
<1> DEFINE Good == (kind = "FeatureAggWindow" /\ said.edge # <<>>) => Ranked(edge.window, said.edge[1].p95)
<1>0. Collecting /\ (kind = "MultiStreamJoin" => "window" \in DOMAIN edge)
      /\ Good
  BY DEF Ranking
<1>1. Collecting' /\ (kind = "MultiStreamJoin" => "window" \in DOMAIN edge)'
  BY <1>0, CollectingNext
<1>2. CASE Arrive
  <2>1. PICK input \in Inputs[kind] :
          LET r == Over(input, [timestamp |-> clock])
          IN  /\ seen' = Append(seen, r)
              /\ edge' = Process(kind, edge, r, clock).state
              /\ said' = [live |-> Process(kind, live, r, clock).out, edge |-> Process(kind, edge, r, clock).out]
    BY <1>2 DEF Arrive
  <2> DEFINE r == Over(input, [timestamp |-> clock])
  <2>2. ASSUME kind = "FeatureAggWindow", said'.edge # <<>>
        PROVE  Ranked(edge'.window, said'.edge[1].p95)
    <3>1. r \in Record(kind)
      <4>1. <<input, clock>> \in Inputs[kind] \X Nat
        BY DEF Ranking, Collecting
      <4> QED BY <4>1 DEF Record
    <3>2. edge'.window \in Seq(Int) \ {<<>>}
      BY <1>0, <2>1, <2>2, <3>1, WindowStays DEF Collecting, CollectedSurvives
    <3>3. said'.edge = Aggregator(edge, r).out /\ edge' = Aggregator(edge, r).state
      BY <2>1, <2>2 DEF Process
    <3>4. said'.edge[1].p95 = Percentile(edge'.window)
      BY <2>2, <3>3 DEF Aggregator
    <3> QED BY <3>2, <3>4, PercentileIsRanked
  <2>3. kind' = kind
    BY <1>2 DEF Arrive
  <2> QED BY <1>1, <2>2, <2>3 DEF Ranking
<1>3. CASE HandOver
  <2>1. edge' = RestoreState(kind, GetState(kind, edge), clock) /\ said' = said /\ kind' = kind
    BY <1>3 DEF HandOver
  <2>2. kind = "FeatureAggWindow" => edge'.window = edge.window
    BY <2>1, RestoredCollections
  <2> QED BY <1>0, <1>1, <2>1, <2>2 DEF Ranking
<1>4. CASE UNCHANGED <<kind, edge, said>>
  BY <1>0, <1>1, <1>4 DEF Ranking
<1>5. CASE Tick \/ TakeSnapshot \/ Damage \/ OpenJob \/ FlinkStep \/ UNCHANGED vars
  BY <1>4, <1>5 DEF Tick, TakeSnapshot, Damage, OpenJob, FlinkStep, vars
<1> QED BY <1>2, <1>3, <1>5 DEF Next

\* The emitted percentile is the least value of the window that Pct per cent of the
\* window do not exceed, also after hand-overs (aggregator.py, process).
THEOREM PercentilesAreRanked == Spec => []PercentileRank
<1>1. Init => Ranking
  <2>1. Init => said.edge = <<>>
    BY DEF Init
  <2> QED BY <2>1, CollectingInit DEF Ranking
<1>2. Ranking => PercentileRank
  BY DEF Ranking, Ranked, UpTo, PercentileRank
<1> QED BY RankingNext, <1>1, <1>2, PTL DEF Spec
-----------------------------------------------------------------------------
(* Folds.  An induction over sequences is one over a set of sequences, and a  *)
(* fold over a set of positions is the function that its equation defines.    *)

\* All sequences over R are in a set with the empty one and, with each of its
\* sequences, the longer ones.
LEMMA SequencesGrow ==
  ASSUME NEW R, NEW B \in SUBSET Seq(R), <<>> \in B, \A p \in B, x \in R : Append(p, x) \in B
  PROVE  B = Seq(R)
<1> DEFINE T == {Len(q) : q \in Seq(R) \ B}
<1> SUFFICES ASSUME T # {} PROVE FALSE
  OBVIOUS
<1>1. T \in SUBSET Nat
  OBVIOUS
<1>2. PICK n \in T : \A m \in T : n <= m
  BY <1>1, LeastNumber
<1>3. PICK q \in Seq(R) \ B : Len(q) = n
  OBVIOUS
<1>4. q # <<>>
  BY <1>3
<1>5. PICK p \in Seq(R), x \in R : q = Append(p, x)
  BY <1>3, <1>4, SequenceEmptyOrAppend
<1>6. p \notin B
  BY <1>3, <1>5
<1>7. n <= Len(p) /\ n = Len(p) + 1 /\ Len(p) \in Nat
  <2>1. Len(Append(p, x)) = Len(p) + 1
    BY AppendProperties
  <2>2. Len(p) \in Nat
    BY LenProperties
  <2>3. n <= Len(p)
    BY <1>2, <1>6
  <2> QED BY <1>3, <1>5, <2>1, <2>2, <2>3
<1> QED BY <1>7

\* Among sets of positions, some set has no smaller one beside it.
LEMMA SmallestSet ==
  ASSUME NEW D, IsFiniteSet(D), NEW B \in SUBSET (SUBSET D), B # {}
  PROVE  \E S \in B : \A x \in S : S \ {x} \notin B
<1> DEFINE T == {Cardinality(S) : S \in B}
<1>1. \A S \in SUBSET D : IsFiniteSet(S) /\ Cardinality(S) \in Nat
  BY FS_Subset, FS_CardinalityType
<1>2. T \in SUBSET Nat /\ T # {}
  BY <1>1
<1>3. PICK n \in T : \A m \in T : n <= m
  BY <1>2, LeastNumber
<1>4. PICK S \in B : Cardinality(S) = n
  OBVIOUS
<1>5. ASSUME NEW x \in S, S \ {x} \in B PROVE FALSE
  <2>1. Cardinality(S \ {x}) = n - 1
    BY <1>1, <1>4, FS_RemoveElement
  <2>2. n <= n - 1 /\ n \in Nat
    BY <1>2, <1>3, <1>5, <2>1
  <2> QED BY <2>2
<1> QED BY <1>5

\* t holds the sums of the numbers at every set of positions.
Adds(t, q) ==
  /\ t \in [SUBSET (1 .. Len(q)) -> Int]
  /\ t[{}] = 0
  /\ \A S \in SUBSET (1 .. Len(q)) : \A i \in S : t[S] = q[i] + t[S \ {i}]

\* The fold takes the numbers in some order, which does not matter.
LEMMA SumIs ==
  ASSUME NEW q \in Seq(Int), NEW t, Adds(t, q)
  PROVE  SeqSum(q) = t[1 .. Len(q)]
<1> DEFINE D == DOMAIN q
           x(S) == CHOOSE y \in S : TRUE
           Rule(s) == s = [S \in SUBSET D |-> IF S = {} THEN 0 ELSE q[x(S)] + s[S \ {x(S)}]]
<1>1. SeqSum(q) = (CHOOSE s : Rule(s))[D]
  BY DEF SeqSum, FoldSeq, FoldFunction, FoldFunctionOnSet, MapThenFoldSet
<1>2. D = 1 .. Len(q) /\ IsFiniteSet(D) /\ D \in SUBSET D
  BY FS_Interval
<1>3. \A S \in SUBSET D : S # {} => x(S) \in S /\ S \ {x(S)} \in SUBSET D
  OBVIOUS
<1>4. Rule(t)
  <2>1. \A S \in SUBSET D : t[S] = IF S = {} THEN 0 ELSE q[x(S)] + t[S \ {x(S)}]
    <3> HIDE DEF x
    <3> QED BY <1>2, <1>3 DEF Adds
  <2>2. t = [S \in SUBSET D |-> t[S]]
    BY <1>2 DEF Adds
  <2> HIDE DEF x
  <2> QED BY <2>1, <2>2
<1>5. ASSUME NEW s, Rule(s) PROVE s[D] = t[D]
  <2> DEFINE B == {S \in SUBSET D : s[S] # t[S]}
  <2>1. SUFFICES B = {}
    BY <1>2
  <2>2. SUFFICES ASSUME B # {} PROVE FALSE
    OBVIOUS
  <2>3. PICK S \in B : \A y \in S : S \ {y} \notin B
    BY <1>2, <2>2, SmallestSet
  <2> HIDE DEF x
  <2>4. s[S] = IF S = {} THEN 0 ELSE q[x(S)] + s[S \ {x(S)}]
    BY <1>5
  <2>5. t[S] = IF S = {} THEN 0 ELSE q[x(S)] + t[S \ {x(S)}]
    BY <1>4
  <2>6. S # {} => s[S \ {x(S)}] = t[S \ {x(S)}]
    BY <1>3, <2>3
  <2> QED BY <2>4, <2>5, <2>6
<1> HIDE DEF Rule
<1> QED BY <1>1, <1>2, <1>4, <1>5

\* The sums with one number more.
LEMMA AddsMore ==
  ASSUME NEW q \in Seq(Int), NEW x \in Int, NEW t, Adds(t, q)
  PROVE  \E u : Adds(u, Append(q, x)) /\ u[1 .. Len(q) + 1] = t[1 .. Len(q)] + x
<1>1. PICK n \in Nat : n = Len(q)
  OBVIOUS
<1>2. PICK p \in Seq(Int) : p = Append(q, x) /\ Len(p) = n + 1 /\ p[n + 1] = x /\ \A i \in 1 .. n : p[i] = q[i]
  <2>1. /\ Append(q, x) \in Seq(Int) /\ Len(Append(q, x)) = Len(q) + 1
        /\ Append(q, x)[Len(q) + 1] = x /\ \A i \in 1 .. Len(q) : Append(q, x)[i] = q[i]
    BY AppendProperties
  <2> QED BY <1>1, <2>1
<1> DEFINE D == 1 .. n
           E == 1 .. n + 1
           u == [S \in SUBSET E |-> IF n + 1 \in S THEN t[S \ {n + 1}] + x ELSE t[S]]
<1>3. /\ E = D \cup {n + 1} /\ n + 1 \notin D
      /\ t \in [SUBSET D -> Int] /\ t[{}] = 0
      /\ \A S \in SUBSET D : \A i \in S : t[S] = q[i] + t[S \ {i}]
  <2>1. E = D \cup {n + 1} /\ n + 1 \notin D
    OBVIOUS
  <2> QED BY <1>1, <2>1 DEF Adds
<1> HIDE DEF D, E
<1>4. u \in [SUBSET E -> Int]
  BY <1>3
<1>5. u[{}] = 0
  BY <1>3
<1>6. ASSUME NEW S \in SUBSET E, NEW i \in S PROVE u[S] = p[i] + u[S \ {i}]
  <2>1. S \ {i} \in SUBSET E /\ (i # n + 1 => i \in D)
    BY <1>3
  <2>2. CASE i = n + 1
    <3>1. u[S] = t[S \ {i}] + x /\ u[S \ {i}] = t[S \ {i}] /\ t[S \ {i}] \in Int
      BY <1>3, <2>1, <2>2
    <3> QED BY <1>2, <2>2, <3>1
  <2>3. CASE i # n + 1 /\ n + 1 \in S
    <3>1. PICK R \in SUBSET D : R = S \ {n + 1} /\ i \in R /\ R \ {i} = (S \ {i}) \ {n + 1}
      <4>1. S \ {n + 1} \in SUBSET D /\ i \in S \ {n + 1}
        BY <1>3, <2>3
      <4>2. (S \ {n + 1}) \ {i} = (S \ {i}) \ {n + 1}
        OBVIOUS
      <4> QED BY <4>1, <4>2
    <3>2. t[R] = q[i] + t[R \ {i}] /\ t[R] \in Int /\ t[R \ {i}] \in Int
      BY <1>3, <3>1
    <3>3. u[S] = t[R] + x /\ u[S \ {i}] = t[R \ {i}] + x
      BY <2>1, <2>3, <3>1
    <3>4. p[i] = q[i] /\ q[i] \in Int
      BY <1>1, <1>2, <2>1, <2>3 DEF D
    <3> HIDE DEF u
    <3> QED BY <3>2, <3>3, <3>4
  <2>4. CASE n + 1 \notin S
    <3>1. S \in SUBSET D /\ i \in D
      BY <1>3, <2>4
    <3>2. u[S] = t[S] /\ u[S \ {i}] = t[S \ {i}]
      BY <2>1, <2>4
    <3>3. p[i] = q[i]
      BY <1>2, <3>1 DEF D
    <3> QED BY <1>3, <3>1, <3>2, <3>3
  <2> QED BY <2>2, <2>3, <2>4
<1>7. u[E] = t[D] + x
  <2>1. E \in SUBSET E /\ n + 1 \in E /\ E \ {n + 1} = D
    BY <1>3
  <2> QED BY <2>1
<1> HIDE DEF u
<1>8. Adds(u, p)
  BY <1>2, <1>4, <1>5, <1>6 DEF Adds, E
<1> QED BY <1>1, <1>2, <1>7, <1>8 DEF D, E

LEMMA SumsExist == \A q \in Seq(Int) : \E t : Adds(t, q)
<1> DEFINE B == {q \in Seq(Int) : \E t : Adds(t, q)}
<1>1. <<>> \in B
  <2> DEFINE t == [S \in {{}} |-> 0]
             e == <<>>
  <2>1. 1 .. Len(e) = {} /\ SUBSET {} = {{}} /\ e \in Seq(Int)
    OBVIOUS
  <2>2. Adds(t, e)
    BY <2>1 DEF Adds
  <2> QED BY <2>1, <2>2
<1>2. \A q \in B, x \in Int : Append(q, x) \in B
  BY AddsMore
<1> HIDE DEF B
<1>3. B \in SUBSET Seq(Int)
  BY DEF B
<1>4. B = Seq(Int)
  BY <1>1, <1>2, <1>3, SequencesGrow
<1> QED BY <1>4 DEF B

\* The sum of a sequence, number by number.
LEMMA SumGrows ==
  /\ SeqSum(<<>>) = 0
  /\ \A q \in Seq(Int) : SeqSum(q) \in Int
  /\ \A q \in Seq(Int), x \in Int : SeqSum(Append(q, x)) = SeqSum(q) + x
<1>1. SeqSum(<<>>) = 0
  <2> DEFINE e == <<>>
  <2>1. PICK t : Adds(t, e)
    <3>1. e \in Seq(Int)
      OBVIOUS
    <3> QED BY <3>1, SumsExist
  <2>2. 1 .. Len(e) = {} /\ e \in Seq(Int)
    OBVIOUS
  <2>3. t[{}] = 0
    BY <2>1 DEF Adds
  <2> HIDE DEF e
  <2>4. SeqSum(e) = 0
    BY <2>1, <2>2, <2>3, SumIs
  <2> QED BY <2>4 DEF e
<1>2. ASSUME NEW q \in Seq(Int) PROVE SeqSum(q) \in Int
  <2>1. PICK t : Adds(t, q)
    BY SumsExist
  <2>2. SeqSum(q) = t[1 .. Len(q)]
    BY <2>1, SumIs
  <2> QED BY <2>1, <2>2 DEF Adds
<1>3. ASSUME NEW q \in Seq(Int), NEW x \in Int PROVE SeqSum(Append(q, x)) = SeqSum(q) + x
  <2>1. PICK t : Adds(t, q)
    BY SumsExist
  <2>2. PICK u : Adds(u, Append(q, x)) /\ u[1 .. Len(q) + 1] = t[1 .. Len(q)] + x
    BY <2>1, AddsMore
  <2>3. Append(q, x) \in Seq(Int) /\ Len(Append(q, x)) = Len(q) + 1
    OBVIOUS
  <2> QED BY <2>1, <2>2, <2>3, SumIs
<1> QED BY <1>1, <1>2, <1>3
-----------------------------------------------------------------------------
(* Running statistics.                                                        *)

\* A quotient without a remainder.
LEMMA Quotient ==
  ASSUME NEW n \in Nat, n > 0, NEW e \in Int
  PROVE  (n * e) \div n = e
<1>1. PICK d \in Int : d = n * e
  OBVIOUS
<1>2. PICK k \in Int : k = d \div n /\ n * k <= d /\ d < n * k + n
  BY <1>1
<1>3. CASE k < e
  <2>1. k + 1 <= e
    BY <1>3
  <2>2. n * (k + 1) <= n * e
    BY <2>1
  <2>3. n * (k + 1) = n * k + n
    OBVIOUS
  <2> QED BY <1>1, <1>2, <2>2, <2>3
<1>4. CASE k > e
  <2>1. e + 1 <= k
    BY <1>4
  <2>2. n * (e + 1) <= n * k
    BY <2>1
  <2>3. n * (e + 1) = n * e + n
    OBVIOUS
  <2> QED BY <1>1, <1>2, <2>2, <2>3
<1> QED BY <1>1, <1>2, <1>3, <1>4

\* The squared deviations of the values q from m.
Squares(q, m) == [i \in 1 .. Len(q) |-> Square(q[i] - m)]
Dev(q, m) == SeqSum(Squares(q, m))

LEMMA SquaresGrow ==
  ASSUME NEW q \in Seq(Int), NEW x \in Int, NEW m \in Int
  PROVE  /\ Squares(q, m) \in Seq(Int)
         /\ Squares(Append(q, x), m) = Append(Squares(q, m), Square(x - m))
<1>1. \A y \in Int : Square(y - m) \in Int
  BY SquareIsNat
<1>2. PICK n \in Nat : n = Len(q)
  OBVIOUS
<1>3. PICK p \in Seq(Int) : p = Append(q, x) /\ Len(p) = n + 1 /\ p[n + 1] = x /\ \A i \in 1 .. n : p[i] = q[i]
  <2>1. /\ Append(q, x) \in Seq(Int) /\ Len(Append(q, x)) = Len(q) + 1
        /\ Append(q, x)[Len(q) + 1] = x /\ \A i \in 1 .. Len(q) : Append(q, x)[i] = q[i]
    BY AppendProperties
  <2> QED BY <1>2, <2>1
<1>4. PICK c \in Seq(Int) : c = Squares(q, m) /\ Len(c) = n /\ \A i \in 1 .. n : c[i] = Square(q[i] - m)
  <2>1. \A i \in 1 .. n : Square(q[i] - m) \in Int
    <3>1. \A i \in 1 .. n : q[i] \in Int
      BY <1>2
    <3> QED BY <1>1, <3>1
  <2>2. Squares(q, m) \in [1 .. n -> Int] /\ \A i \in 1 .. n : Squares(q, m)[i] = Square(q[i] - m)
    BY <1>2, <2>1 DEF Squares
  <2> QED BY <2>2
<1>5. PICK d \in Seq(Int) : d = Squares(p, m) /\ Len(d) = n + 1 /\ \A i \in 1 .. n + 1 : d[i] = Square(p[i] - m)
  <2>1. \A i \in 1 .. n + 1 : Square(p[i] - m) \in Int
    <3>1. \A i \in 1 .. n + 1 : p[i] \in Int
      BY <1>3
    <3> QED BY <1>1, <3>1
  <2>2. Squares(p, m) \in [1 .. n + 1 -> Int] /\ \A i \in 1 .. n + 1 : Squares(p, m)[i] = Square(p[i] - m)
    BY <1>3, <2>1 DEF Squares
  <2> QED BY <2>2
<1>6. PICK a \in Seq(Int) : a = Append(c, Square(x - m)) /\ Len(a) = n + 1 /\ a[n + 1] = Square(x - m)
                         /\ \A i \in 1 .. n : a[i] = c[i]
  <2>1. Square(x - m) \in Int
    BY <1>1
  <2>2. /\ Append(c, Square(x - m)) \in Seq(Int) /\ Len(Append(c, Square(x - m))) = Len(c) + 1
        /\ Append(c, Square(x - m))[Len(c) + 1] = Square(x - m)
        /\ \A i \in 1 .. Len(c) : Append(c, Square(x - m))[i] = c[i]
    BY <2>1, AppendProperties
  <2> QED BY <1>4, <2>2
<1>7. ASSUME NEW i \in 1 .. n + 1 PROVE a[i] = d[i]
  <2>1. CASE i = n + 1
    BY <1>3, <1>5, <1>6, <2>1
  <2>2. CASE i \in 1 .. n
    BY <1>3, <1>4, <1>5, <1>6, <2>2
  <2> QED BY <2>1, <2>2
<1>8. a = d
  BY <1>5, <1>6, <1>7, SeqEqual
<1> QED BY <1>3, <1>4, <1>5, <1>6, <1>8

LEMMA DevGrows ==
  /\ \A m \in Int : Dev(<<>>, m) = 0
  /\ \A q \in Seq(Int), m \in Int : Dev(q, m) \in Int
  /\ \A q \in Seq(Int), m \in Int, x \in Int : Dev(Append(q, x), m) = Dev(q, m) + Square(x - m)
<1>1. ASSUME NEW m \in Int PROVE Dev(<<>>, m) = 0
  <2> DEFINE e == <<>>
  <2>1. Squares(e, m) = e
    BY DEF Squares
  <2>2. Dev(e, m) = SeqSum(e)
    BY <2>1 DEF Dev
  <2> QED BY <2>2, SumGrows
<1>2. ASSUME NEW q \in Seq(Int), NEW m \in Int PROVE Dev(q, m) \in Int
  <2>1. Squares(q, m) \in Seq(Int)
    <3>1. 0 \in Int
      OBVIOUS
    <3> QED BY <3>1, SquaresGrow
  <2> QED BY <2>1, SumGrows DEF Dev
<1>3. ASSUME NEW q \in Seq(Int), NEW m \in Int, NEW x \in Int
      PROVE  Dev(Append(q, x), m) = Dev(q, m) + Square(x - m)
  <2>1. Squares(q, m) \in Seq(Int) /\ Squares(Append(q, x), m) = Append(Squares(q, m), Square(x - m))
    BY SquaresGrow
  <2>2. Square(x - m) \in Int
    BY SquareIsNat
  <2> QED BY <2>1, <2>2, SumGrows DEF Dev
<1> QED BY <1>1, <1>2, <1>3

\* The deviations from m are those from zero, shifted.
LEMMA DevShifts ==
  ASSUME NEW m \in Int
  PROVE  \A q \in Seq(Int) : Dev(q, m) = Dev(q, 0) - 2 * m * SeqSum(q) + Len(q) * m * m
<1> DEFINE B == {q \in Seq(Int) : Dev(q, m) = Dev(q, 0) - 2 * m * SeqSum(q) + Len(q) * m * m}
<1>1. <<>> \in B
  <2> DEFINE e == <<>>
  <2>1. Dev(e, m) = 0 /\ Dev(e, 0) = 0 /\ SeqSum(e) = 0 /\ Len(e) = 0 /\ e \in Seq(Int)
    <3>1. Dev(e, m) = 0 /\ Dev(e, 0) = 0
      BY DevGrows
    <3>2. SeqSum(e) = 0
      BY SumGrows
    <3>3. Len(e) = 0 /\ e \in Seq(Int)
      OBVIOUS
    <3> QED BY <3>1, <3>2, <3>3
  <2>2. 0 = 0 - 2 * m * 0 + 0 * m * m
    OBVIOUS
  <2> HIDE DEF e
  <2>3. e \in B
    BY <2>1, <2>2
  <2> QED BY <2>3 DEF e
<1>2. ASSUME NEW q \in B, NEW x \in Int PROVE Append(q, x) \in B
  <2>1. PICK c \in Int, d \in Int, s \in Int, n \in Nat :
          c = Dev(q, m) /\ d = Dev(q, 0) /\ s = SeqSum(q) /\ n = Len(q)
    <3>1. Dev(q, m) \in Int /\ Dev(q, 0) \in Int
      BY DevGrows
    <3>2. SeqSum(q) \in Int
      BY SumGrows
    <3>3. Len(q) \in Nat
      OBVIOUS
    <3> QED BY <3>1, <3>2, <3>3
  <2>2. c = d - 2 * m * s + n * m * m
    BY <2>1
  <2>3. /\ Dev(Append(q, x), m) = c + Square(x - m) /\ Dev(Append(q, x), 0) = d + Square(x - 0)
        /\ SeqSum(Append(q, x)) = s + x
    <3>1. \A k \in Int : Dev(Append(q, x), k) = Dev(q, k) + Square(x - k)
      <4>1. q \in Seq(Int)
        OBVIOUS
      <4> QED BY <4>1, DevGrows
    <3>2. SeqSum(Append(q, x)) = SeqSum(q) + x
      BY SumGrows
    <3> QED BY <2>1, <3>1, <3>2
  <2>4. Append(q, x) \in Seq(Int) /\ Len(Append(q, x)) = n + 1
    BY <2>1, AppendProperties
  <2>5. Square(x - m) = x * x - 2 * m * x + m * m /\ Square(x - 0) = x * x
    BY DEF Square
  <2>6. c + (x * x - 2 * m * x + m * m) = (d + x * x) - 2 * m * (s + x) + (n + 1) * m * m
    BY <2>2
  <2> QED BY <2>3, <2>4, <2>5, <2>6
<1> HIDE DEF B
<1>3. B \in SUBSET Seq(Int)
  BY DEF B
<1>4. B = Seq(Int)
  BY <1>1, <1>2, <1>3, SequencesGrow
<1> QED BY <1>4 DEF B

\* The multiples of d.
Multiples(d) == {d * a : a \in Int}

LEMMA MultiplesAre ==
  ASSUME NEW d \in Int
  PROVE  /\ Multiples(d) \subseteq Int /\ 0 \in Multiples(d)
         /\ \A x, y \in Multiples(d) : x + y \in Multiples(d) /\ x * x \in Multiples(d)
<1>1. Multiples(d) \subseteq Int
  BY DEF Multiples
<1>2. 0 \in Multiples(d)
  <2>1. d * 0 = 0
    OBVIOUS
  <2> QED BY <2>1 DEF Multiples
<1>3. ASSUME NEW x \in Multiples(d), NEW y \in Multiples(d)
      PROVE  x + y \in Multiples(d) /\ x * x \in Multiples(d)
  <2>1. PICK a \in Int, b \in Int : x = d * a /\ y = d * b
    BY DEF Multiples
  <2>2. x + y = d * (a + b)
    BY <2>1
  <2>3. x * x = d * (a * x) /\ a * x \in Int
    BY <1>1, <2>1
  <2>4. x + y \in Multiples(d)
    <3>1. a + b \in Int
      OBVIOUS
    <3> QED BY <2>2, <3>1, Zenon DEF Multiples
  <2>5. x * x \in Multiples(d)
    BY <2>3, Zenon DEF Multiples
  <2> QED BY <2>4, <2>5
<1> QED BY <1>1, <1>2, <1>3

\* Sums and sums of squares of multiples are multiples.
LEMMA SumsOfMultiples ==
  ASSUME NEW d \in Int
  PROVE  \A q \in Seq(Multiples(d)) :
           q \in Seq(Int) /\ SeqSum(q) \in Multiples(d) /\ Dev(q, 0) \in Multiples(d)
<1> DEFINE M == Multiples(d)
           B == {q \in Seq(M) : SeqSum(q) \in M /\ Dev(q, 0) \in M}
<1>1. M \subseteq Int /\ 0 \in M
  BY MultiplesAre
<1>2. \A q \in Seq(M) : q \in Seq(Int)
  BY <1>1, SeqMonotonic
<1>3. <<>> \in B
  <2> DEFINE e == <<>>
  <2>1. SeqSum(e) = 0
    BY SumGrows
  <2>2. Dev(e, 0) = 0
    BY DevGrows
  <2>3. e \in Seq(M)
    OBVIOUS
  <2> HIDE DEF e, M
  <2>4. e \in B
    BY <1>1, <2>1, <2>2, <2>3
  <2> QED BY <2>4 DEF e
<1>4. ASSUME NEW q \in B, NEW x \in M PROVE Append(q, x) \in B
  <2>1. q \in Seq(Int) /\ x \in Int /\ q \in Seq(M) /\ SeqSum(q) \in M /\ Dev(q, 0) \in M
    BY <1>1, <1>2
  <2>2. SeqSum(Append(q, x)) = SeqSum(q) + x
    BY <2>1, SumGrows
  <2>3. Dev(Append(q, x), 0) = Dev(q, 0) + x * x
    <3>1. \A k \in Int : Dev(Append(q, x), k) = Dev(q, k) + Square(x - k)
      BY <2>1, DevGrows
    <3>2. Square(x - 0) = x * x
      BY <2>1 DEF Square
    <3> QED BY <3>1, <3>2
  <2>4. x * x \in M /\ SeqSum(q) + x \in M
    BY <2>1, MultiplesAre
  <2>5. Dev(q, 0) + x * x \in M
    BY <2>1, <2>4, MultiplesAre
  <2>6. Append(q, x) \in Seq(M)
    BY <2>1, AppendProperties
  <2> HIDE DEF M
  <2> QED BY <2>2, <2>3, <2>4, <2>5, <2>6
<1> HIDE DEF B
<1>5. B \in SUBSET Seq(M)
  BY DEF B
<1>6. B = Seq(M)
  BY <1>3, <1>4, <1>5, SequencesGrow
<1> QED BY <1>2, <1>6 DEF B

\* m is the mean of q.
IsMean(m, q) == m \in Int /\ Len(q) * m = SeqSum(q)

\* Welford's update from the mean of q to the one with x, what it adds to the
\* squared deviations, and what they are.
Moves(q, x, mean, a) ==
  /\ a = mean + (x - mean) \div (Len(q) + 1)
  /\ IsMean(a, Append(q, x))
  /\ Dev(q, mean) + (x - mean) * (x - a) = Dev(Append(q, x), a)
  /\ Dev(Append(q, x), a) = Dev(Append(q, x), 0) - (Len(q) + 1) * (a * a)

LEMMA MeanMoves ==
  ASSUME NEW q \in Seq(Int), NEW x \in Int, NEW mean, IsMean(mean, q),
         SeqSum(Append(q, x)) \in Multiples(Len(q) + 1)
  PROVE  \E a \in Int : Moves(q, x, mean, a)
<1>0. PICK n \in Nat : n = Len(q)
  OBVIOUS
<1>9. mean \in Int /\ n * mean = SeqSum(q)
  BY <1>0 DEF IsMean
<1>1. PICK a \in Int : SeqSum(Append(q, x)) = (n + 1) * a
  BY <1>0 DEF Multiples
<1>2. PICK s \in Int : s = SeqSum(q) /\ SeqSum(Append(q, x)) = s + x /\ n * mean = s
  BY <1>9, SumGrows
<1>3. mean + (x - mean) \div (n + 1) = a
  <2> USE <1>9
  <2>1. n * mean + x = (n + 1) * a
    BY <1>1, <1>2
  <2>2. (n + 1) * (a - mean) = (n + 1) * a - n * mean - mean
    OBVIOUS
  <2>3. x - mean = (n + 1) * (a - mean)
    BY <2>1, <2>2
  <2>4. ((n + 1) * (a - mean)) \div (n + 1) = a - mean
    BY Quotient
  <2> QED BY <2>3, <2>4
<1>4. PICK p \in Seq(Int) : p = Append(q, x) /\ Len(p) = n + 1
  BY <1>0, AppendProperties
<1>5. PICK c \in Int : c = Dev(q, 0) /\ Dev(p, 0) = c + x * x
  <2>1. \A k \in Int : Dev(q, k) \in Int /\ Dev(Append(q, x), k) = Dev(q, k) + Square(x - k)
    BY DevGrows
  <2>2. Square(x - 0) = x * x
    BY DEF Square
  <2> QED BY <1>4, <2>1, <2>2
<1>6. Dev(q, mean) = c - n * mean * mean
  <2>1. Dev(q, mean) = c - 2 * mean * s + n * mean * mean
    BY <1>0, <1>2, <1>5, <1>9, DevShifts
  <2>2. mean * s = n * mean * mean
    BY <1>2, <1>9
  <2>3. c - 2 * (n * mean * mean) + n * mean * mean = c - n * mean * mean
    BY <1>9
  <2>4. 2 * mean * s = 2 * (mean * s)
    BY <1>9
  <2> QED BY <2>1, <2>2, <2>3, <2>4
<1>7. Dev(p, a) = (c + x * x) - (n + 1) * a * a
  <2>1. SeqSum(p) = (n + 1) * a
    BY <1>1, <1>4
  <2>2. Dev(p, a) = (c + x * x) - 2 * a * ((n + 1) * a) + (n + 1) * a * a
    BY <1>4, <1>5, <2>1, DevShifts
  <2>3. 2 * a * ((n + 1) * a) = 2 * ((n + 1) * a * a)
    OBVIOUS
  <2> QED BY <2>2, <2>3
<1>8. (c - n * mean * mean) + (x - mean) * (x - a) = (c + x * x) - (n + 1) * a * a
  <2>1. PICK m \in Int : m = mean
    BY <1>9
  <2>2. n * m + x = (n + 1) * a
    BY <1>1, <1>2, <2>1
  <2>3. x = (n + 1) * a - n * m
    BY <2>2
  <2>4. (c - n * m * m) + (x - m) * (x - a) = (c + x * x) - (n + 1) * a * a
    BY <2>3
  <2> QED BY <2>1, <2>4
<1>10. (n + 1) * a * a = (n + 1) * (a * a)
  OBVIOUS
<1>11. IsMean(a, Append(q, x))
  BY <1>1, <1>4 DEF IsMean
<1> QED BY <1>0, <1>3, <1>4, <1>5, <1>6, <1>7, <1>8, <1>10, <1>11 DEF Moves

\* The figures of a StatAggregator and of a NormalizerOperator that have read the
\* values q.
Welford(s, q) ==
  /\ s.count = Len(q) /\ IsMean(s.mean, q)
  /\ s.m2 = Dev(q, s.mean)
Extremes(s, q) ==
  IF q = <<>> THEN s.min = None /\ s.max = None
  ELSE /\ s.min \in ToSet(q) /\ \A v \in ToSet(q) : s.min <= v
       /\ s.max \in ToSet(q) /\ \A v \in ToSet(q) : v <= s.max
Normalized(s, q) ==
  /\ s.count = Len(q) /\ IsMean(s.mean, q)
  /\ s.variance \in Int /\ Len(q) * s.variance = Dev(q, s.mean)

\* One value more.
LEMMA WelfordStays ==
  ASSUME NEW q \in Seq(Int), NEW s, Welford(s, q), NEW r, NEW x \in Int, x = Field(r, "value", 0),
         SeqSum(Append(q, x)) \in Multiples(Len(q) + 1)
  PROVE  /\ Welford(Stat(s, r).state, Append(q, x))
         /\ Stat(s, r).state.m2 = s.m2 + (x - s.mean) * (x - Stat(s, r).state.mean)
<1>1. PICK n \in Nat, mean \in Int : n = Len(q) /\ mean = s.mean
  BY DEF Welford, IsMean
<1>2. PICK a \in Int : /\ a = mean + (x - mean) \div (n + 1)
                       /\ IsMean(a, Append(q, x))
                       /\ Dev(q, mean) + (x - mean) * (x - a) = Dev(Append(q, x), a)
  <2>1. IsMean(mean, q)
    BY <1>1 DEF Welford
  <2>2. PICK a \in Int : Moves(q, x, mean, a)
    BY <2>1, MeanMoves
  <2> QED BY <1>1, <2>2 DEF Moves
<1>3. s.count = n /\ s.m2 = Dev(q, mean)
  BY <1>1 DEF Welford
<1>4. /\ Stat(s, r).state.count = n + 1
      /\ Stat(s, r).state.mean = a
      /\ Stat(s, r).state.m2 = s.m2 + (x - mean) * (x - a)
  BY <1>1, <1>2, <1>3 DEF Stat
<1>5. Len(Append(q, x)) = n + 1
  BY <1>1, AppendProperties
<1> QED BY <1>1, <1>2, <1>3, <1>4, <1>5 DEF Welford

LEMMA MinMaxOfTwo ==
  ASSUME NEW a \in Int, NEW b \in Int
  PROVE  /\ Min({a, b}) = IF a <= b THEN a ELSE b
         /\ Max({a, b}) = IF a >= b THEN a ELSE b
<1>1. CASE a <= b
  BY <1>1 DEF Min, Max
<1>2. CASE ~ (a <= b)
  BY <1>2 DEF Min, Max
<1> QED BY <1>1, <1>2

\* The least and the greatest value with one more.
LEMMA ExtremesStay ==
  ASSUME NEW q \in Seq(Int), NEW s, Extremes(s, q), NEW r, NEW x \in Int, x = Field(r, "value", 0)
  PROVE  Extremes(Stat(s, r).state, Append(q, x))
<1> DEFINE new == Stat(s, r).state
<1>1. /\ new.min = IF s.min = None THEN x ELSE Min({s.min, x})
      /\ new.max = IF s.max = None THEN x ELSE Max({s.max, x})
  BY DEF Stat
<1>2. None \notin Int
  BY NumbersAssumption
<1>3. ToSet(q) \subseteq Int
  BY DEF ToSet
<1>4. ToSet(Append(q, x)) = ToSet(q) \union {x} /\ Append(q, x) # <<>>
  <2>1. PICK n \in Nat : n = Len(q) /\ DOMAIN q = 1 .. n
    OBVIOUS
  <2>2. PICK p \in Seq(Int) : p = Append(q, x) /\ p # <<>> /\ DOMAIN p = 1 .. n + 1 /\ p[n + 1] = x
                              /\ \A i \in 1 .. n : p[i] = q[i]
    <3>1. /\ Append(q, x) \in Seq(Int) /\ Len(Append(q, x)) = n + 1 /\ Append(q, x)[n + 1] = x
          /\ Append(q, x) # <<>> /\ \A i \in 1 .. n : Append(q, x)[i] = q[i]
      BY <2>1, AppendProperties
    <3>2. DOMAIN Append(q, x) = 1 .. n + 1
      BY <3>1
    <3> QED BY <3>1, <3>2
  <2>3. 1 .. n + 1 = (1 .. n) \union {n + 1}
    OBVIOUS
  <2> QED BY <2>1, <2>2, <2>3 DEF ToSet
<1> HIDE DEF new
<1>5. CASE q = <<>>
  <2>1. ToSet(q) = {}
    BY <1>5 DEF ToSet
  <2> QED BY <1>1, <1>4, <1>5, <2>1 DEF Extremes, new
<1>6. CASE q # <<>>
  <2>1. PICK a \in Int, b \in Int :
          /\ a = s.min /\ a \in ToSet(q) /\ \A v \in ToSet(q) : a <= v
          /\ b = s.max /\ b \in ToSet(q) /\ \A v \in ToSet(q) : v <= b
    BY <1>3, <1>6 DEF Extremes
  <2>2. /\ new.min = IF a <= x THEN a ELSE x
        /\ new.max = IF b >= x THEN b ELSE x
    BY <1>1, <1>2, <2>1, MinMaxOfTwo
  <2>3. new.min \in ToSet(q) \union {x} /\ \A v \in ToSet(q) \union {x} : new.min <= v
    BY <1>3, <2>1, <2>2
  <2>4. new.max \in ToSet(q) \union {x} /\ \A v \in ToSet(q) \union {x} : v <= new.max
    BY <1>3, <2>1, <2>2
  <2> QED BY <1>4, <2>3, <2>4 DEF Extremes, new
<1> QED BY <1>5, <1>6

LEMMA NormalizedStays ==
  ASSUME NEW q \in Seq(Int), NEW s, Normalized(s, q), NEW r, NEW x \in Int, x = Field(r, "sensor_value", 0),
         SeqSum(Append(q, x)) \in Multiples(Len(q) + 1), Dev(Append(q, x), 0) \in Multiples(Len(q) + 1)
  PROVE  Normalized(Normalizer(s, r).state, Append(q, x))
<1>1. PICK n \in Nat, mean \in Int, var \in Int : n = Len(q) /\ mean = s.mean /\ var = s.variance
  BY DEF Normalized, IsMean
<1>2. PICK a \in Int : /\ a = mean + (x - mean) \div (n + 1)
                       /\ IsMean(a, Append(q, x))
                       /\ Dev(q, mean) + (x - mean) * (x - a) = Dev(Append(q, x), a)
                       /\ Dev(Append(q, x), a) = Dev(Append(q, x), 0) - (n + 1) * (a * a)
  <2>1. IsMean(mean, q)
    BY <1>1 DEF Normalized
  <2>2. PICK a \in Int : Moves(q, x, mean, a)
    BY <2>1, MeanMoves
  <2> QED BY <1>1, <2>2 DEF Moves
<1>3. PICK b \in Int : Dev(Append(q, x), 0) = (n + 1) * b
  BY <1>1 DEF Multiples
<1>4. Dev(Append(q, x), a) = (n + 1) * (b - a * a)
  <2>1. (n + 1) * (b - a * a) = (n + 1) * b - (n + 1) * (a * a)
    OBVIOUS
  <2> QED BY <1>2, <1>3, <2>1
<1>5. s.count = n /\ n * var = Dev(q, mean)
  BY <1>1 DEF Normalized
<1>6. n * var + (x - mean) * (x - a) = (n + 1) * (b - a * a)
  BY <1>2, <1>4, <1>5
<1>7. ((n + 1) * (b - a * a)) \div (n + 1) = b - a * a
  <2>1. PICK e \in Int : e = b - a * a
    OBVIOUS
  <2> QED BY <2>1, Quotient
<1>8. /\ Normalizer(s, r).state.count = n + 1
      /\ Normalizer(s, r).state.mean = a
      /\ Normalizer(s, r).state.variance = (((n + 1) - 1) * var + (x - mean) * (x - a)) \div (n + 1)
  BY <1>1, <1>2, <1>5 DEF Normalizer
<1>9. Normalizer(s, r).state.variance = b - a * a
  BY <1>6, <1>7, <1>8
<1>10. Len(Append(q, x)) = n + 1
  BY <1>1, AppendProperties
<1> QED BY <1>2, <1>4, <1>8, <1>9, <1>10 DEF Normalized

\* A number that is divided without a remainder.
LEMMA Divides ==
  ASSUME NEW n \in Nat, n > 0, NEW x \in Int, n * (x \div n) = x
  PROVE  x \in Multiples(n)
<1>1. x \div n \in Int
  OBVIOUS
<1>2. PICK a \in Int : x = n * a
  BY <1>1
<1> QED BY <1>2 DEF Multiples

\* The values that are read.
LEMMA ValuesAre ==
  ASSUME NoRemainder, NEW n \in 1 .. MaxRecords
  PROVE  /\ "StatAggregator" \in Moved =>
              \A r \in Record("StatAggregator") : Field(r, "value", 0) \in Multiples(n)
         /\ "NormalizerOperator" \in Moved =>
              \A r \in Record("NormalizerOperator") : Field(r, "sensor_value", 0) \in Multiples(n)
<1>1. n \in Nat /\ n > 0
  BY TransferAssumption
<1>2. ASSUME "StatAggregator" \in Moved, NEW r \in Record("StatAggregator")
      PROVE  Field(r, "value", 0) \in Multiples(n)
  <2>1. PICK input \in Inputs["StatAggregator"], t \in Nat : r = Over(input, [timestamp |-> t])
    BY DEF Record
  <2>2. Field(r, "value", 0) = Field(input, "value", 0)
    BY <2>1 DEF Field, Over
  <2>3. Field(input, "value", 0) \in Int
    BY <1>2, NumbersAre
  <2>4. n * (Field(input, "value", 0) \div n) = Field(input, "value", 0)
    BY <1>2 DEF NoRemainder
  <2> QED BY <1>1, <2>2, <2>3, <2>4, Divides
<1>3. ASSUME "NormalizerOperator" \in Moved, NEW r \in Record("NormalizerOperator")
      PROVE  Field(r, "sensor_value", 0) \in Multiples(n)
  <2>1. PICK input \in Inputs["NormalizerOperator"], t \in Nat : r = Over(input, [timestamp |-> t])
    BY DEF Record
  <2>2. Field(r, "sensor_value", 0) = Field(input, "sensor_value", 0)
    BY <2>1 DEF Field, Over
  <2>3. Field(input, "sensor_value", 0) \in Int
    BY <1>3, NumbersAre
  <2>4. n * (Field(input, "sensor_value", 0) \div n) = Field(input, "sensor_value", 0)
    BY <1>3 DEF NoRemainder
  <2> QED BY <1>1, <2>2, <2>3, <2>4, Divides
<1> QED BY <1>2, <1>3

\* A column of multiples with one more.
LEMMA ColumnAdds ==
  ASSUME NEW f, NEW n \in Nat, NEW R, NEW s \in Seq(R), NEW r \in R,  \A x \in R : Field(x, f, 0) \in Multiples(n)
  PROVE  /\ Column(f, s) \in Seq(Int) /\ Len(Column(f, s)) = Len(s) /\ Field(r, f, 0) \in Int
         /\ Column(f, Append(s, r)) = Append(Column(f, s), Field(r, f, 0))
         /\ SeqSum(Append(Column(f, s), Field(r, f, 0))) \in Multiples(n)
         /\ Dev(Append(Column(f, s), Field(r, f, 0)), 0) \in Multiples(n)
<1> DEFINE M == Multiples(n)
           q == Column(f, s)
           x == Field(r, f, 0)
<1>1. M \subseteq Int
  BY MultiplesAre
<1>2. Column(f, Append(s, r)) = Append(q, x) /\ q \in Seq(M) /\ Len(q) = Len(s)
  <2> HIDE DEF M
  <2>1. \A y \in R : Field(y, f, 0) \in M
    BY DEF M
  <2> QED BY <2>1, ColumnGrows
<1>3. x \in M
  OBVIOUS
<1> HIDE DEF q, x
<1>4. Append(q, x) \in Seq(M)
  BY <1>2, <1>3, AppendProperties
<1>5. \A p \in Seq(M) : p \in Seq(Int) /\ SeqSum(p) \in M /\ Dev(p, 0) \in M
  BY SumsOfMultiples
<1> HIDE DEF M
<1>6. q \in Seq(Int) /\ SeqSum(Append(q, x)) \in M /\ Dev(Append(q, x), 0) \in M
  BY <1>2, <1>4, <1>5
<1> QED BY <1>1, <1>2, <1>3, <1>6 DEF M, q, x

\* The figures of the instance that is handed over are those of its whole input.
Exact ==
  /\ kind = "StatAggregator" => /\ Welford(edge, Column("value", seen))
                                /\ Extremes(edge, Column("value", seen))
  /\ kind = "NormalizerOperator" => Normalized(edge, Column("sensor_value", seen))

Measuring ==
  /\ Continuing
  /\ Collecting /\ (kind = "MultiStreamJoin" => "window" \in DOMAIN edge)
  /\ Exact

LEMMA ExactInit == Init => Measuring
<1> SUFFICES ASSUME Init PROVE Exact
  BY ContinuingInit, CollectingInit DEF Measuring
<1> DEFINE e == <<>>
<1>1. edge = Fresh(kind, 0) /\ seen = e
  BY DEF Init
<1>2. \A f : Column(f, e) = e
  BY DEF Column
<1>3. Len(e) = 0 /\ SeqSum(e) = 0 /\ Dev(e, 0) = 0
  BY SumGrows, DevGrows
<1> HIDE DEF e
<1>4. IsMean(0, e)
  BY <1>3 DEF IsMean
<1>5. ASSUME kind = "StatAggregator" PROVE Welford(edge, e) /\ Extremes(edge, e)
  <2>1. edge = StatState
    BY <1>1, <1>5 DEF Fresh, NewStat
  <2>2. edge.count = 0 /\ edge.mean = 0 /\ edge.m2 = 0 /\ edge.min = None /\ edge.max = None
    BY <2>1 DEF StatState
  <2> QED BY <1>3, <1>4, <2>2 DEF Welford, Extremes, e
<1>6. ASSUME kind = "NormalizerOperator" PROVE Normalized(edge, e)
  <2>1. edge = NormalizerState
    BY <1>1, <1>6 DEF Fresh, NewNormalizer
  <2>2. edge.count = 0 /\ edge.mean = 0 /\ edge.variance = One * One
    BY <2>1 DEF NormalizerState
  <2>3. One * One \in Int /\ 0 * (One * One) = 0
    BY TransferAssumption
  <2> QED BY <1>3, <1>4, <2>2, <2>3 DEF Normalized
<1> QED BY <1>1, <1>2, <1>5, <1>6 DEF Exact

LEMMA ExactNext ==
  ASSUME NoRemainder, Measuring, [Next]_vars
  PROVE  Measuring'
<1>0. Continuing' /\ Collecting' /\ (kind = "MultiStreamJoin" => "window" \in DOMAIN edge)' /\ kind' = kind
  BY ContinuingNext, CollectingNext DEF Measuring, Next, Arrive, Tick, HandOver, TakeSnapshot, Damage,
     OpenJob, FlinkStep, vars
<1>1. CASE Arrive
  <2>1. PICK input \in Inputs[kind] :
          /\ seen' = Append(seen, Over(input, [timestamp |-> clock]))
          /\ edge' = Process(kind, edge, Over(input, [timestamp |-> clock]), clock).state
    BY <1>1 DEF Arrive
  <2>2. PICK r \in Record(kind) : r = Over(input, [timestamp |-> clock])
    <3>1. <<input, clock>> \in Inputs[kind] \X Nat
      BY DEF Measuring, Collecting
    <3> QED BY <3>1 DEF Record
  <2>3. kind \in Moved /\ seen \in Seq(Record(kind)) /\ Exact
    BY DEF Measuring, Collecting
  <2>4. PICK n \in 1 .. MaxRecords : n = Len(seen) + 1
    BY <1>1, <2>3, TransferAssumption DEF Arrive
  <2>5. ASSUME kind = "StatAggregator"
        PROVE  Welford(edge', Column("value", seen')) /\ Extremes(edge', Column("value", seen'))
    <3> DEFINE q == Column("value", seen)
               x == Field(r, "value", 0)
    <3>1. /\ q \in Seq(Int) /\ Len(q) = Len(seen) /\ x \in Int
          /\ Column("value", Append(seen, r)) = Append(q, x)
          /\ SeqSum(Append(q, x)) \in Multiples(n)
          /\ Dev(Append(q, x), 0) \in Multiples(n)
      <4>1. \A y \in Record(kind) : Field(y, "value", 0) \in Multiples(n)
        BY <2>3, <2>5, ValuesAre
      <4>2. n \in Nat
        BY TransferAssumption
      <4> QED BY <2>3, <4>1, <4>2, ColumnAdds
    <3>2. edge' = Stat(edge, r).state
      BY <2>1, <2>2, <2>5 DEF Process
    <3>3. Welford(edge, q) /\ Extremes(edge, q)
      BY <2>3, <2>5 DEF Exact
    <3> HIDE DEF q
    <3>4. Welford(Stat(edge, r).state, Append(q, x))
      BY <2>4, <3>1, <3>3, WelfordStays
    <3>5. Extremes(Stat(edge, r).state, Append(q, x))
      BY <3>1, <3>3, ExtremesStay
    <3> QED BY <2>1, <2>2, <3>1, <3>2, <3>4, <3>5
  <2>6. ASSUME kind = "NormalizerOperator"
        PROVE  Normalized(edge', Column("sensor_value", seen'))
    <3> DEFINE q == Column("sensor_value", seen)
               x == Field(r, "sensor_value", 0)
    <3>1. /\ q \in Seq(Int) /\ Len(q) = Len(seen) /\ x \in Int
          /\ Column("sensor_value", Append(seen, r)) = Append(q, x)
          /\ SeqSum(Append(q, x)) \in Multiples(n)
          /\ Dev(Append(q, x), 0) \in Multiples(n)
      <4>1. \A y \in Record(kind) : Field(y, "sensor_value", 0) \in Multiples(n)
        BY <2>3, <2>6, ValuesAre
      <4>2. n \in Nat
        BY TransferAssumption
      <4> QED BY <2>3, <4>1, <4>2, ColumnAdds
    <3>2. edge' = Normalizer(edge, r).state
      BY <2>1, <2>2, <2>6 DEF Process
    <3>3. Normalized(edge, q)
      BY <2>3, <2>6 DEF Exact
    <3> HIDE DEF q
    <3>4. Normalized(Normalizer(edge, r).state, Append(q, x))
      BY <2>4, <3>1, <3>3, NormalizedStays
    <3> QED BY <2>1, <2>2, <3>1, <3>2, <3>4
  <2> QED BY <1>0, <2>5, <2>6 DEF Measuring, Exact
<1>2. CASE HandOver
  <2>1. edge' = RestoreState(kind, GetState(kind, edge), clock) /\ seen' = seen
    BY <1>2 DEF HandOver
  <2>2. kind \in {"StatAggregator", "NormalizerOperator"} => edge' = edge
    <3>1. ASSUME kind \in {"StatAggregator", "NormalizerOperator"} PROVE edge' = edge
      <4>1. kind \in Kinds \ Lossy /\ Whole(kind, edge)
        BY <3>1 DEF Measuring, Continuing, Kinds, Lossy
      <4> QED BY <2>1, <4>1, RestoredIsSame
    <3> QED BY <3>1
  <2>3. Exact
    BY DEF Measuring
  <2> QED BY <1>0, <2>1, <2>2, <2>3 DEF Measuring, Exact
<1>3. CASE UNCHANGED <<kind, seen, edge>>
  BY <1>0, <1>3 DEF Measuring, Exact
<1>4. CASE Tick \/ TakeSnapshot \/ Damage \/ OpenJob \/ FlinkStep \/ UNCHANGED vars
  BY <1>3, <1>4 DEF Tick, TakeSnapshot, Damage, OpenJob, FlinkStep, vars
<1> QED BY <1>1, <1>2, <1>4 DEF Next

LEMMA ExactFigures == Measuring => StatisticsExact
<1> SUFFICES ASSUME Measuring PROVE StatisticsExact
  OBVIOUS
<1>1. PICK n \in Nat : n = Len(seen)
  BY DEF Measuring, Collecting
<1>2. \A f : Values(f) = Column(f, seen) /\ DOMAIN Column(f, seen) = 1 .. n /\ Len(Column(f, seen)) = n
  BY <1>1 DEF Values, Column
<1>3. \A f, m : Dev(Column(f, seen), m) = SeqSum([i \in 1 .. n |-> Square(Column(f, seen)[i] - m)])
  BY <1>2 DEF Dev, Squares
<1>4. ASSUME kind = "StatAggregator", n > 0
      PROVE  LET q == Values("value")
             IN  /\ edge.count = n /\ n * edge.mean = SeqSum(q)
                 /\ edge.m2 = SeqSum([i \in 1 .. n |-> Square(q[i] - edge.mean)])
                 /\ edge.min = Min(ToSet(q)) /\ edge.max = Max(ToSet(q))
  <2> DEFINE q == Column("value", seen)
  <2>1. Welford(edge, q) /\ Extremes(edge, q)
    BY <1>4 DEF Measuring, Exact
  <2>2. q # <<>> /\ q \in Seq(Int)
    <3>1. \A x \in Record(kind) : Field(x, "value", 0) \in Int
      <4> TAKE x \in Record(kind)
      <4>1. PICK input \in Inputs["StatAggregator"], t \in Nat : x = Over(input, [timestamp |-> t])
        BY <1>4 DEF Record
      <4>2. Field(x, "value", 0) = Field(input, "value", 0)
        BY <4>1 DEF Field, Over
      <4> QED BY <1>4, <4>2, NumbersAre DEF Measuring, Collecting
    <3>2. \A i \in 1 .. n : seen[i] \in Record(kind)
      BY <1>1 DEF Measuring, Collecting
    <3>3. q \in [1 .. n -> Int]
      BY <1>1, <3>1, <3>2 DEF Column
    <3>4. Len(q) = n
      BY <1>2
    <3> HIDE DEF q
    <3> QED BY <1>4, <3>3, <3>4
  <2>3. ToSet(q) \subseteq Int
    BY <2>2 DEF ToSet
  <2> HIDE DEF q
  <2>4. edge.min = Min(ToSet(q)) /\ edge.max = Max(ToSet(q))
    <3>1. /\ edge.min \in ToSet(q) /\ \A v \in ToSet(q) : edge.min <= v
          /\ edge.max \in ToSet(q) /\ \A v \in ToSet(q) : v <= edge.max
      BY <2>1, <2>2 DEF Extremes
    <3>2. \A x \in ToSet(q) : (\A v \in ToSet(q) : x <= v) => x = edge.min
      BY <2>3, <3>1
    <3>3. \A x \in ToSet(q) : (\A v \in ToSet(q) : x >= v) => x = edge.max
      BY <2>3, <3>1
    <3>4. \A v \in ToSet(q) : edge.max >= v
      BY <2>3, <3>1
    <3> QED BY <3>1, <3>2, <3>3, <3>4 DEF Min, Max
  <2> QED BY <1>2, <1>3, <2>1, <2>4 DEF Welford, IsMean, q
<1>5. ASSUME kind = "NormalizerOperator", n > 0
      PROVE  LET q == Values("sensor_value")
             IN  /\ edge.count = n /\ n * edge.mean = SeqSum(q)
                 /\ n * edge.variance = SeqSum([i \in 1 .. n |-> Square(q[i] - edge.mean)])
  <2>1. Normalized(edge, Column("sensor_value", seen))
    BY <1>5 DEF Measuring, Exact
  <2> QED BY <1>2, <1>3, <2>1 DEF Normalized, IsMean
<1> QED BY <1>1, <1>4, <1>5 DEF StatisticsExact

\* However often and whenever it is handed over, an instance has the mean, the squared
\* deviations, the minimum and the maximum of all values so far (Welford's update in
\* stat_agg.py and normalizer.py, process, get_state and restore_state), as long as no
\* division is rounded.
THEOREM StatisticsAreExact == NoRemainder /\ Spec => []StatisticsExact
<1>1. NoRemainder => NoRemainder'
  BY DEF NoRemainder
<1>2. NoRemainder /\ Measuring /\ [Next]_vars => Measuring'
  BY ExactNext
<1> QED BY ExactInit, <1>1, <1>2, ExactFigures, PTL DEF Spec
-----------------------------------------------------------------------------
(* The job on Flink.                                                          *)

\* What process makes of the state, and of a new instance's with the records q.
Step(k, s, r) == Process(k, s, r, 0).state
ReplayOf(k, q) == FoldLeft(LAMBDA s, r : Process(k, s, r, 0).state, Fresh(k, 0), q)

\* t holds the states after the records at every set of positions, in their order.
Replays(t, k, q) ==
  t = [S \in SUBSET (1 .. Len(q)) |->
         IF S = {} THEN Fresh(k, 0) ELSE Step(k, t[S \ {Max(S)}], q[Max(S)])]

\* The greatest position.
LEMMA MaxIs ==
  ASSUME NEW n \in Nat, NEW S \in SUBSET (1 .. n), S # {}
  PROVE  Max(S) \in S /\ \A i \in S : i <= Max(S)
<1> DEFINE T == {n - i : i \in S}
<1>1. T \in SUBSET Nat /\ T # {}
  <2>1. \A i \in S : i \in 1 .. n
    OBVIOUS
  <2>2. \A i \in S : n - i \in Nat
    BY <2>1
  <2> QED BY <2>2
<1>2. PICK m \in T : \A j \in T : m <= j
  BY <1>1, LeastNumber
<1>3. PICK x \in S : m = n - x
  OBVIOUS
<1>4. \A i \in S : x >= i
  <2> TAKE i \in S
  <2>1. n - i \in T
    OBVIOUS
  <2>2. m <= n - i
    BY <1>2, <2>1
  <2> QED BY <1>3, <2>2
<1>5. Max(S) \in S /\ \A i \in S : Max(S) >= i
  BY <1>4 DEF Max
<1> QED BY <1>5

\* The fold takes the last record last.
LEMMA ReplayIs ==
  ASSUME NEW k, NEW R, NEW q \in Seq(R), NEW t, Replays(t, k, q)
  PROVE  ReplayOf(k, q) = t[1 .. Len(q)]
<1> DEFINE D == DOMAIN q
           Rule(s) == s = [S \in SUBSET D |->
                             IF S = {} THEN Fresh(k, 0)
                             ELSE Step(k, s[S \ {Max(S)}], q[Max(S)])]
<1>1. ReplayOf(k, q) = (CHOOSE s : Rule(s))[D]
  BY DEF ReplayOf, FoldLeft, MapThenFoldSet, Step
<1>2. D = 1 .. Len(q) /\ IsFiniteSet(D) /\ D \in SUBSET D /\ Len(q) \in Nat
  BY FS_Interval
<1>3. Rule(t)
  BY <1>2, Zenon DEF Replays
<1>4. ASSUME NEW s, Rule(s) PROVE s[D] = t[D]
  <2> DEFINE B == {S \in SUBSET D : s[S] # t[S]}
  <2>1. SUFFICES B = {}
    BY <1>2
  <2>2. SUFFICES ASSUME B # {} PROVE FALSE
    OBVIOUS
  <2>3. PICK S \in B : \A y \in S : S \ {y} \notin B
    BY <1>2, <2>2, SmallestSet
  <2>4. s[S] = IF S = {} THEN Fresh(k, 0) ELSE Step(k, s[S \ {Max(S)}], q[Max(S)])
    BY <1>4
  <2>5. t[S] = IF S = {} THEN Fresh(k, 0) ELSE Step(k, t[S \ {Max(S)}], q[Max(S)])
    BY <1>3
  <2>6. S # {} => s[S \ {Max(S)}] = t[S \ {Max(S)}]
    <3>1. ASSUME S # {} PROVE Max(S) \in S
      BY <1>2, <3>1, MaxIs
    <3> QED BY <2>3, <3>1
  <2> QED BY <2>3, <2>4, <2>5, <2>6
<1> HIDE DEF Rule
<1> QED BY <1>1, <1>2, <1>3, <1>4

\* The states with one record more.
LEMMA ReplaysMore ==
  ASSUME NEW k, NEW R, NEW q \in Seq(R), NEW r \in R, NEW t, Replays(t, k, q)
  PROVE  \E u : /\ Replays(u, k, Append(q, r))
                /\ u[1 .. Len(q) + 1] = Step(k, t[1 .. Len(q)], r)
<1>1. PICK n \in Nat : n = Len(q)
  OBVIOUS
<1>2. PICK p \in Seq(R) : p = Append(q, r) /\ Len(p) = n + 1 /\ p[n + 1] = r /\ \A i \in 1 .. n : p[i] = q[i]
  <2>1. /\ Append(q, r) \in Seq(R) /\ Len(Append(q, r)) = Len(q) + 1
        /\ Append(q, r)[Len(q) + 1] = r /\ \A i \in 1 .. Len(q) : Append(q, r)[i] = q[i]
    BY AppendProperties
  <2> QED BY <1>1, <2>1
<1> DEFINE D == 1 .. n
           E == 1 .. n + 1
           u == [S \in SUBSET E |-> IF n + 1 \in S THEN Step(k, t[S \ {n + 1}], r) ELSE t[S]]
<1>3. E = D \union {n + 1} /\ n + 1 \notin D
  OBVIOUS
<1>4. \A S \in SUBSET D : t[S] = IF S = {} THEN Fresh(k, 0) ELSE Step(k, t[S \ {Max(S)}], q[Max(S)])
  BY <1>1 DEF Replays
<1>5. ASSUME NEW S \in SUBSET E
      PROVE  u[S] = IF S = {} THEN Fresh(k, 0) ELSE Step(k, u[S \ {Max(S)}], p[Max(S)])
  <2>1. CASE n + 1 \in S
    <3>1. Max(S) \in S /\ n + 1 <= Max(S) /\ Max(S) \in E
      <4>1. PICK m \in Nat : m = n + 1
        OBVIOUS
      <4>2. S \in SUBSET (1 .. m) /\ S # {}
        BY <2>1, <4>1
      <4>3. Max(S) \in S /\ \A i \in S : i <= Max(S)
        BY <4>2, MaxIs
      <4> QED BY <2>1, <4>1, <4>3
    <3>2. Max(S) = n + 1
      BY <3>1
    <3>3. S \ {n + 1} \in SUBSET E /\ n + 1 \notin S \ {n + 1}
      OBVIOUS
    <3>4. u[S \ {n + 1}] = t[S \ {n + 1}]
      BY <3>3
    <3>5. u[S] = Step(k, t[S \ {n + 1}], r)
      BY <2>1
    <3> QED BY <1>2, <2>1, <3>2, <3>4, <3>5
  <2>2. CASE n + 1 \notin S
    <3>1. S \in SUBSET D /\ S \ {Max(S)} \in SUBSET E /\ n + 1 \notin S \ {Max(S)}
      BY <1>3, <2>2
    <3>2. u[S] = t[S] /\ u[S \ {Max(S)}] = t[S \ {Max(S)}]
      BY <2>2, <3>1
    <3>3. S # {} => p[Max(S)] = q[Max(S)]
      <4>1. ASSUME S # {} PROVE Max(S) \in D
        <5>1. Max(S) \in S
          BY <3>1, <4>1, MaxIs
        <5> QED BY <3>1, <5>1
      <4> QED BY <1>2, <4>1
    <3> QED BY <1>4, <3>1, <3>2, <3>3
  <2> QED BY <2>1, <2>2
<1>6. u[E] = Step(k, t[D], r)
  <2>1. E \in SUBSET E /\ n + 1 \in E /\ E \ {n + 1} = D
    BY <1>3
  <2> QED BY <2>1
<1>7. DOMAIN u = SUBSET E /\ u = [S \in SUBSET E |-> u[S]]
  OBVIOUS
<1> HIDE DEF u
<1>8. u = [S \in SUBSET E |-> IF S = {} THEN Fresh(k, 0) ELSE Step(k, u[S \ {Max(S)}], p[Max(S)])]
  BY <1>5, <1>7
<1>9. Replays(u, k, p)
  BY <1>2, <1>8 DEF Replays
<1> QED BY <1>1, <1>2, <1>6, <1>9

LEMMA ReplaysExist ==
  ASSUME NEW k, NEW R
  PROVE  \A q \in Seq(R) : \E t : Replays(t, k, q)
<1> DEFINE B == {q \in Seq(R) : \E t : Replays(t, k, q)}
<1>1. <<>> \in B
  <2> DEFINE t == [S \in {{}} |-> Fresh(k, 0)]
             e == <<>>
  <2>1. 1 .. Len(e) = {} /\ SUBSET {} = {{}} /\ e \in Seq(R)
    OBVIOUS
  <2>2. Replays(t, k, e)
    BY <2>1 DEF Replays
  <2> QED BY <2>1, <2>2
<1>2. ASSUME NEW q \in B, NEW r \in R PROVE Append(q, r) \in B
  <2>1. PICK t : Replays(t, k, q)
    OBVIOUS
  <2>2. \E u : Replays(u, k, Append(q, r))
    <3>1. q \in Seq(R)
      OBVIOUS
    <3> HIDE DEF B
    <3> QED BY <2>1, <3>1, ReplaysMore
  <2>3. Append(q, r) \in Seq(R)
    BY AppendProperties
  <2> QED BY <2>2, <2>3
<1> HIDE DEF B
<1>3. B \in SUBSET Seq(R)
  BY DEF B
<1>4. B = Seq(R)
  BY <1>1, <1>2, <1>3, SequencesGrow
<1> QED BY <1>4 DEF B

\* The operator that starts over, record by record.
LEMMA ReplayGrows ==
  ASSUME NEW k, NEW R
  PROVE  /\ ReplayOf(k, <<>>) = Fresh(k, 0)
         /\ \A q \in Seq(R), r \in R : ReplayOf(k, Append(q, r)) = Step(k, ReplayOf(k, q), r)
<1>1. ReplayOf(k, <<>>) = Fresh(k, 0)
  <2> DEFINE e == <<>>
  <2>1. e \in Seq(R) /\ 1 .. Len(e) = {}
    OBVIOUS
  <2> HIDE DEF e
  <2>2. PICK t : Replays(t, k, e)
    BY <2>1, ReplaysExist
  <2>3. ReplayOf(k, e) = t[{}]
    BY <2>1, <2>2, ReplayIs
  <2>4. t[{}] = Fresh(k, 0)
    BY <2>1, <2>2 DEF Replays
  <2> QED BY <2>3, <2>4 DEF e
<1>2. ASSUME NEW q \in Seq(R), NEW r \in R
      PROVE  ReplayOf(k, Append(q, r)) = Step(k, ReplayOf(k, q), r)
  <2>1. PICK t : Replays(t, k, q)
    BY ReplaysExist
  <2>2. PICK u : Replays(u, k, Append(q, r)) /\ u[1 .. Len(q) + 1] = Step(k, t[1 .. Len(q)], r)
    BY <2>1, ReplaysMore
  <2>3. Append(q, r) \in Seq(R) /\ Len(Append(q, r)) = Len(q) + 1
    BY AppendProperties
  <2>4. ReplayOf(k, q) = t[1 .. Len(q)]
    BY <2>1, ReplayIs
  <2>5. ReplayOf(k, Append(q, r)) = u[1 .. Len(q) + 1]
    BY <2>2, <2>3, ReplayIs
  <2> QED BY <2>2, <2>4, <2>5
<1> QED BY <1>1, <1>2

\* What a job and an operator have in common that have both started with the
\* records q: the job's map m and the operator's state s.
SameLog(m, s, q) == Value(m, "logged_count", 0) = Len(q) /\ s.seq = Len(q)

SameRisk(m, s) == Value(m, "risk_limit", DefaultLimit) = DefaultLimit /\ s.limit = Limit

SameStat(m, s, v) ==
  /\ Welford(s, v) /\ (v = <<>> => s.mean = 0)
  /\ Value(m, "count", 0) = Len(v) /\ Value(m, "sum", 0) = SeqSum(v) /\ Value(m, "m2", 0) = s.m2

\* A number is there or it is missing.
LEMMA ValueIs ==
  ASSUME NEW r, NEW f, Field(r, f, 0) \in Int
  PROVE  Value(r, f, 0) = Field(r, f, 0)
BY NumbersAssumption DEF Value, Field

\* One record, in Java and in Python.
LEMMA LogStep ==
  ASSUME NEW m, NEW s, NEW r, NEW n \in Nat, Value(m, "logged_count", 0) = n, s.seq = n
  PROVE  /\ Value(FlinkLogger(m, r).state, "logged_count", 0) = n + 1
         /\ Logger(s, r).state.seq = n + 1
         /\ FlinkLogger(m, r).out[1].log_sequence = Logger(s, r).out[1].log_sequence
<1>1. FlinkLogger(m, r) = [state |-> Put(m, "logged_count", n + 1), out |-> <<[log_sequence |-> n + 1]>>]
  BY DEF FlinkLogger
<1>2. Logger(s, r).state.seq = n + 1 /\ Logger(s, r).out = <<[log_sequence |-> n + 1]>>
  BY DEF Logger
<1>3. Value(Put(m, "logged_count", n + 1), "logged_count", 0) = n + 1
  <2>1. n + 1 # None
    BY NumbersAssumption
  <2>2. /\ "logged_count" \in DOMAIN Put(m, "logged_count", n + 1)
        /\ Put(m, "logged_count", n + 1)["logged_count"] = n + 1
    BY DEF Put
  <2> QED BY <2>1, <2>2 DEF Value, Field
<1> QED BY <1>1, <1>2, <1>3

LEMMA RiskStep ==
  ASSUME NEW m, NEW s, NEW r, SameRisk(m, s), Field(r, "exposure", 0) \in Int
  PROVE  /\ SameRisk(FlinkRisk(m, r).state, Risk(s, r).state)
         /\ Limit <= DefaultLimit =>
              (FlinkRisk(m, r).out[1].risk_exceeded => Risk(s, r).out[1].risk_exceeded)
<1>1. PICK x \in Int : x = Field(r, "exposure", 0) /\ x = Value(r, "exposure", 0)
  BY ValueIs
<1>2. FlinkRisk(m, r) = [state |-> m, out |-> <<[risk_exceeded |-> x > DefaultLimit]>>]
  BY <1>1 DEF FlinkRisk, SameRisk
<1>3. Risk(s, r).state.limit = Limit /\ Risk(s, r).out[1].risk_exceeded = (MaxOf(0, x) > Limit)
  BY <1>1 DEF Risk, SameRisk
<1>4. Limit <= DefaultLimit /\ x > DefaultLimit => MaxOf(0, x) > Limit
  BY TransferAssumption DEF MaxOf, DefaultLimit
<1>5. SameRisk(m, Risk(s, r).state)
  BY <1>3 DEF SameRisk
<1>6. FlinkRisk(m, r).out[1].risk_exceeded = (x > DefaultLimit) /\ FlinkRisk(m, r).state = m
  BY <1>2
<1> QED BY <1>3, <1>4, <1>5, <1>6 DEF SameRisk

\* The means of the two are the same, and so are the squared deviations.
LEMMA StatStep ==
  ASSUME NEW m, NEW s, NEW r, NEW v \in Seq(Int), SameStat(m, s, v),
         NEW x \in Int, x = Field(r, "value", 0), SeqSum(Append(v, x)) \in Multiples(Len(v) + 1)
  PROVE  /\ SameStat(FlinkStat(m, r).state, Stat(s, r).state, Append(v, x))
         /\ FlinkStat(m, r).out[1].count = Len(v) + 1
         /\ Stat(s, r).out # <<>> =>
              /\ FlinkStat(m, r).out[1].mean = Stat(s, r).out[1].mean
              /\ FlinkStat(m, r).out[1].variance = Stat(s, r).out[1].variance
<1> DEFINE w == Append(v, x)
<1>1. PICK n \in Nat : n = Len(v)
  OBVIOUS
<1>2. w \in Seq(Int) /\ Len(w) = n + 1 /\ w # <<>>
  BY <1>1, AppendProperties
<1>3. PICK sum \in Int, total \in Int : sum = SeqSum(v) /\ total = SeqSum(w) /\ total = sum + x
  BY SumGrows
<1>4. PICK mean \in Int, dev \in Int :
        /\ mean = s.mean /\ dev = s.m2 /\ n * mean = sum /\ s.count = n
        /\ (n = 0 => mean = 0)
        /\ Value(m, "count", 0) = n /\ Value(m, "sum", 0) = sum /\ Value(m, "m2", 0) = dev
  <2>1. Welford(s, v) /\ (v = <<>> => s.mean = 0)
        /\ Value(m, "count", 0) = Len(v) /\ Value(m, "sum", 0) = SeqSum(v) /\ Value(m, "m2", 0) = s.m2
    BY DEF SameStat
  <2>2. s.mean \in Int /\ n * s.mean = sum /\ s.count = n /\ s.m2 = Dev(v, s.mean)
    BY <1>1, <1>3, <2>1 DEF Welford, IsMean
  <2>3. s.m2 \in Int
    <3>1. \A k \in Int : Dev(v, k) \in Int
      BY DevGrows
    <3> QED BY <2>2, <3>1
  <2>4. n = 0 => v = <<>>
    BY <1>1, EmptySeq
  <2> QED BY <1>1, <1>3, <2>1, <2>2, <2>3, <2>4
<1>5. PICK a \in Int, d \in Int :
        /\ a = Stat(s, r).state.mean /\ d = Stat(s, r).state.m2
        /\ (n + 1) * a = total /\ d = dev + (x - mean) * (x - a)
        /\ Welford(Stat(s, r).state, w)
  <2>1. Welford(s, v)
    BY DEF SameStat
  <2>2. /\ Welford(Stat(s, r).state, w)
        /\ Stat(s, r).state.m2 = s.m2 + (x - s.mean) * (x - Stat(s, r).state.mean)
    <3>1. \A q \in Seq(Int), y \in Int :
            (Welford(s, q) /\ y = Field(r, "value", 0) /\ SeqSum(Append(q, y)) \in Multiples(Len(q) + 1))
              => /\ Welford(Stat(s, r).state, Append(q, y))
                 /\ Stat(s, r).state.m2 = s.m2 + (y - s.mean) * (y - Stat(s, r).state.mean)
      BY WelfordStays
    <3> QED BY <2>1, <3>1
  <2>3. Stat(s, r).state.mean \in Int /\ (n + 1) * Stat(s, r).state.mean = total
    BY <1>2, <1>3, <2>2 DEF Welford, IsMean
  <2>4. Stat(s, r).state.m2 = dev + (x - mean) * (x - Stat(s, r).state.mean)
    BY <1>4, <2>2
  <2>5. dev + (x - mean) * (x - Stat(s, r).state.mean) \in Int
    BY <2>3
  <2> QED BY <2>2, <2>3, <2>4, <2>5
<1> HIDE DEF w
<1>6. sum \div MaxOf(1, (n + 1) - 1) = mean
  <2>1. CASE n = 0
    <3>1. sum = 0 /\ mean = 0 /\ MaxOf(1, (n + 1) - 1) = 1
      BY <1>4, <2>1 DEF MaxOf
    <3>2. 0 \div 1 = 0
      OBVIOUS
    <3> QED BY <3>1, <3>2
  <2>2. CASE n > 0
    <3>1. MaxOf(1, (n + 1) - 1) = n
      BY <2>2 DEF MaxOf
    <3>2. (n * mean) \div n = mean
      BY <1>4, <2>2, Quotient
    <3> QED BY <1>4, <3>1, <3>2
  <2> QED BY <2>1, <2>2
<1>7. total \div (n + 1) = a
  <2>1. ((n + 1) * a) \div (n + 1) = a
    BY Quotient
  <2> QED BY <1>5, <2>1
<1>8. Value(r, "value", 0) = x
  BY ValueIs
<1>9. FlinkStat(m, r) = [state |-> Over([count |-> n + 1, sum |-> total, m2 |-> d], m),
                         out   |-> <<[count |-> n + 1, mean |-> a,
                                      variance |-> IF n + 1 > 1 THEN d \div ((n + 1) - 1) ELSE 0]>>]
  <2>1. (sum + x) - x = sum
    OBVIOUS
  <2>2. FlinkStat(m, r) =
          [state |-> Over([count |-> n + 1, sum |-> total,
                           m2 |-> dev + (x - sum \div MaxOf(1, (n + 1) - 1)) * (x - total \div (n + 1))], m),
           out   |-> <<[count |-> n + 1, mean |-> total \div (n + 1),
                        variance |-> IF n + 1 > 1
                                     THEN (dev + (x - sum \div MaxOf(1, (n + 1) - 1)) * (x - total \div (n + 1)))
                                            \div ((n + 1) - 1)
                                     ELSE 0]>>]
    BY <1>3, <1>4, <1>8, <2>1 DEF FlinkStat
  <2> QED BY <1>5, <1>6, <1>7, <2>2
<1>10. /\ Value(FlinkStat(m, r).state, "count", 0) = n + 1
       /\ Value(FlinkStat(m, r).state, "sum", 0) = total
       /\ Value(FlinkStat(m, r).state, "m2", 0) = d
  <2> DEFINE new == [count |-> n + 1, sum |-> total, m2 |-> d]
             o == Over(new, m)
  <2>1. {"count", "sum", "m2"} \subseteq DOMAIN o /\ o["count"] = n + 1 /\ o["sum"] = total /\ o["m2"] = d
    BY DEF Over
  <2>2. n + 1 # None /\ total # None /\ d # None
    BY NumbersAssumption
  <2> HIDE DEF o
  <2>3. Value(o, "count", 0) = n + 1 /\ Value(o, "sum", 0) = total /\ Value(o, "m2", 0) = d
    BY <2>1, <2>2 DEF Value, Field
  <2> QED BY <1>9, <2>3 DEF o
<1>11. SameStat(FlinkStat(m, r).state, Stat(s, r).state, w)
  BY <1>2, <1>3, <1>5, <1>10 DEF SameStat
<1>12. Stat(s, r).out # <<>> =>
         /\ Stat(s, r).out[1].mean = a
         /\ Stat(s, r).out[1].variance = IF n + 1 > 1 THEN d \div ((n + 1) - 1) ELSE 0
  BY <1>4, <1>5 DEF Stat
<1> QED BY <1>1, <1>9, <1>11, <1>12 DEF w

\* The records after the first d of s, up to the n-th.
Part(s, d, n) == SubSeq(s, d + 1, n)

LEMMA PartIs ==
  ASSUME NEW R, NEW s \in Seq(R), NEW n \in 0 .. Len(s), NEW d \in 0 .. n
  PROVE  /\ Part(s, d, n) \in Seq(R) /\ Len(Part(s, d, n)) = n - d
         /\ \A i \in 1 .. n - d : Part(s, d, n)[i] = s[d + i]
<1>1. PICK l \in Nat : l = Len(s) /\ n \in 0 .. l
  OBVIOUS
<1>2. PICK e \in Int : e = d + 1 /\ n - e + 1 = n - d /\ \A i \in Int : e + i - 1 = d + i
  OBVIOUS
<1>3. \A i \in e .. n : s[i] \in R
  <2>1. \A i \in e .. n : i \in 1 .. l
    BY <1>1, <1>2
  <2> QED BY <1>1, <2>1
<1>4. /\ SubSeq(s, e, n) \in Seq(R)
      /\ Len(SubSeq(s, e, n)) = IF e <= n THEN n - e + 1 ELSE 0
      /\ \A i \in 1 .. n - e + 1 : SubSeq(s, e, n)[i] = s[e + i - 1]
  <2>1. n \in Int
    OBVIOUS
  <2> QED BY <1>3, <2>1, SubSeqProperties
<1>5. (IF e <= n THEN n - e + 1 ELSE 0) = n - d
  BY <1>2
<1>6. \A i \in 1 .. n - d : SubSeq(s, e, n)[i] = s[d + i]
  BY <1>2, <1>4
<1> QED BY <1>2, <1>4, <1>5, <1>6 DEF Part

LEMMA PartGrows ==
  ASSUME NEW R, NEW s \in Seq(R), NEW n \in 0 .. Len(s), NEW d \in 0 .. n, n < Len(s)
  PROVE  Part(s, d, n + 1) = Append(Part(s, d, n), s[n + 1]) /\ s[n + 1] \in R
<1>1. PICK m \in Nat : m = n - d /\ m + 1 = (n + 1) - d /\ d + (m + 1) = n + 1
  OBVIOUS
<1>2. s[n + 1] \in R
  <2>1. n + 1 \in 1 .. Len(s)
    OBVIOUS
  <2> QED BY <2>1, ElementOfSeq
<1>3. PICK p \in Seq(R) : p = Part(s, d, n) /\ Len(p) = m /\ \A i \in 1 .. m : p[i] = s[d + i]
  <2>1. /\ Part(s, d, n) \in Seq(R) /\ Len(Part(s, d, n)) = n - d
        /\ \A i \in 1 .. n - d : Part(s, d, n)[i] = s[d + i]
    BY PartIs
  <2> QED BY <1>1, <2>1
<1>4. PICK q \in Seq(R) : q = Part(s, d, n + 1) /\ Len(q) = m + 1 /\ \A i \in 1 .. m + 1 : q[i] = s[d + i]
  <2>1. PICK k \in 0 .. Len(s) : k = n + 1 /\ d \in 0 .. k
    OBVIOUS
  <2>2. /\ Part(s, d, k) \in Seq(R) /\ Len(Part(s, d, k)) = k - d
        /\ \A i \in 1 .. k - d : Part(s, d, k)[i] = s[d + i]
    BY <2>1, PartIs
  <2> QED BY <1>1, <2>1, <2>2
<1>5. PICK a \in Seq(R) : a = Append(p, s[n + 1]) /\ Len(a) = m + 1 /\ a[m + 1] = s[n + 1]
                         /\ \A i \in 1 .. m : a[i] = p[i]
  <2>1. /\ Append(p, s[n + 1]) \in Seq(R) /\ Len(Append(p, s[n + 1])) = Len(p) + 1
        /\ Append(p, s[n + 1])[Len(p) + 1] = s[n + 1] /\ \A i \in 1 .. Len(p) : Append(p, s[n + 1])[i] = p[i]
    BY <1>2, AppendProperties
  <2> QED BY <1>3, <2>1
<1>6. ASSUME NEW i \in 1 .. m + 1 PROVE a[i] = q[i]
  <2>1. CASE i = m + 1
    BY <1>1, <1>4, <1>5, <2>1
  <2>2. CASE i \in 1 .. m
    BY <1>3, <1>4, <1>5, <2>2
  <2> QED BY <2>1, <2>2
<1>7. a = q
  BY <1>4, <1>5, <1>6, SeqEqual
<1> QED BY <1>2, <1>3, <1>4, <1>5, <1>7

LEMMA PartStays ==
  ASSUME NEW R, NEW s \in Seq(R), NEW n \in 0 .. Len(s), NEW d \in 0 .. n, NEW r \in R
  PROVE  Part(Append(s, r), d, n) = Part(s, d, n)
<1>1. PICK l \in Nat : l = Len(s) /\ n \in 0 .. l
  OBVIOUS
<1>2. PICK t \in Seq(R) : t = Append(s, r) /\ Len(t) = l + 1 /\ \A i \in 1 .. l : t[i] = s[i]
  <2>1. /\ Append(s, r) \in Seq(R) /\ Len(Append(s, r)) = Len(s) + 1
        /\ \A i \in 1 .. Len(s) : Append(s, r)[i] = s[i]
    BY AppendProperties
  <2> QED BY <1>1, <2>1
<1>3. n \in 0 .. Len(t)
  BY <1>1, <1>2
<1>4. PICK p \in Seq(R) : p = Part(s, d, n) /\ Len(p) = n - d /\ \A i \in 1 .. n - d : p[i] = s[d + i]
  <2>1. /\ Part(s, d, n) \in Seq(R) /\ Len(Part(s, d, n)) = n - d
        /\ \A i \in 1 .. n - d : Part(s, d, n)[i] = s[d + i]
    BY PartIs
  <2> QED BY <2>1
<1>5. PICK q \in Seq(R) : q = Part(t, d, n) /\ Len(q) = n - d /\ \A i \in 1 .. n - d : q[i] = t[d + i]
  <2>1. /\ Part(t, d, n) \in Seq(R) /\ Len(Part(t, d, n)) = n - d
        /\ \A i \in 1 .. n - d : Part(t, d, n)[i] = t[d + i]
    BY <1>3, PartIs
  <2> QED BY <2>1
<1>6. \A i \in 1 .. n - d : p[i] = q[i]
  <2> TAKE i \in 1 .. n - d
  <2>1. d + i \in 1 .. l
    BY <1>1
  <2> QED BY <1>2, <1>4, <1>5, <2>1
<1>7. p = q
  BY <1>4, <1>5, <1>6, SeqEqual
<1> QED BY <1>2, <1>4, <1>5, <1>7

\* A sequence and the record that was appended to it.
LEMMA FrontLast ==
  ASSUME NEW R, NEW q \in Seq(R), NEW r \in R
  PROVE  Front(Append(q, r)) = q /\ Last(Append(q, r)) = r /\ Append(q, r) # <<>>
<1>1. PICK n \in Nat : n = Len(q)
  OBVIOUS
<1>2. Len(Append(q, r)) = n + 1 /\ Append(q, r)[n + 1] = r /\ Append(q, r) # <<>>
  BY <1>1, AppendProperties
<1>3. Front(Append(q, r)) = SubSeq(Append(q, r), 1, n)
  <2>1. (n + 1) - 1 = n
    OBVIOUS
  <2> QED BY <1>2, <2>1 DEF Front
<1>4. SubSeq(Append(q, r), 1, n) = q
  <2>1. n \in 0 .. Len(q) /\ 0 \in 0 .. n /\ 0 + 1 = 1
    BY <1>1
  <2>2. Part(Append(q, r), 0, n) = Part(q, 0, n)
    BY <2>1, PartStays
  <2>3. Part(q, 0, n) = q
    <3>1. Part(q, 0, n) = SubSeq(q, 1, Len(q))
      BY <1>1, <2>1 DEF Part
    <3> QED BY <3>1, SubSeqFull
  <2> QED BY <2>1, <2>2, <2>3 DEF Part
<1> QED BY <1>2, <1>3, <1>4 DEF Last

\* The map that the logic of a job works on.
JobMap(st) == IF st = <<>> THEN <<>> ELSE st[1]

Alike(k, m, q) ==
  /\ k = "ComplianceLogger" => SameLog(m, ReplayOf(k, q), q)
  /\ k = "RiskCheck" => SameRisk(m, ReplayOf(k, q))
  /\ k = "StatAggregator" => SameStat(m, ReplayOf(k, q), Column("value", q))

\* What FlinkStartsOver says of the output after the records q.
SaysSame(k, out, q) ==
  out # <<>> =>
    LET py == Process(k, ReplayOf(k, Front(q)), Last(q), 0).out
        fl == out[1]
    IN  /\ q # <<>>
        /\ k = "ComplianceLogger" => fl.log_sequence = py[1].log_sequence
        /\ k = "StatAggregator" => /\ fl.count = Len(q)
                                   /\ py # <<>> => /\ fl.mean = py[1].mean
                                                   /\ fl.variance = py[1].variance
        /\ k = "RiskCheck" /\ Limit <= DefaultLimit => (fl.risk_exceeded => py[1].risk_exceeded)

\* A restored state has none of the names that the logic looks for.
LEMMA StartAlike ==
  ASSUME NEW k, NEW m, DOMAIN m \cap StateNames = {}
  PROVE  Alike(k, m, <<>>)
<1> DEFINE e == <<>>
<1>1. ReplayOf(k, e) = Fresh(k, 0)
  BY ReplayGrows
<1>2. \A f, d : f \in StateNames /\ d # None => Value(m, f, d) = d
  BY DEF Value, Field
<1>3. Len(e) = 0 /\ SeqSum(e) = 0 /\ Column("value", e) = e
  BY SumGrows DEF Column
<1>4. 0 # None /\ DefaultLimit # None
  BY NumbersAssumption DEF DefaultLimit
<1>5. ASSUME k = "ComplianceLogger" PROVE SameLog(m, Fresh(k, 0), e)
  <2>1. Fresh(k, 0) = LoggerState
    BY <1>5 DEF Fresh, NewLogger
  <2>2. Fresh(k, 0).seq = 0
    BY <2>1 DEF LoggerState
  <2> QED BY <1>2, <1>3, <1>4, <2>2 DEF SameLog, StateNames
<1>6. ASSUME k = "RiskCheck" PROVE SameRisk(m, Fresh(k, 0))
  <2>1. Fresh(k, 0).limit = Limit
    BY <1>6 DEF Fresh, NewRisk, RiskState
  <2> QED BY <1>2, <1>4, <2>1 DEF SameRisk, StateNames
<1>7. ASSUME k = "StatAggregator" PROVE SameStat(m, Fresh(k, 0), e)
  <2>1. Fresh(k, 0) = StatState
    BY <1>7 DEF Fresh, NewStat
  <2>2. Fresh(k, 0).count = 0 /\ Fresh(k, 0).mean = 0 /\ Fresh(k, 0).m2 = 0
    BY <2>1 DEF StatState
  <2>3. Dev(e, 0) = 0 /\ 0 \in Int /\ 0 * 0 = 0
    BY DevGrows
  <2> HIDE DEF e
  <2>4. Welford(Fresh(k, 0), e)
    BY <1>3, <2>2, <2>3 DEF Welford, IsMean
  <2> QED BY <1>2, <1>3, <1>4, <2>2, <2>4 DEF SameStat, StateNames
<1> HIDE DEF e
<1>8. Alike(k, m, e)
  BY <1>1, <1>3, <1>5, <1>6, <1>7 DEF Alike
<1> QED BY <1>8 DEF e

\* A field of a record is that of its input.
LEMMA FieldsAre ==
  /\ "RiskCheck" \in Moved => \A r \in Record("RiskCheck") : Field(r, "exposure", 0) \in Int
  /\ "StatAggregator" \in Moved => \A r \in Record("StatAggregator") : Field(r, "value", 0) \in Int
<1>1. ASSUME NEW k, NEW r \in Record(k)
      PROVE  \E input \in Inputs[k] : \A f : f # "timestamp" => Field(r, f, 0) = Field(input, f, 0)
  <2>1. PICK input \in Inputs[k], t \in Nat : r = Over(input, [timestamp |-> t])
    BY DEF Record
  <2>2. \A f : f # "timestamp" => Field(r, f, 0) = Field(input, f, 0)
    BY <2>1 DEF Field, Over
  <2> QED BY <2>2
<1>2. "exposure" # "timestamp" /\ "value" # "timestamp"
  OBVIOUS
<1>3. ASSUME "RiskCheck" \in Moved, NEW r \in Record("RiskCheck") PROVE Field(r, "exposure", 0) \in Int
  <2>1. PICK input \in Inputs["RiskCheck"] : \A f : f # "timestamp" => Field(r, f, 0) = Field(input, f, 0)
    BY <1>1
  <2>2. Field(r, "exposure", 0) = Field(input, "exposure", 0)
    BY <1>2, <2>1
  <2> QED BY <1>3, <2>2, NumbersAre
<1>4. ASSUME "StatAggregator" \in Moved, NEW r \in Record("StatAggregator") PROVE Field(r, "value", 0) \in Int
  <2>1. PICK input \in Inputs["StatAggregator"] : \A f : f # "timestamp" => Field(r, f, 0) = Field(input, f, 0)
    BY <1>1
  <2>2. Field(r, "value", 0) = Field(input, "value", 0)
    BY <1>2, <2>1
  <2> QED BY <1>4, <2>2, NumbersAre
<1> QED BY <1>3, <1>4

\* The job takes one record more.
LEMMA TakesAlike ==
  ASSUME NoRemainder, NEW k \in Moved, NEW q \in Seq(Record(k)), Len(q) < MaxRecords,
         NEW r \in Record(k), NEW m, Alike(k, m, q)
  PROVE  /\ Alike(k, FlinkLogic(k, m, r).state, Append(q, r))
         /\ SaysSame(k, FlinkLogic(k, m, r).out, Append(q, r))
<1> DEFINE s == ReplayOf(k, q)
           p == Append(q, r)
           fl == FlinkLogic(k, m, r)
           py == Process(k, s, r, 0)
<1>1. PICK n \in Nat : n = Len(q) /\ n + 1 \in 1 .. MaxRecords
  BY TransferAssumption
<1>2. Front(p) = q /\ Last(p) = r /\ p # <<>> /\ Len(p) = n + 1
  <2>1. Len(p) = n + 1
    BY <1>1, AppendProperties
  <2>2. Front(p) = q /\ Last(p) = r /\ p # <<>>
    BY FrontLast
  <2> QED BY <2>1, <2>2
<1>3. ReplayOf(k, p) = py.state
  <2>1. \A t \in Seq(Record(k)), x \in Record(k) : ReplayOf(k, Append(t, x)) = Step(k, ReplayOf(k, t), x)
    BY ReplayGrows
  <2> QED BY <2>1 DEF Step
<1> HIDE DEF s, p
<1>4. CASE k = "ComplianceLogger"
  <2>1. Value(m, "logged_count", 0) = n /\ s.seq = n
    BY <1>1, <1>4 DEF Alike, SameLog, s
  <2>2. fl = FlinkLogger(m, r) /\ py = Logger(s, r)
    BY <1>4 DEF FlinkLogic, Process
  <2> HIDE DEF fl, py
  <2>3. /\ Value(fl.state, "logged_count", 0) = n + 1 /\ py.state.seq = n + 1
        /\ fl.out[1].log_sequence = py.out[1].log_sequence
    BY <2>1, <2>2, LogStep
  <2>4. Alike(k, fl.state, p)
    BY <1>2, <1>3, <1>4, <2>3 DEF Alike, SameLog
  <2>5. SaysSame(k, fl.out, p)
    BY <1>2, <1>4, <2>3 DEF SaysSame, py, s
  <2> QED BY <2>4, <2>5 DEF fl, p
<1>5. CASE k = "RiskCheck"
  <2>1. SameRisk(m, s) /\ Field(r, "exposure", 0) \in Int
    BY <1>5, FieldsAre DEF Alike, s
  <2>2. fl = FlinkRisk(m, r) /\ py = Risk(s, r)
    BY <1>5 DEF FlinkLogic, Process
  <2> HIDE DEF fl, py
  <2>3. /\ SameRisk(fl.state, py.state)
        /\ Limit <= DefaultLimit => (fl.out[1].risk_exceeded => py.out[1].risk_exceeded)
    BY <2>1, <2>2, RiskStep
  <2>4. Alike(k, fl.state, p)
    BY <1>3, <1>5, <2>3 DEF Alike
  <2>5. SaysSame(k, fl.out, p)
    BY <1>2, <1>5, <2>3 DEF SaysSame, py, s
  <2> QED BY <2>4, <2>5 DEF fl, p
<1>6. CASE k = "StatAggregator"
  <2> DEFINE v == Column("value", q)
             x == Field(r, "value", 0)
  <2>1. /\ v \in Seq(Int) /\ Len(v) = n /\ x \in Int /\ Column("value", p) = Append(v, x)
        /\ SeqSum(Append(v, x)) \in Multiples(n + 1)
    <3>1. \A y \in Record(k) : Field(y, "value", 0) \in Multiples(n + 1)
      BY <1>1, <1>6, ValuesAre
    <3>2. PICK d \in Nat : d = n + 1
      OBVIOUS
    <3>3. \A y \in Record(k) : Field(y, "value", 0) \in Multiples(d)
      BY <3>1, <3>2
    <3>4. /\ Column("value", q) \in Seq(Int) /\ Len(Column("value", q)) = Len(q) /\ Field(r, "value", 0) \in Int
          /\ Column("value", Append(q, r)) = Append(Column("value", q), Field(r, "value", 0))
          /\ SeqSum(Append(Column("value", q), Field(r, "value", 0))) \in Multiples(d)
          /\ Dev(Append(Column("value", q), Field(r, "value", 0)), 0) \in Multiples(d)
      BY <3>3, ColumnAdds
    <3> QED BY <1>1, <3>2, <3>4 DEF p
  <2>2. fl = FlinkStat(m, r) /\ py = Stat(s, r)
    BY <1>6 DEF FlinkLogic, Process
  <2>3. SameStat(m, s, v)
    BY <1>6 DEF Alike, s
  <2> HIDE DEF fl, py, v
  <2>4. /\ SameStat(fl.state, py.state, Append(v, x))
        /\ fl.out[1].count = n + 1
        /\ py.out # <<>> => /\ fl.out[1].mean = py.out[1].mean
                            /\ fl.out[1].variance = py.out[1].variance
    BY <2>1, <2>2, <2>3, StatStep
  <2>5. Alike(k, fl.state, p)
    BY <1>3, <1>6, <2>1, <2>4 DEF Alike
  <2>6. SaysSame(k, fl.out, p)
    BY <1>2, <1>6, <2>4 DEF SaysSame, py, s
  <2> QED BY <2>5, <2>6 DEF fl, p
<1>7. CASE k \notin {"ComplianceLogger", "RiskCheck", "StatAggregator"}
  BY <1>2, <1>7 DEF Alike, SaysSame, p
<1> QED BY <1>4, <1>5, <1>6, <1>7

\* The job and the records that it has been given.
Delivered ==
  /\ Len(seen) <= MaxRecords
  /\ {"up", "state", "from", "next", "out"} \subseteq DOMAIN job
  /\ job.up =>
       /\ job.from \in 0 .. Len(seen) /\ job.next \in job.from .. Len(seen)
       /\ Alike(kind, JobMap(job.state), Part(seen, job.from, job.next))
       /\ SaysSame(kind, job.out, Part(seen, job.from, job.next))

Replaying ==
  /\ Collecting /\ (kind = "MultiStreamJoin" => "window" \in DOMAIN edge)
  /\ Delivered

LEMMA DeliveredInit == Init => Replaying
<1> SUFFICES ASSUME Init PROVE Delivered
  BY CollectingInit DEF Replaying, Init
<1> DEFINE e == <<>>
<1>1. /\ seen = e /\ ~ job.up
      /\ {"up", "state", "from", "next", "out"} \subseteq DOMAIN job
  BY DEF Init, NoJob
<1>2. Len(e) = 0 /\ MaxRecords \in Nat
  BY TransferAssumption
<1> HIDE DEF e
<1> QED BY <1>1, <1>2 DEF Delivered

LEMMA DeliveredNext ==
  ASSUME NoRemainder, Replaying, [Next]_vars
  PROVE  Replaying'
<1>1. Collecting' /\ (kind = "MultiStreamJoin" => "window" \in DOMAIN edge)' 
  BY CollectingNext DEF Replaying
<1>2. /\ kind \in Moved /\ kind' = kind /\ seen \in Seq(Record(kind)) /\ clock \in Nat
      /\ MaxRecords \in Nat /\ Len(seen) \in Nat
  BY TransferAssumption DEF Replaying, Collecting, Next, Arrive, Tick, HandOver, TakeSnapshot, Damage,
     OpenJob, FlinkStep, vars
<1>3. /\ Len(seen) <= MaxRecords
      /\ {"up", "state", "from", "next", "out"} \subseteq DOMAIN job
      /\ job.up =>
           /\ job.from \in 0 .. Len(seen) /\ job.next \in job.from .. Len(seen)
           /\ job.next \in 0 .. Len(seen) /\ job.from \in 0 .. job.next
           /\ Alike(kind, JobMap(job.state), Part(seen, job.from, job.next))
           /\ SaysSame(kind, job.out, Part(seen, job.from, job.next))
  BY <1>2 DEF Replaying, Delivered
<1>4. CASE Arrive
  <2>1. PICK r \in Record(kind) : seen' = Append(seen, r)
    <3>1. PICK input \in Inputs[kind] : seen' = Append(seen, Over(input, [timestamp |-> clock]))
      BY <1>4 DEF Arrive
    <3>2. <<input, clock>> \in Inputs[kind] \X Nat
      BY <1>2
    <3> QED BY <3>1, <3>2 DEF Record
  <2>2. Len(seen') = Len(seen) + 1 /\ Len(seen) < MaxRecords
        /\ UNCHANGED <<kind, job>>
    BY <1>2, <1>4, <2>1, AppendProperties DEF Arrive
  <2>3. job.up => Part(seen', job.from, job.next) = Part(seen, job.from, job.next)
    BY <1>2, <1>3, <2>1, PartStays
  <2>4. Len(seen') <= MaxRecords
        /\ (job.up => job.from \in 0 .. Len(seen') /\ job.next \in job.from .. Len(seen'))
    BY <1>2, <1>3, <2>2
  <2> QED BY <1>1, <1>3, <2>2, <2>3, <2>4 DEF Replaying, Delivered
<1>5. CASE OpenJob
  <2>1. PICK map \in Restored \union {<<>>}, n \in 0 .. Len(seen) :
          job' = [up |-> TRUE, state |-> Open(map), from |-> n, next |-> n, out |-> <<>>]
    BY <1>5 DEF OpenJob
  <2>2. UNCHANGED <<kind, seen>>
    BY <1>5 DEF OpenJob
  <2>3. DOMAIN JobMap(Open(map)) \cap StateNames = {}
    <3> DEFINE e == <<>>
    <3>1. DOMAIN e = {}
      OBVIOUS
    <3>2. DOMAIN map \cap StateNames = {}
      BY <2>1, <3>1, RestoredAssumption
    <3>3. JobMap(Open(map)) = IF DOMAIN map = {} THEN e ELSE map
      BY DEF JobMap, Open
    <3> HIDE DEF e
    <3> QED BY <3>1, <3>2, <3>3
  <2>4. Part(seen, n, n) = <<>>
    <3>1. n < n + 1 /\ n \in Int /\ n + 1 \in Int
      OBVIOUS
    <3> QED BY <3>1, SubSeqEmpty DEF Part
  <2>5. /\ job'.up /\ job'.from = n /\ job'.next = n /\ job'.state = Open(map) /\ job'.out = <<>>
        /\ {"up", "state", "from", "next", "out"} \subseteq DOMAIN job'
    BY <2>1
  <2>6. Alike(kind, JobMap(job'.state), <<>>) /\ SaysSame(kind, job'.out, <<>>)
    <3>1. Alike(kind, JobMap(Open(map)), <<>>)
      BY <2>3, StartAlike
    <3> QED BY <2>5, <3>1 DEF SaysSame
  <2>7. n \in 0 .. Len(seen) /\ n \in n .. Len(seen)
    BY <1>2
  <2> QED BY <1>1, <1>3, <2>2, <2>4, <2>5, <2>6, <2>7 DEF Replaying, Delivered
<1>8. CASE FlinkStep
  <2>1. /\ job.up /\ job.next < Len(seen)
        /\ UNCHANGED <<kind, seen>>
        /\ job' = [job EXCEPT !.state = FlatMap(kind, job.state, seen[job.next + 1]).state,
                                  !.out   = FlatMap(kind, job.state, seen[job.next + 1]).out,
                                  !.next  = job.next + 1]
    BY <1>8 DEF FlinkStep
  <2> DEFINE r == seen[job.next + 1]
             q == Part(seen, job.from, job.next)
             m == JobMap(job.state)
             c == job.next + 1
  <2>2. Part(seen, job.from, c) = Append(q, r) /\ r \in Record(kind)
    BY <1>2, <1>3, <2>1, PartGrows
  <2>3. q \in Seq(Record(kind)) /\ Len(q) < MaxRecords
    <3>1. q \in Seq(Record(kind)) /\ Len(q) = job.next - job.from
      BY <1>2, <1>3, <2>1, PartIs
    <3> QED BY <1>2, <1>3, <2>1, <3>1
  <2>4. Alike(kind, m, q)
    BY <1>3, <2>1
  <2>5. FlatMap(kind, job.state, r) =
          [state |-> <<FlinkLogic(kind, m, r).state>>, out |-> FlinkLogic(kind, m, r).out]
    BY DEF FlatMap, JobMap
  <2>6. /\ job'.up /\ job'.next = c /\ job'.from = job.from
        /\ {"up", "state", "from", "next", "out"} \subseteq DOMAIN job'
        /\ job'.state = <<FlinkLogic(kind, m, r).state>> /\ job'.out = FlinkLogic(kind, m, r).out
    BY <1>3, <2>1, <2>5
  <2>7. JobMap(job'.state) = FlinkLogic(kind, m, r).state
    BY <2>6 DEF JobMap
  <2>8. c \in job.from .. Len(seen)
    BY <1>2, <1>3, <2>1
  <2> HIDE DEF m, q, r, c
  <2>9. /\ Alike(kind, FlinkLogic(kind, m, r).state, Append(q, r))
        /\ SaysSame(kind, FlinkLogic(kind, m, r).out, Append(q, r))
    BY <1>2, <2>2, <2>3, <2>4, TakesAlike
  <2> QED BY <1>1, <1>3, <2>1, <2>2, <2>6, <2>7, <2>8, <2>9 DEF Replaying, Delivered
<1>9. CASE Tick \/ HandOver \/ TakeSnapshot \/ Damage \/ UNCHANGED vars
  <2>1. UNCHANGED <<kind, seen, job>>
    BY <1>9 DEF Tick, HandOver, TakeSnapshot, Damage, vars
  <2> QED BY <1>1, <1>3, <2>1 DEF Replaying, Delivered
<1> QED BY <1>4, <1>5, <1>8, <1>9 DEF Next

LEMMA DeliveredSaysSame == Replaying => FlinkStartsOver
<1> SUFFICES ASSUME Replaying, job.up, job.out # <<>>
             PROVE  LET q  == SubSeq(seen, job.from + 1, job.next)
                        py == Process(kind, Replay(Front(q)), Last(q), 0).out
                        fl == job.out[1]
                    IN  /\ q # <<>>
                        /\ kind = "ComplianceLogger" => fl.log_sequence = py[1].log_sequence
                        /\ kind = "StatAggregator" => /\ fl.count = Len(q)
                                                      /\ py # <<>> => /\ fl.mean = py[1].mean
                                                                      /\ fl.variance = py[1].variance
                        /\ kind = "RiskCheck" /\ Limit <= DefaultLimit =>
                             (fl.risk_exceeded => py[1].risk_exceeded)
  BY DEF FlinkStartsOver
<1>1. SaysSame(kind, job.out, Part(seen, job.from, job.next))
  BY DEF Replaying, Delivered
<1>2. \A q : Replay(q) = ReplayOf(kind, q)
  BY DEF Replay, ReplayOf
<1> QED BY <1>1, <1>2 DEF SaysSame, Part

\* Whatever map without names of its own a MigratedOperator was created with, wherever it
\* was opened and with whichever record it begins, it says what a new Python operator would
\* say of the records it is given (MigratedOperator and OperatorFactory against
\* compliance.py, stat_agg.py and risk.py).
THEOREM FlinkSaysTheSame == NoRemainder /\ Spec => []FlinkStartsOver
<1>1. NoRemainder => NoRemainder'
  BY DEF NoRemainder
<1>2. NoRemainder /\ Replaying /\ [Next]_vars => Replaying'
  BY DeliveredNext
<1> QED BY DeliveredInit, <1>1, <1>2, DeliveredSaysSame, PTL DEF Spec
=============================================================================
