------------------------ MODULE TriggerRecordProofs ------------------------
(***************************************************************************)
(* Proofs about TriggerRecords, for every number of elements.              *)
(***************************************************************************)
EXTENDS TriggerRecords, TLAPS

\* The fragments of two groups that share no source id, one behind the other.
LEMMA Joined ==
  ASSUME NEW S, NEW s \in Seq(S), NEW t \in Seq(S)
  PROVE  /\ s \o t \in Seq(S)
         /\ Len(s \o t) = Len(s) + Len(t)
         /\ \A i \in 1..Len(s \o t) :
              (s \o t)[i] = IF i <= Len(s) THEN s[i] ELSE t[i - Len(s)]
OBVIOUS

Types == {"WIB", "DAPHNE", "TriggerActivity", "TriggerCandidate"}
Detectors == {"HD_TPC", "HD_PDS", "DAQ"}
Subsystems == {"DetectorReadout", "Trigger"}
AnyFragment ==
  [fragment_type : Types, detector_id : Detectors, source : Subsystems \X Int,
   window : Int \X Int]

IsGroup(f, subsystem, first, count) ==
  /\ f \in Seq(AnyFragment)
  /\ Len(f) = count
  /\ \A i \in 1..count : /\ f[i].source[1] = subsystem
                         /\ f[i].source[2] = first + i - 1

\* One group: as many fragments as elements, with consecutive numbers.
LEMMA Group ==
  ASSUME NEW type \in Types, NEW detector \in Detectors, NEW subsystem \in Subsystems,
         NEW first \in Int, NEW count \in Nat, NEW ts \in Int, NEW early \in Int
  PROVE  IsGroup(Fragments(type, detector, subsystem, first, count, ts, early),
                 subsystem, first, count)
<1> DEFINE f == Fragments(type, detector, subsystem, first, count, ts, early)
<1>1. f = [n \in 1..count |->
             [fragment_type |-> type, detector_id |-> detector,
              source |-> <<subsystem, first + n - 1>>,
              window |-> <<ts - early, ts>>]]
  BY DEF Fragments
<1>2. \A n \in 1..count : f[n] \in AnyFragment
  BY <1>1 DEF AnyFragment
<1>3. \A n \in 1..count : /\ f[n].source[1] = subsystem
                          /\ f[n].source[2] = first + n - 1
  BY <1>1
<1>4. f \in [1..count -> AnyFragment]
  BY <1>1, <1>2
<1> HIDE DEF f
<1>5. f \in Seq(AnyFragment) /\ Len(f) = count
  BY <1>4
<1> QED
  BY <1>3, <1>5 DEF f, IsGroup

\* The record a dispatcher makes holds as many fragments as its header says,
\* and no two of them have one source id, so that the result writer can give
\* each a data set of its own.
THEOREM SourcesAreDistinct ==
  ASSUME NEW trig_num \in Nat, NEW ts \in Nat,
         NEW tpc \in Nat, NEW pds \in Nat, NEW ta \in Nat, NEW tc \in Nat
  PROVE  LET tr == create_trigger_record(trig_num, ts, tpc, pds, ta, tc)
         IN  /\ Len(tr.fragments) = tr.num_requested_components
             /\ \A i, j \in 1..Len(tr.fragments) :
                  tr.fragments[i].source = tr.fragments[j].source => i = j
<1> DEFINE A == Fragments("WIB", "HD_TPC", "DetectorReadout", 0, tpc, ts, 0)
           B == Fragments("DAPHNE", "HD_PDS", "DetectorReadout", tpc, pds, ts, 0)
           C == Fragments("TriggerActivity", "DAQ", "Trigger", 0, ta, ts, 10)
           D == Fragments("TriggerCandidate", "DAQ", "Trigger", ta, tc, ts, 0)
           tr == create_trigger_record(trig_num, ts, tpc, pds, ta, tc)
<1> /\ tpc \in Int /\ ta \in Int /\ ts \in Int /\ 0 \in Int /\ 10 \in Int
    /\ "WIB" \in Types /\ "DAPHNE" \in Types
    /\ "TriggerActivity" \in Types /\ "TriggerCandidate" \in Types
    /\ "HD_TPC" \in Detectors /\ "HD_PDS" \in Detectors /\ "DAQ" \in Detectors
    /\ "DetectorReadout" \in Subsystems /\ "Trigger" \in Subsystems
  BY DEF Types, Detectors, Subsystems
<1>1. /\ A \in Seq(AnyFragment) /\ Len(A) = tpc
      /\ \A i \in 1..tpc : /\ A[i].source[1] = "DetectorReadout"
                           /\ A[i].source[2] = 0 + i - 1
  <2>1. IsGroup(A, "DetectorReadout", 0, tpc)
    BY Group, Zenon
  <2> HIDE DEF A, B, C, D
  <2> QED
    BY <2>1 DEF IsGroup
<1>2. /\ B \in Seq(AnyFragment) /\ Len(B) = pds
      /\ \A i \in 1..pds : /\ B[i].source[1] = "DetectorReadout"
                           /\ B[i].source[2] = tpc + i - 1
  <2>1. IsGroup(B, "DetectorReadout", tpc, pds)
    BY Group, Zenon
  <2> HIDE DEF A, B, C, D
  <2> QED
    BY <2>1 DEF IsGroup
<1>3. /\ C \in Seq(AnyFragment) /\ Len(C) = ta
      /\ \A i \in 1..ta : /\ C[i].source[1] = "Trigger"
                          /\ C[i].source[2] = 0 + i - 1
  <2>1. IsGroup(C, "Trigger", 0, ta)
    BY Group, Zenon
  <2> HIDE DEF A, B, C, D
  <2> QED
    BY <2>1 DEF IsGroup
<1>4. /\ D \in Seq(AnyFragment) /\ Len(D) = tc
      /\ \A i \in 1..tc : /\ D[i].source[1] = "Trigger"
                          /\ D[i].source[2] = ta + i - 1
  <2>1. IsGroup(D, "Trigger", ta, tc)
    BY Group, Zenon
  <2> HIDE DEF A, B, C, D
  <2> QED
    BY <2>1 DEF IsGroup
<1>5. /\ tr.fragments = A \o B \o C \o D
      /\ tr.num_requested_components = tpc + pds + ta + tc
  BY DEF create_trigger_record
<1> HIDE DEF A, B, C, D, tr
<1> DEFINE AB == A \o B
           ABC == AB \o C
           all == ABC \o D
<1>6. /\ AB \in Seq(AnyFragment) /\ Len(AB) = tpc + pds
      /\ \A i \in 1..tpc + pds : AB[i] = IF i <= tpc THEN A[i] ELSE B[i - tpc]
  <2>1. /\ A \o B \in Seq(AnyFragment)
        /\ Len(A \o B) = Len(A) + Len(B)
        /\ \A i \in 1..Len(A \o B) :
             (A \o B)[i] = IF i <= Len(A) THEN A[i] ELSE B[i - Len(A)]
    BY <1>1, <1>2, Joined, Zenon
  <2> QED
    BY <1>1, <1>2, <2>1
<1> HIDE DEF AB
<1>7. /\ ABC \in Seq(AnyFragment) /\ Len(ABC) = tpc + pds + ta
      /\ \A i \in 1..tpc + pds + ta :
           ABC[i] = IF i <= tpc + pds THEN AB[i] ELSE C[i - (tpc + pds)]
  <2>1. /\ AB \o C \in Seq(AnyFragment)
        /\ Len(AB \o C) = Len(AB) + Len(C)
        /\ \A i \in 1..Len(AB \o C) :
             (AB \o C)[i] = IF i <= Len(AB) THEN AB[i] ELSE C[i - Len(AB)]
    BY <1>3, <1>6, Joined, Zenon
  <2> QED
    BY <1>3, <1>6, <2>1
<1> HIDE DEF ABC
<1>8. /\ Len(all) = tpc + pds + ta + tc
      /\ \A i \in 1..tpc + pds + ta + tc :
           all[i] = IF i <= tpc + pds + ta THEN ABC[i] ELSE D[i - (tpc + pds + ta)]
  <2>1. /\ ABC \o D \in Seq(AnyFragment)
        /\ Len(ABC \o D) = Len(ABC) + Len(D)
        /\ \A i \in 1..Len(ABC \o D) :
             (ABC \o D)[i] = IF i <= Len(ABC) THEN ABC[i] ELSE D[i - Len(ABC)]
    BY <1>4, <1>7, Joined, Zenon
  <2> QED
    BY <1>4, <1>7, <2>1
<1> HIDE DEF all
<1>9. \A i \in 1..tpc + pds :
        /\ all[i].source[1] = "DetectorReadout"
        /\ all[i].source[2] = i - 1
  <2> SUFFICES ASSUME NEW i \in 1..tpc + pds
               PROVE  /\ all[i].source[1] = "DetectorReadout"
                      /\ all[i].source[2] = i - 1
    OBVIOUS
  <2>0. all[i] = ABC[i] /\ ABC[i] = AB[i]
    BY <1>7, <1>8
  <2>1. all[i] = IF i <= tpc THEN A[i] ELSE B[i - tpc]
    BY <1>6, <2>0
  <2> QED
    BY <1>1, <1>2, <2>1
<1>10. \A i \in tpc + pds + 1..tpc + pds + ta + tc :
        /\ all[i].source[1] = "Trigger"
        /\ all[i].source[2] = i - 1 - (tpc + pds)
  <2> SUFFICES ASSUME NEW i \in tpc + pds + 1..tpc + pds + ta + tc
               PROVE  /\ all[i].source[1] = "Trigger"
                      /\ all[i].source[2] = i - 1 - (tpc + pds)
    OBVIOUS
  <2>1. all[i] = IF i <= tpc + pds + ta THEN C[i - (tpc + pds)]
                                        ELSE D[i - (tpc + pds + ta)]
    BY <1>7, <1>8
  <2> QED
    BY <1>3, <1>4, <2>1
<1>11. ASSUME NEW i \in 1..Len(all), NEW j \in 1..Len(all),
              all[i].source = all[j].source
       PROVE  i = j
  <2>1. all[i].source[1] = all[j].source[1] /\ all[i].source[2] = all[j].source[2]
    BY <1>11
  <2>2. "DetectorReadout" # "Trigger"
    OBVIOUS
  <2>3. (i <= tpc + pds) <=> (j <= tpc + pds)
    BY <1>8, <1>9, <1>10, <2>1, <2>2
  <2> QED
    BY <1>8, <1>9, <1>10, <2>1, <2>3
<1>12. tr.fragments = all
  BY <1>5 DEF AB, ABC, all
<1> QED
  BY <1>5, <1>8, <1>11, <1>12 DEF tr

\* Of the eight readout elements of a generated record, the table of the writer
\* misses one, 2, and gives another, 4, to two channels.
THEOREM GeoIdsOfReadout ==
  /\ GeoIds(2) = {}
  /\ GeoIds(4) = {<<3, 1, 1, 1>>, <<2, 1, 0, 0>>}
  /\ \A source \in 0..7 \ {2, 4} : \E geo_id : GeoIds(source) = {geo_id}
<1>1. Len(create_srcid_geoid_map) = 8
  BY DEF create_srcid_geoid_map
<1>2. /\ GeoIds(2) = {}
      /\ GeoIds(4) = {<<3, 1, 1, 1>>, <<2, 1, 0, 0>>}
  BY <1>1 DEF GeoIds, create_srcid_geoid_map
<1>3. /\ GeoIds(0) = {<<3, 1, 0, 0>>}
      /\ GeoIds(1) = {<<3, 1, 0, 1>>}
  BY <1>1 DEF GeoIds, create_srcid_geoid_map
<1>5. /\ GeoIds(3) = {<<3, 1, 1, 0>>}
      /\ GeoIds(5) = {<<2, 1, 0, 1>>}
  BY <1>1 DEF GeoIds, create_srcid_geoid_map
<1>6. /\ GeoIds(6) = {<<2, 1, 1, 0>>}
      /\ GeoIds(7) = {<<2, 1, 1, 1>>}
  BY <1>1 DEF GeoIds, create_srcid_geoid_map
<1>4. \A source \in 0..7 \ {2, 4} : source \in {0, 1, 3, 5, 6, 7}
  OBVIOUS
<1> QED
  BY <1>2, <1>3, <1>4, <1>5, <1>6
=============================================================================
