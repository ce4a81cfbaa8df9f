--------------------------- MODULE TriggerRecords ---------------------------
(***************************************************************************)
(* The trigger record that the dispatcher makes when it has no data file   *)
(* (create_trigger_record()), and the table by which the result writer     *)
(* would find the detector channel of a fragment (create_srcid_geoid_map()).*)
(***************************************************************************)
EXTENDS Integers, Sequences

\* One fragment for each of count elements, numbered from first; its window
\* begins `early` milliseconds before the record's timestamp ts.
Fragments(type, detector, subsystem, first, count, ts, early) ==
  [n \in 1..count |->
     [fragment_type |-> type, detector_id |-> detector,
      source |-> <<subsystem, first + n - 1>>,
      window |-> <<ts - early, ts>>]]

\* The counts are element_count_tpc, element_count_pds, element_count_ta and
\* element_count_tc.
create_trigger_record(trig_num, ts, tpc, pds, ta, tc) ==
  [trigger_number |-> trig_num, trigger_timestamp |-> ts,
   num_requested_components |-> tpc + pds + ta + tc,
   sequence_number |-> 0, max_sequence_number |-> 1,
   fragments |->
     Fragments("WIB", "HD_TPC", "DetectorReadout", 0, tpc, ts, 0)
       \o Fragments("DAPHNE", "HD_PDS", "DetectorReadout", tpc, pds, ts, 0)
       \o Fragments("TriggerActivity", "DAQ", "Trigger", 0, ta, ts, 10)
       \o Fragments("TriggerCandidate", "DAQ", "Trigger", ta, tc, ts, 0)]

\* Source id, and detector, crate, slot and stream.
create_srcid_geoid_map ==
  <<[source_id |-> 0, geo_id |-> <<3, 1, 0, 0>>],
    [source_id |-> 1, geo_id |-> <<3, 1, 0, 1>>],
    [source_id |-> 3, geo_id |-> <<3, 1, 1, 0>>],
    [source_id |-> 4, geo_id |-> <<3, 1, 1, 1>>],
    [source_id |-> 4, geo_id |-> <<2, 1, 0, 0>>],
    [source_id |-> 5, geo_id |-> <<2, 1, 0, 1>>],
    [source_id |-> 6, geo_id |-> <<2, 1, 1, 0>>],
    [source_id |-> 7, geo_id |-> <<2, 1, 1, 1>>]>>

GeoIds(source) ==
  {create_srcid_geoid_map[n].geo_id :
     n \in {m \in 1..Len(create_srcid_geoid_map) :
              create_srcid_geoid_map[m].source_id = source}}
=============================================================================
