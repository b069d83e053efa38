-------------------------- MODULE MCStorageClasses --------------------------
(* Small instances of StorageClasses: the storageClass section of the chart, *)
(* switched on or off, or left out.                                          *)
EXTENDS StorageClasses

ChartSection == {[present |-> TRUE, disable |-> FALSE]}

\* The chart's section, the switch set, and none.
AllSections == ChartSection \cup {[present |-> TRUE, disable |-> TRUE],
                                  [present |-> FALSE, disable |-> FALSE]}
=============================================================================
