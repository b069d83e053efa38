--------------------------- MODULE MCDrbdInstall ---------------------------
(* Small instances of DrbdInstall: nodes with and without masters, and drbd *)
(* sections as the chart writes them and as a user may change them.         *)
EXTENDS DrbdInstall

CONSTANTS n1, n2

\* The chart's section, with DRBD on or off, or jobs on masters as well, or
\* useAffinity "yes"; one that leaves its nested sections out; and none.
SwitchSpecs == {NoSpec, [NoSpec EXCEPT !.disable = TRUE],
                [NoSpec EXCEPT !.onMaster = TRUE],
                [NoSpec EXCEPT !.section = "affinity"],
                [NoSpec EXCEPT !.section = "partial"],
                [NoSpec EXCEPT !.section = "none"]}

\* Bound: with a section other than the chart's there is a fault or a deletion,
\* with the chart's there are both.
SectionBound == cluster.spec.section # "full" => faults + deletes <= 1

\* The chart's section.
FullSections == {NoSpec}

\* The chart's section, or none.
RemovedSections == {NoSpec, [NoSpec EXCEPT !.section = "none"]}
=============================================================================
