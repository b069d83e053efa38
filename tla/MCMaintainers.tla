---------------------------- MODULE MCMaintainers ----------------------------
(* The chains of the runs.  Components of the same shape are one chain.     *)
EXTENDS Maintainers

Shapes == {LocalDiskManager, LDMCSIController, LocalStorage, LSCSIController,
           AdmissionController, Scheduler, Evictor, Auditor,
           FailoverAssistant, PVCAutoResizer, LocalDiskActionController,
           ApiServer, Exporter, UI, DataLoadManager, DataSetManager}

\* Every component alone.
Singles == {<<shape>> : shape \in Shapes}

ExporterAlone == {<<Exporter>>}

\* Two disturbances of the components that cannot be disabled, one of others.
Disturbances ==
    [ch \in Chains |-> IF ch[1].removal = "never" THEN 2 ELSE 1]
=============================================================================
