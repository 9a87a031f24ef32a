------------------------------- MODULE MCDeploy -------------------------------
EXTENDS Deploy, TLC

MCTasks == {"deploy", "configure", "configureAll", "shortTimes", "shortTimesV1", "runLocal",
            "ci", "descriptorV2", "populate"}
MCSymmetry == Permutations(Terminals)
=============================================================================
