CONSTANTS
    NTarget = 2
    SlotBytes <- TwoLayers
    NExperts = 288
    TopK = 8
    SystemReserve = 4194304
    RuntimeReserve = 524288
    Auxiliary = 786432
    Formats = {"bf16", "mxfp8", "mxfp4"}
    ResidentLoad = 17424415
    Resident <- ResidentSizes
    MTPLoad = 476316
    MTPResident = 126522
    MTPBank = 626688
    Others = {0, 524288, 734003}
    Budgets <- AllBudgets
    Machines <- AllMachines

SPECIFICATION Spec

INVARIANT NeverOverCeiling


\* a refused, failed or closed runtime takes no further step
CHECK_DEADLOCK FALSE
