SPECIFICATION AgentSpec
CHECK_DEADLOCK FALSE
CONSTANTS
    Tills = {t1, t2}
    Receipts = {r1, r2}
    Modes = {"SPOOL_WATCH", "VIRTUAL_PRINTER", "SERIAL_BRIDGE", "NETWORK_PROXY"}
    RefusedReceipts = {r1}
    JobCapacity = 1
    MaxJobParts = 3
    None = None
    MaxMishaps = 2
INVARIANT Inv
PROPERTIES PrintingNeverWaits EventuallyDelivered
