\* One detection, and a network that goes down.
CONSTANTS
    d1 = d1
    d2 = d2
    Detector <- OneDetector
    Controllers <- Known
    Circuits = 2
    Zones = 4
    EmptyStop = 2
    ReadFirmware = {TRUE, FALSE}
    MaxFaults = 2
SPECIFICATION Spec
INVARIANT DeadLinkIsReported
