\* Two detections of one client at a time, each as often as it likes, over a
\* network that goes down and comes back, or fails two requests.
CONSTANTS
    d1 = d1
    d2 = d2
    Detector <- TwoDetectors
    Controllers <- Known
    Circuits = 2
    Zones = 4
    EmptyStop = 2
    ReadFirmware = {TRUE}
    MaxFaults = 2
SPECIFICATION Spec
SYMMETRY DetectorSymmetry
INVARIANTS
    TypeOK
    AnsweredIsRecognised
    NeverInvents
