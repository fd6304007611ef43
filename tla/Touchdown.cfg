SPECIFICATION Spec
CONSTANTS
    MinLand = 1
    Confirm = 3
    Window = 2
    MaxStamp = 6
    MaxSamples = 6
INVARIANT FiresExactlyOnBurst
