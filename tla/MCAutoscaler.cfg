CONSTANTS
    Debounce = 4
    MaxTidbs = 3
SPECIFICATION Spec
INVARIANT TypeOK
PROPERTIES DebounceScaleIn LoadGetsTidb QuietScalesIn
