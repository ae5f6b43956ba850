\* Two pages signing in, again and out, up to two flows.
SPECIFICATION Spec
CONSTANTS
    Pages = {p1, p2}
    Flows = {1, 2}
    NoFlow = NoFlow
PROPERTIES
    HoldOrphanedOnlyByOvertaking
    SignInForgottenOnlyByOvertaking
    HoldsEnd
    ListenersClose
