SPECIFICATION Spec
CONSTANTS
    Width = 2
    OtherTexts <- MCOtherTexts
    EmptyText <- MCEmptyText
    AutoText <- MCAutoText
    PublicTexts <- MCPublicTexts
    Loopback <- MCLoopback
INVARIANTS
    HoneypotReplaced
    HiddenBitsStayHidden
    ProgramsAgree
    UnsetLeavesAlone
