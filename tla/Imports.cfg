SPECIFICATION Spec
CONSTANTS
    Projects <- MCProjects
    Found <- MCFound
    FoundByLegacy <- MCFoundByLegacy
    Rewritten <- MCRewritten
    Unknown <- MCUnknown
PROPERTIES
    NamesKeepTheirMeaning
    LoaderInv
    WellFormedLoads
    SessionIsNoLooser
