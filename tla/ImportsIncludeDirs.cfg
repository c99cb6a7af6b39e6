SPECIFICATION Spec
CONSTANTS
    Projects <- MCProjects
    Found <- MCFound
    FoundByLegacy <- MCFoundByLegacy
    Rewritten <- MCRewritten
    Unknown <- MCUnknown
PROPERTY FromImportsAreFound
