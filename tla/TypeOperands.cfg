SPECIFICATION Spec
CONSTANTS
    Programs <- TwoFunctions
    Collected <- MCCollected
    Visited <- MCVisited
    WithInstance <- MCWithInstance
    Concluded <- MCConcluded
PROPERTY NegatedAreNumbers
