\* The search for BMHs, on all label maps and on all hardware of the instance.
CONSTANTS
    Nil = Nil
    LabelMaps <- MCLabelMaps
    Requests <- MCRequests
    Details <- MCDetails
    Inputs <- MCInputs
SPECIFICATION Spec
INVARIANTS SelectionSound SelectionComplete SearchInv
PROPERTY SelectionEnds
CHECK_DEADLOCK FALSE
