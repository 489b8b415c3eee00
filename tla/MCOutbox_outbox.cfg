SPECIFICATION Spec
CONSTANTS
    Msgs = {m1, m2}
    NoMsg = NoMsg
SYMMETRY Symmetry
INVARIANTS TypeOK RequestsKept SentOnce NeverForgotten
PROPERTIES NothingVanishes
