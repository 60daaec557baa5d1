CONSTANTS
    d1 = d1
    m1 = m1
    a1 = a1
    r1 = r1
    r2 = r2
    c1 = c1
    p1 = p1
    Unwritten = Unwritten
    Docs <- MCDocs
    Meeting = m1
    Autos <- MCAutos
    Manuals <- MCManuals
    Cycles <- MCCycles
    PreCalls <- MCPreCalls
    MayFail = TRUE
SYMMETRY Symmetry
SPECIFICATION Spec
INVARIANTS TypeOK ReportsAgree CallsRecorded ThingsAgree
CHECK_DEADLOCK FALSE
CONSTRAINT Apart
