SPECIFICATION Spec
CONSTANTS
    good = good
    narrow = narrow
    skips = skips
    stub = stub
    p1 = p1
    p2 = p2
    None = None
    Designs = {good, narrow, skips, stub}
    Points = {p1, p2}
    MaxOrphans = 1
    Summaries <- MCSummaries
    Reports <- MCReports
    Synthesizes <- MCSynthesizes
INVARIANTS
    CeilingsAreAnswered
