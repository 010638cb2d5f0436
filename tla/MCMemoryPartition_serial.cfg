CONSTANTS
    m1 = m1
    m2 = m2
    w1 = w1
    w2 = w2
    w3 = w3
    r1 = r1
    r2 = r2
    None = None
    Writers = {w1, w2, w3}
    Readers = {r1}
    Metrics = {m1}
    Batches <- OneMetricBatches
    Queries <- OneMetricQueries
    Clock = {2}
    WorkersLimit = 1
SPECIFICATION Spec
SYMMETRY WriterSymmetry
INVARIANTS PointsInOrder MaxCoversReturned SelectExact EncodedInOrder
