SPECIFICATION Spec
CONSTANTS
    None = None
    Products = {p1}
    Details = {d1, d2}
    Stocks = {1}
    MinStock = 0
    MaxStock = 1
    Handlers = {h1, h2}
    Readers = {r1}
SYMMETRY Symmetric
INVARIANTS TypeOK  SearchFollows
