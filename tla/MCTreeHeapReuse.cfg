\* A run queue: the same threads come and go.
SPECIFICATION HeapSpec
CONSTANTS
    HeapElements = {e1, e2, e3}
    HeapKeys = {1, 2}
    HeapNull = null
    Fresh = FALSE
PROPERTIES
    ImplementsPriorityQueue
