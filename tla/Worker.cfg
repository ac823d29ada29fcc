SPECIFICATION MCSpec
CONSTANTS
    Ids = {o1, o2, o3}
    BatchSize = 1
    Operations = {q1, q2}
    Handlers = {h1}
    Workers = {v1}
    None = None
    Window = 1
    MaxHeight = 2
    ada = ada
    k1 = k1
    k2 = k2
    coffee = coffee
INVARIANTS TypeOK NoRowIsOvertaken
PROPERTIES QueueIsServed EveryRowSettles
