CONSTANTS
    Procs = {p1, p2, p3}
    Users = {u1}
    Objs = {o1, o2, o3, o4}
    NoObj = NoObj
    Anonymous = Anonymous
SPECIFICATION Spec
SYMMETRY Symmetry
INVARIANT Serialized
