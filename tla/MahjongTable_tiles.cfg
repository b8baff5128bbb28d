SPECIFICATION Spec
CONSTANTS
    Users = {u1, u2, u3}
    Host = u1
    Seats = {1, 2}
    MaxJu = 2
INVARIANT DealHasTiles
