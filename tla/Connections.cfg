\* Two connections, of one user or of two, and two challenges; one request
\* that broadcasts.  Clients may go at any time.
SPECIFICATION Spec
CONSTANTS
    Users = {u1, u2}
    Challenges = {c1, c2}
    Conns = {1, 2}
    Casters = {g1}
    None = None
    Named = {u1, u2}
    MaxMessages = 3
VIEW View
SYMMETRY Symmetry
INVARIANTS
    TypeOK
    NoDeadEntry
    SoleConnectionKept
    OnlyMembersWritten
    SomebodyIsTold
