SPECIFICATION Spec
CONSTANTS
    n1 = n1
    n2 = n2
    t1 = t1
    e1 = e1
    Nodes = {n1, n2}
    Tags = {t1}
    Emails = {e1}
    LocalEmails = {e1}
    AutoRenew = {e1}
    Editable = {}
    Deletable = {}
    Requested = {}
    MaxGen = 1
    MaxExp = 2
SYMMETRY Symmetry
INVARIANTS
    RowIsSum
PROPERTY ActivatedStays
