SPECIFICATION Spec
CONSTANTS
    n1 = n1
    t1 = t1
    e1 = e1
    e2 = e2
    Nodes = {n1}
    Tags = {t1}
    Emails = {e1, e2}
    LocalEmails = {}
    AutoRenew = {}
    Editable = {n1}
    Deletable = {e1}
    Requested = {e1, e2}
    MaxGen = 0
    MaxExp = 1
SYMMETRY Symmetry
INVARIANT DeletedIsGone
