SPECIFICATION Spec
CONSTANTS
    n1 = n1
    t1 = t1
    t2 = t2
    e1 = e1
    Nodes = {n1}
    Tags = {t1, t2}
    Emails = {e1}
    LocalEmails = {}
    AutoRenew = {}
    Editable = {n1}
    Deletable = {}
    Requested = {}
    MaxGen = 2
    MaxExp = 1
PROPERTY RowOutlivesInbound
