SPECIFICATION Spec
CONSTANTS
    uo = uo  ua = ua  uf = uf
    no = no  nu = nu  n1 = n1
    eo = eo  eu = eu
    ph = ph  pw1 = pw1  pw2 = pw2  s1 = s1  s2 = s2
    Uids = {uo, ua, uf}
    Owner = uo
    Usernames = {no, nu, n1}
    Phones = {ph}
    Emails = {eo, eu}
    Passwords = {pw1, pw2}
    Secrets = {s1, s2}
    Roles = {"USER", "ADMIN", "OWNER"}
    Requests = {r1, r2, r3}
    MaxRequests = 3
    InitialTables <- Tables
    NoPhone = NoPhone
    NoSecret = NoSecret
    Absent = Absent
    Deleted = Deleted
SYMMETRY Perms
INVARIANTS OwnerStands NamesStayUnique
PROPERTIES DeletedStaysDeleted SerialUnlessOvertaken
CHECK_DEADLOCK FALSE
