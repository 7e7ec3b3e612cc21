\* Two of everything, one component at a time.
SPECIFICATION RecordsSpec
CONSTANTS
    u1 = u1  u2 = u2  s1 = s1  s2 = s2  p1 = p1  c1 = c1  c2 = c2
    d1 = d1  d2 = d2  e1 = e1  e2 = e2  r1 = r1  r2 = r2
    t1 = t1  t2 = t2  m1 = m1  m2 = m2  a1 = a1  a2 = a2
    None = None
    User = {u1, u2}
    Socket = {s1, s2}
    Phone = {p1}
    Call = {c1, c2}
    Document = {d1, d2}
    Event = {e1, e2}
    Run = {r1, r2}
    Store = {t1, t2}
    Email = {m1, m2}
    Address = {a1, a2}
INVARIANTS
    UniqueKeysHold
    LatestResultStands
    NewerJoinSurvives
    StaleOnlyIfShared
PROPERTIES
    VerifiedIsFilled
CHECK_DEADLOCK FALSE
