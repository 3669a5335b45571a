SPECIFICATION ChatSpec
CONSTANTS
    t1 = t1
    t2 = t2
    t3 = t3
    c1 = c1
    c2 = c2
    m1 = m1
    m2 = m2
    Turn <- Turns
    Chat <- Chats
    Binding <- Models
    Nobody = Nobody
SYMMETRY Renaming
INVARIANTS SessionsAccounted BindingHonoured
CHECK_DEADLOCK FALSE
