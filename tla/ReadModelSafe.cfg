\* A full build and a JSON-only one, a curation or a refresh, two request threads.
CONSTANTS
    daily = daily  doctor = doctor  t1 = t1  t2 = t2
    Builders = {daily, doctor}
    Locked = {daily}
    NoShadow = {doctor}
    IndexOnly = {doctor}
    Threads = {t1, t2}
    Operators = {t2}
    Nobody = Nobody
    MaxBuilds = 2
    MaxOperations = 1
    MaxTroubles = 1
SPECIFICATION Spec
CHECK_DEADLOCK FALSE
INVARIANTS FiledUnderItsStamp
PROPERTIES NothingOlderComesBack AnswersAreRegular
