SPECIFICATION Spec
CONSTANTS
    User <- MCUser
    CommonName = {frontproxy, other}
    Anonymous = anonymous
    Loopback = apiserver
    Authenticated = authenticated
    Unauthenticated = unauthenticated
    Masters = masters
    None = none
    alice = alice
    dev = dev
    frontproxy = frontproxy
    other = other
INVARIANTS
    ServesWhatIsDescribed
    SchemasMatchTypes
    OnlyTheVouchedFor
    ProbesAnswered
    PrefixUnseen
CHECK_DEADLOCK FALSE
