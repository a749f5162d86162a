SPECIFICATION Spec
CONSTANTS
    alice = alice
    bob = bob
    aliceName = aliceName
    bobPhone = bobPhone
    None = None
    Usernames = {aliceName}
    Phones = {bobPhone}
    Users = {alice, bob}
    Contacts <- ContactList
    ExtraWait = 1
    PeerFloodTime = 2
    RetryAfter = {0, 3}
    MaxTime = 6
INVARIANTS CallsWhoWasAsked
PROPERTIES NoDialUnderEmbargo BlockNeverShortened
