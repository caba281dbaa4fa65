SPECIFICATION Spec
CONSTANTS
    Plaintexts = {"secret"}
    Passwords = {"right", "wrong"}
    Settings = {Unset, 0, 2, 33, 2097152}
    Lengths = {3, 5, 21, 30, 42, 45, 60}
    Unset = Unset
    MaxUint32 = 2000000000
    MaxUint8 = 255
    None = None
INVARIANTS TypeOK DecryptsExactly
