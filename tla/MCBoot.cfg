SPECIFICATION Spec
CONSTANTS
    A = A
    B = B
    plain = plain
    Word = {A, B, plain, "s", "h"}
    Open = Open
    Sep = Sep
    Shut = Shut
    Made <- MCMade
    Envs <- MCEnvs
    Edited <- MCEdited
    None = None
    Torn = Torn
    xso = xso
    xdll = xdll
    fso = fso
    x = x
    filesystem = filesystem
    File = {xso, xdll, fso}
    Base = {x, filesystem}
    BaseOf <- MCBaseOf
    Exts <- MCExts
    l2 = l2
    Lib = {l1, l2}
    Bad = Bad
    Absent = Absent
    Caller = {c1, c2}
    Booter = Booter
    Builtin = {filesystem}
    MaxStreams = 1
INVARIANTS BootsTypeOK SecretsArePersisted PasswordWasShown EntryHasFile SkipsBadPlugins
PROPERTY StartAndStopEnd
CHECK_DEADLOCK FALSE
