\* The service and the installer's daemon, which may start at the same time, all
\* three protections with changes between them, the installer's TPM step run any
\* number of times, stops and failures anywhere.
SPECIFICATION Spec
CONSTANTS
    k1 = k1
    k2 = k2
    p1 = p1
    p2 = p2
    service = service
    terminal = terminal
    Keys = {k1, k2}
    Passphrases = {p1, p2}
    Daemons = {service, terminal}
    Services = {service}
    Installer = terminal
SYMMETRY Interchangeable
INVARIANT TypeOK
INVARIANT NoOtherKeyLost
INVARIANT LinkNotBeforeKey
INVARIANT OpensAgain
