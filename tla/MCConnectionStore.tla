-------------------------- MODULE MCConnectionStore --------------------------
(* Small instances of ConnectionStore for TLC.                              *)
EXTENDS ConnectionStore

CONSTANTS a1, a2

Conf(hosts, use_shm, key) ==
    [hosts |-> hosts, use_shm |-> use_shm, shm_key |-> key]

\* One host, two hosts, a repeated host, none: without shared memory.
PlainConfigs ==
    {Conf(<<a1>>, FALSE, 1), Conf(<<a1, a2>>, FALSE, 1),
     Conf(<<a2, a2>>, FALSE, 1), Conf(<<>>, FALSE, 1)}

PlainSavePaths == {Conf(<<a2>>, FALSE, 1)}

\* Overlapping lists of hosts that all ask for the first key, one that asks for
\* the key the generator would pick next, and one without shared memory.
ShmConfigs ==
    {Conf(<<a1>>, TRUE, 1), Conf(<<a1, a2>>, TRUE, 1), Conf(<<a2>>, TRUE, 2),
     Conf(<<a2>>, FALSE, 1), Conf(<<>>, TRUE, 1)}

ShmSavePaths == {Conf(<<a1>>, FALSE, 1)}

Keys == 1 .. 4

=============================================================================
