------------------------------- MODULE MCDaemon -------------------------------
(* Values for the constants of Daemon.                                      *)
EXTENDS Daemon

\* What clients send: PING, a DEPOSIT with two bytes of payload, the same and
\* one byte of the next request, a wrong magic number, and a length too large.
Requests ==
    {Wire([type |-> 5, payload |-> <<>>]),
     Wire([type |-> 7, payload |-> <<1, 2>>]),
     Wire([type |-> 7, payload |-> <<1, 2>>]) \o <<magicHigh>>,
     <<magicLow, magicHigh, 5, 0, 0, 0, 0>>,
     Header(7, maxPayloadSize + 1)}

\* A few things happen around a process, never all of them.
Scenes ==
    {[how |-> "service", around |-> {"clients", "stop"}],
     [how |-> "service", around |-> {"trouble", "stop"}],
     [how |-> "once", around |-> {"trouble", "stop"}],
     [how |-> "terminal", around |-> {"lines"}],
     [how |-> "terminal", around |-> {"counts"}],
     [how |-> "terminal", around |-> {"trouble", "stop"}]}
=============================================================================
