----------------------------- MODULE MCDriverTx -----------------------------
\* Instances of DriverTx for TLC.
EXTENDS DriverTx, TLC

Scenario(net, devs, ops, faults, n, m, e) ==
    [net |-> net, devs |-> devs, ops |-> ops, faults |-> faults, packets |-> n,
     calls |-> m, events |-> e]

One == {"eth1"}
Both == {"eth1", "eth2"}

\* Implicit pipes that time out, of two devices whose transfers may fail and of one
\* that goes on; the user's streams with failing transfers, with admission events,
\* and with the host going to sleep; and the networks in which the queues
\* of the stack are stopped.
MCScenarios == {Scenario("infra", Both, {"timeout"}, TRUE, 3, 0, 0),
                Scenario("infra", One, {"timeout"}, FALSE, 5, 0, 0),
                Scenario("infra", One, {"timeout", "qos"}, TRUE, 1, 2, 0),
                Scenario("infra", One, {"qos", "cac"}, FALSE, 0, 2, 1),
                Scenario("infra", One, {"qos", "cac"}, FALSE, 1, 1, 1),
                Scenario("infra", One, {"sleep", "qos"}, FALSE, 1, 2, 0),
                Scenario("adhoc", One, {}, TRUE, 5, 0, 0),
                Scenario("bypass", Both, {}, FALSE, 5, 0, 0),
                Scenario("bypass", One, {}, TRUE, 5, 0, 0)}

\* Data, timeouts, and one change of the map by the user.
MCUserStreams == {Scenario("infra", One, {"timeout", "qos", "sleep"}, FALSE, 2, 2, 0)}

MCSymmetry == Permutations(Cookies)
=============================================================================
