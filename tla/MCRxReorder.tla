---------------------------- MODULE MCRxReorder -----------------------------
\* Instances of RxReorder for TLC.
EXTENDS RxReorder

Peer(first, frames, bars, sessions, timer) ==
    [first |-> first, frames |-> frames, bars |-> bars, sessions |-> sessions,
     timer |-> timer]

\* No timeout, with numbers that wrap after five frames and sessions that are
\* negotiated again or reset; no timeout, with block-ack requests and every
\* session event; the timer alone; the timer with everything.
AllEvents == {"addba", "delba", "reset", "reconnect", "nomem"}

MCPeers == {Peer(SeqSpace - 5, 8, FALSE, {"addba", "reset", "nomem"}, FALSE),
            Peer(SeqSpace - 2, 4, TRUE, AllEvents, FALSE),
            Peer(1, 4, FALSE, {}, TRUE),
            Peer(1, 2, TRUE, AllEvents, TRUE)}

MCTwoFrames == {Peer(1, 2, FALSE, {}, TRUE)}

\* A window shifted by one starts at 0.
MCShiftToZero == {Peer(SeqSpace - 3, 7, FALSE, {}, FALSE)}
=============================================================================
