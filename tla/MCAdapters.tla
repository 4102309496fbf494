----------------------------- MODULE MCAdapters -----------------------------
(***************************************************************************)
(* Small instances of the adapters: rings of one or two bytes or units,    *)
(* and plans that let a ring fill, a driver fail and an adapter stop and   *)
(* start again.                                                            *)
(***************************************************************************)
EXTENDS Adapters

\* bursts over a two-byte DMA buffer, a line that drains, and a failing driver
MCDmaPlans == {[drains |-> FALSE, patient |-> FALSE, len |-> 2, bytes |-> 2, sends |-> 1, faults |-> 0],
               [drains |-> TRUE, patient |-> TRUE, len |-> 2, bytes |-> 3, sends |-> 1, faults |-> 0],
               [drains |-> FALSE, patient |-> FALSE, len |-> 1, bytes |-> 3, sends |-> 0, faults |-> 1],
               [drains |-> FALSE, patient |-> FALSE, len |-> 1, bytes |-> 5, sends |-> 0, faults |-> 0]}
MCUsbPlans == {[units |-> 3, sends |-> 1, resets |-> 2]}
MCIrqPlans == {[bytes |-> 3, units |-> 1, drains |-> TRUE],
               [bytes |-> 3, units |-> 1, drains |-> FALSE]}
MCPollPlans == {[bytes |-> 3, units |-> 1]}
MCUdpPlans == {[datagrams |-> 3, units |-> 2]}
MCAsioPlans == {[datagrams |-> 3, units |-> 1, stream |-> s, learn |-> l] :
                    s \in BOOLEAN, l \in BOOLEAN}
MCSerialPlans == {[bytes |-> 4, units |-> 2]}
MCHostPlans == {[units |-> 3, sends |-> 2]}
MCLoopPlans == {[units |-> 3, budget |-> b, refused |-> {2}] : b \in {1, 2}}
\* a reused call slot with its old request still out, and a full reply pool
MCKernelPlans == {[last |-> 2, ends |-> 1, frames |-> 1, sends |-> 0, faults |-> 1, budget |-> 2],
                  [last |-> 1, ends |-> 0, frames |-> 3, sends |-> 1, faults |-> 0, budget |-> 3]}

\* the other adapters of a run that looks at one of them
NoPlans == {}
MCDmaStops == {[drains |-> TRUE, patient |-> FALSE, len |-> 1, bytes |-> 0, sends |-> 1, faults |-> 0]}
MCAsioLearns == {[datagrams |-> 1, units |-> 1, stream |-> FALSE, learn |-> TRUE]}
=============================================================================
