---------------------------- MODULE MCBusManager ----------------------------
(* Instances of BusManager for TLC. *)
EXTENDS BusManager, TLC

CONSTANTS d1, d2, x, bus1, bus2, watcher, test, p1, p2, p3, p4, p5

MCDevice == {d1, d2, x}

MCDeviceName == d1 :> "d1" @@ d2 :> "d2" @@ x :> "x"
MCInterval   == d1 :> 1 @@ d2 :> 1 @@ x :> 1

\* d1 and the device x, whose adapter is unknown, are on bus1, d2 on bus2.
MCDeviceBus    == d1 :> bus1 @@ d2 :> bus2 @@ x :> bus1
MCAdapterKnown == {d1, d2}

\* The file grows from one bus to two, or shrinks to one.
MCConfig     == {<<x, d1>>, <<d1, d2>>}
MCDeviceList == {<<d1>>, <<d2>>}

\* Everything on bus1: the device, or none whose adapter is known.
MCOneBus == {<<d1>>, <<x>>}

Workers == Permutations(Pipeline)
=============================================================================
