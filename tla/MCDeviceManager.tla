-------------------------- MODULE MCDeviceManager --------------------------
\* Instances of DeviceManager for TLC.
EXTENDS DeviceManager, TLC

CONSTANTS cfg1, cfg2, other

\* Two devices, and a configuration with the name of the first of them whose
\* adapter is not known.
MCNameOf == cfg1 :> "dev1" @@ cfg2 :> "dev2" @@ other :> "dev1"
=============================================================================
