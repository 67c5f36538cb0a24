------------------------------ MODULE MCDevice ------------------------------
(***************************************************************************)
(* Instances of DeviceClient for TLC.                                      *)
(***************************************************************************)
EXTENDS DeviceClient

CONSTANTS r1, r2

\* A register value, as the bus gives it.
Bus(raw) == (raw % 256) * 256 + raw \div 256

\* 0, -1/16 (which is also the failed read), the ends of the range, 125, -40,
\* -17.8 (0 Fahrenheit from below) and 25.25 degrees, with and without alarms.
MCReading ==
  {Bus(raw) : raw \in {0, 65535, 4095, 4096, 2000, 8192 - 640, 8192 - 285, 404, 404 + 57344}}
=============================================================================
