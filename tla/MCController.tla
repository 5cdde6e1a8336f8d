---------------------------- MODULE MCController ----------------------------
EXTENDS Controller, TLC

\* Devices are interchangeable.
Devices == Permutations(DeviceId)
=============================================================================
