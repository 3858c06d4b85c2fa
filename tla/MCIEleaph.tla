------------------------------ MODULE MCIEleaph ------------------------------
EXTENDS IEleaph, TLC

CONSTANTS d1, d2

\* The addresses of devices are interchangeable.
Symmetry == Permutations(Devices)

\* The default of addDevice and the choice of newTcpHost.
UsualOptions == {ForgetDeviceOnClose, ForgetKillDeviceOnDisconnect}

\* The kinds that also destroy the device.
KillOptions == {ForgetKillDeviceOnClose, ForgetKillDeviceOnDisconnect}

\* The kinds bound to the loss of the connection.
OnDisconnect == {ForgetDeviceOnDisconnect, ForgetKillDeviceOnDisconnect}
==============================================================================
