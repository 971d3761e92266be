--------------------------- MODULE MCDeviceStartup ---------------------------
EXTENDS DeviceStartup
=============================================================================
