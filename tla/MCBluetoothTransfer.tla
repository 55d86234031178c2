------------------------- MODULE MCBluetoothTransfer -------------------------
EXTENDS BluetoothTransfer
=============================================================================
